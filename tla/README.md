# VitaConnectEverywhere in TLA+

VitaConnectEverywhere is a user-mode plugin of the PlayStation Vita's settings
application. It adds buttons that start an FTP server, share the memory card
over USB, redirect the memory card to another medium and refresh the live
area. Paths below are relative to the repository (`src/ftpvita.c` is the FTP
server); in `PROJECT.json` they carry the prefix of the checkout.

This directory holds TLA+ modules translated from that code, TLC
configurations that check them on small instances, and TLAPS proofs of the
safety properties for instances of every size.

    tlc -workers 2 -config FtpVita.cfg MCFtpVita         a run
    tlc -workers 2 -config Storage.cfg MCStorage         another
    tlapm FtpVitaProofs.tla                              proofs

## 1. The system

### Threads

| thread | started by | lives | does |
|---|---|---|---|
| UI thread (settings application) | the system | for ever | runs the `On...`/`on...` handlers of `src/main.c`; starts and stops the FTP server and the USB storage |
| network thread `vitaConnect_thread` | `module_start` | endless loop | looks at network, Wi-Fi and cable once a second; stops the FTP server and the USB storage (`src/thread.c`) |
| message thread `thread_user_message` | `start_thread`, one per notification | one dialog | shows what `run_USB` names (`src/thread.c`) |
| refresh thread | `onPressREFRESH` | one refresh | moves and promotes applications (`src/refresh.c`) |
| FTP server thread `server_thread` | `ftpvita_init` | until its socket closes | accepts connections |
| FTP client threads `client_thread` | the server thread, one per connection | until disconnected | execute FTP commands |

They share global variables and the file system. The only lock in the plugin
that is really used is `client_list_mtx`, around the list of FTP clients.

### Components

**FTP server life cycle** (`src/ftpvita.c` 864-1222). State: `ftp_initialized`,
what was brought up of the network (`net_memory`, `net_init`, `netctl_init`),
the server thread and its socket, the doubly linked client list with
`number_clients` and its mutex, the client threads and their records.
Operations: `ftpvita_init`, `ftpvita_fini`, accepting a client, a client's
coming and going. Hard: the walk of fini against clients that leave and a
server that adds; freed records that are still pointed at; a lock held while
waiting for threads that want it; commands that never end; init's half-done
exits; two callers.
Correct when the list is always the clients that have joined and not left,
fini touches no freed record and waits for everyone, and every resource is
released once.

**FTP client session** (`src/ftpvita.c` 120-861). State per client: control and
data sockets, `data_con_type`, the restore point, the current directory, the
path to rename, the file a transfer has open. Operations: the FTP commands.
Hard: state one command leaves for the next (a data connection, a restore point,
a path) when something fails in between; socket numbers reused across clients;
a current directory that the client, too, keeps account of. Correct when no
socket or file leaks, nobody closes another's socket, files hold what was sent,
and a command acts on the file that the client meant.

**FTP device list and custom commands** (`src/ftpvita.c` 1224-1316). Two fixed
tables filled by the thread that starts the server and read by client threads. Hard: eighteen
devices are added to sixteen places.

**Controller** (`src/main.c`, `src/thread.c`, parts of `src/utils.c`). State:
`run`, `s_mesg`, `toggle`, `run_USB`, `select_WifiUsb`, `usbdevice_modid`,
`usbdeviceOFF`, flags of the buttons. Operations: the button handlers, the
network loop and its callback, the message thread, module start and stop. Hard:
three kinds of thread change the same variables without a lock; a notification
variable is cleared by its reader at the end; the USB module is unloaded from
several handlers. Correct when `run` says whether the server is up, the server
and the storage can always be stopped, by the user and by the loss of Wi-Fi or
cable, and one of the two is off when the other is on.

**Refresh** (`src/refresh.c`). State: the application directories, a temporary
directory, the promoter. Operations: for each application, rename, promote,
and rename back if that fails. Hard: failure or power loss between the steps; two
refreshes at once. Correct when no application is ever lost.

**USB storage and memory card redirection** (`src/utils.c` 187-443,
`onPressUSB` in `src/main.c`, `src/modules/kernel`). State: what each mount point
is mounted on, which medium the kernel plugin has redirected `ux0:` and `uma0:`
to, the USB module, the MTP driver, the sharing. Operations: the USB button (to
the USB medium and back), `startUsb`, `stopUsb`. Hard: sequences of a dozen
system calls each of which may fail and whose results are ignored; where to
go back to is worked out from what is mounted and plugged in at that moment; the
network thread's `stopUsb` remounts what the button is moving. Correct when
`ux0:` ends up on a medium, the user is told what is so, a sharing is set up or
undone as a whole, and nothing the PC has written to stays mounted as it was.

**File utilities** (`src/file.c`). State: the file system; a call's recursion and
its open handles. Operations: `getPathInfo`, `removePath`, `copyPath`,
`copyFile`, `movePath`. Hard: any call may fail or the user cancel several
directories deep, with files half copied and directories open; a move that
meets what is there already; two threads in the same tree. Correct when
success means that all of it has been done, failure loses nothing, and nothing
else is touched.

**Package promotion**
(`src/package_installer.c`, `pbp.c`, `rif.c`, `sfo.c`, `pfs.c`), **SQLite shim**
(`src/sqlite3.c`), **hashes** (`src/sha1.c`, `sha256.c`), **settings patch
plugin** (`src/modules/patch`): sequential code around system calls and binary
formats.

### How they interact

The UI thread calls `ftpvita_init`, it and the network thread `ftpvita_fini`;
the server thread creates client threads and registers them in the list, which
fini walks. The handlers and the refresh set `run_USB` and start a message
thread, which reads and clears it; the network thread's callback ignores
disconnections in between. The
refresh thread sets `refreshOnOff`, which the handlers look at. FTP clients and
the refresh work on the same file system without knowing of each other, and the
storage functions unmount it under both. `Controller` has the sharing as one
flag, started and ended; `Storage` has what starting and ending it consists of.
`Refresh` has the removal of a temporary directory as one step that may fail;
`FileTree` has its steps.

## 2. What is modelled

| module | models | kind |
|---|---|---|
| `ClientList` | `client_list_add`, `client_list_delete` as pointer surgery; `Chain` is the reference | pure operators |
| `FtpService` | what the server promises: register, leave, drain, stop | abstract specification |
| `FtpVita` | init, fini, server thread, client threads, step by step | state machine, implements `FtpService` |
| `FtpSession` | PASV, PORT, LIST, RETR, STOR, APPE, REST, DELE of several clients | state machine |
| `FtpPaths` | CWD, CDUP, MKD, RMD, DELE, RNFR, RNTO: the paths a client keeps and what they resolve to | state machine |
| `Controller` | the UI, network, refresh and notification threads over `run`, `s_mesg`, `toggle`, `run_USB`, `usbdeviceOFF`, the FTP server and the USB storage | state machine |
| `Refresh` | `refresh_thread` over applications, patches and PSM games | state machine |
| `Storage` | the USB button, `startUsb`, `stopUsb` and the mounts they consist of, on two threads | state machine |
| `FileTree` | `getPathInfo`, `removePath`, `copyPath`, `copyFile`, `movePath` as recursion over a file system | state machine |
| `MCFtpVita`, `MCFtpSession`, `MCRefresh`, `MCStorage`, `MCFileTree` | instances and bounds for TLC | |
| `ClientListProofs`, `FtpVitaProofs`, `FtpSessionProofs`, `FtpPathsProofs`, `ControllerProofs`, `RefreshProofs`, `StorageProofs`, `FileTreeProofs` | proofs | |

### FtpVita

A client is the address of its record. `malloc` may return the address again
once the record has been freed, so three addresses stand for any number of
connections, one after the other, and a pointer kept too long shows as a
pointer to a record that is gone or is somebody else's. `cliPc[c] = "gone"`
means both that the record is free and that its thread has ended; a record is
`"dormant"` between `sceKernelCreateThread` and `sceKernelStartThread`.

| variable | in the code |
|---|---|
| `pc`, `it`, `nxt` | where a caller is in init or fini; the two locals of `client_list_thread_end` |
| `ftpInitialized` | `ftp_initialized` |
| `held` | `net_memory != NULL`, `net_init == 0`, `netctl_init == 0` |
| `owned` | what the plugin really holds of the three (no variable of the code) |
| `serverThid`, `serverSockfd` | `server_thid`, `server_sockfd` |
| `list`, `numberClients` | `client_list` with the records' `prev` and `next`; `number_clients` |
| `mtxExists`, `mtxOwner` | `client_list_mtx` |
| `srvPc`, `srvCli`, `openSocks` | the server thread, the client it is registering, the listening sockets |
| `cliPc`, `aborted` | the client threads; the sockets fini aborted |

Each step that reads or writes shared state is an action, named after the
function it is a step of (`Init...`, `Fini...`, `Server...`, `Client...`). The
body of a critical section, between a lock and the unlock it ends with, is one
action: nothing outside can look in, which `ListExclusive` checks rather than
assumes (a mutex that does not exist stops nobody in this model, as in the code,
where the results of the lock calls are ignored).

Modelled as the code uses them, and not from their source: the mutex (attribute
0: first come, first served), the abort of a socket (it ends the recv in
progress, or the next one if the thread is not in recv), waiting for a thread's
end (returns at once if there is no such thread any more), `sceNetShowNetstat`,
`sceNetInit` and `sceNetCtlInit` with each result the code distinguishes.
`Callers` are the threads that call fini, `Starters` those that also call init.

The creation of the server thread, its socket, bind and listen, and an accept may
fail, with what the code does then: no thread, or a thread that ends. Assumed, and
not to be found in the code, is that `client_list_mtx` is created (init ignores the
result), that a thread that was created starts, and that the server thread gets a
record and a thread for each client.

### FtpSession

A file is its length in chunks; a transfer moves one chunk a step. Socket
numbers are drawn from one pool and given back when closed: the same number then
belongs to another client. `data_sockfd` and `pasv_sockfd` of a fresh record
hold `Garbage`, for `malloc` does not clear them. `DataFds` is what the code
closes: it goes by `data_con_type`, not by what is open.

`asked`, `expected`, `moved` and `mishaps` are history: the properties need them
to say what a transfer should have done, and under which circumstances. A
property that holds only if nothing of a kind went wrong says so with
`mishaps`, so that the condition is visible and the rest of what may go wrong is
still in. `sceNetSocket` may fail in PASV and PORT, which store the negative number
and answer that all is well.

A file being transferred is left alone by the other commands of the model:
what `sceIoOpen` and `sceIoRemove` do to a file in use is not to be found in
this code. Read errors are not modelled.

### FtpPaths

A path is its names, the device first, and whether it ends in a slash: the code
looks at nothing else in one. What `strrchr` finds is decided by that slash and
the number of names; a path appended to `/` gets two slashes, `get_vita_path`
takes one off, and what is left names no device. An argument is a full path, or
one that the code may take to begin with a device (`Short`: it goes by the
fourth character), or names and perhaps a slash.

| variable | in the code |
|---|---|
| `curPath`, `renamePath` | `cur_path`, `rename_path`; the second is anything in a fresh record |
| `tree` | the file system, which `Elsewhere` changes at any time |
| `here`, `asked` | the client: where it takes itself to be, and what it has been asked for the new name of, by the answers it got |
| `mishaps`, `astray` | history: what has happened that a property excludes; that a command changed something its client did not mean |

Any command may be refused, for reasons of the system. A rename that fails is
answered twice, 550 and 226; what a client makes of that is its own, and the
model follows it no further than to its next connection.

### Controller

The handlers call the same functions as the network thread, so the threads share
their steps: a thread is at a label (`pc`) and has a sequence of labels to go on
with (`rest`), a call stack without the locals. `Call(t, l, s)` goes to `l` and
then on with `s`; `Return` goes on with what is left. `PressFtp` with the server
off, for example, is `check_wifi`, then `connect`; and `check_wifi` with Wi-Fi
off puts `clear_run`, `fini`, `message` before that. Each statement that touches
what the threads share is a step; `ftpvita_init` and `ftpvita_fini` are a call
and a return, between which the other threads run.

| variable | in the code |
|---|---|
| `run`, `sMesg`, `toggle`, `selectWifiUsb` | `run`, `s_mesg`, `toggle`, `select_WifiUsb` |
| `runUsb` | `run_USB != 0`: which notice it is has no effect but the text |
| `usbdeviceModid`, `usbdeviceOff` | `usbdevice_modid >= 0`, `usbdeviceOFF` |
| `ftpInitialized` | `ftp_initialized` |
| `storage` | the memory card is shared over USB (no variable of the code) |
| `unstopped`, `unstarted` | history: the last `stopUsb` has failed and left the card shared; the last `start_thread` has started nothing |
| `msgPc` | the notification threads |
| `model`, `wifiOff` | what the system says of the model, of Wi-Fi and flight mode |
| `crossed` | history: the UI thread and another have been in the middle of starting or stopping the same thing at once |

Abstracted. What is said in notifications, dialogs and on widgets, and
`onPressedFTP`, which only selects a text. `ftpvita_fini` returns here, however
long it takes, and nothing says that it returns at all: `FtpVita` has the
circumstances in which it does not. With two threads in it, the server is still
one flag; `FtpVita` has what they do to each other. `stopUsb` is a step, which may
leave the card shared; `Storage` has the calls that fail then. Its callers ignore
the result. `start_thread` may fail at any time, and does when no identifier is
free; its callers ignore that, too. The cable may be plugged
or unplugged at any time: what a thread sees of it is an input.
The memory card and refresh buttons, and the refresh thread, appear with their
notices, that is with what they do to `run_USB`.

### Refresh

An item is an application, a patch or a PSM game, whole: what `refreshApp` does
to its `work.bin` is left out. `home` and `temp` say which item is in which
directory; applications share `AppTemp`, patches `PatchTemp`, and each game has
its own. A thread reads a directory's entries in any order, and an entry once.

| variable | in the code |
|---|---|
| `home`, `temp` | the directories under `ux0:app`, `ux0:patch`, `ux0:psm`, and under `ux0:temp` |
| `installed` | what `refreshNeeded` finds known to the system and licensed, or of the right version |
| `refreshOnOff`, `nbrRefreshItem` | the same |
| `pc`, `cur`, `kind`, `seen`, `refreshed` | the thread, its entry, the directory it reads, what it has read, `refresh_data.refreshed` |
| `done`, `late` | history: the items the thread has promoted, counted or not; a call has failed after a promotion |
| `stranded` | history: left in a temporary directory by a power loss or by a rename back that failed |
| `blocked` | history: a `removePath` has failed |

The code ignores the results of `removePath` and `sceIoRename`: both may fail
anywhere, and a rename whose target exists is refused (`movePath` in
`src/file.c` knows that result). The promoter is modelled by what the code
relies on: a promotion moves the content of the temporary directory to where
its title belongs, or leaves it; a failure after it (`promoteApp` returns the
result of shutting the promoter down) is reported as a failure all the same, and
the item is not counted. A
power loss leaves the files, and nothing else. Add-ons, PSP games and licenses
have callbacks that nothing calls.

### Storage

A thread has a plan (`todo`): the calls to the system it will make, in order.
The functions of the code are plans (`MountUsbUx0`, `StopUsb`...), a handler
puts one together as the code's branches do at the press, each call is a step,
and where the code looks at a result, or at a file, before it goes on, the step
puts the rest of the plan in front. So the whole is as long as the code's list
of calls, and everything can happen between two of them.

| variable | in the code |
|---|---|
| `todo` | where the UI and the network thread are in their functions |
| `notice` | `run_USB` as `onPressUSB` leaves it: 1 mounted, 3 umounted, 6 and 11 neither |
| `redirect` | the devices `shellKernelRedirectUx0` and `...Uma0` have set, and the fixed ones |
| `mounted` | what a point is mounted on (the system's) |
| `modid`, `loaded`, `mtp`, `shared` | `usbdevice_modid >= 0`; whether the module is loaded, the MTP driver runs, and which medium is shared (the system's) |
| `slots`, `present`, `exclusive` | the console: what it has room for, what is plugged in, whether a medium can be mounted only once |
| `stale` | history: the points mounted before the PC last wrote to their medium |
| `mishaps`, `crossed` | history: what has gone wrong; both threads have been at it at once |

`vshIoUmount` without force may be refused while something is mounted; with
force it is not. `vshIoMount` mounts what the point is redirected to, or fails.
Whether a medium can be mounted at two points is not to be found in this code:
`exclusive` is either. `checkFolderExist` and `checkFileExist` are true of what
is mounted and plugged in. `FindMountPoint` always finds one of its identifiers,
and that `refreshOnOff` keeps the button from doing anything is `Refresh`'s.

What the translation shows of the code, and no run needs to: the `mount...Ux0`
functions return 0 whatever happens, so that the notices 2 and 4, "not
mounted", cannot be reached; a game card has priority over the medium that `ux0:`
came from, when it goes back; `stopUsb` leaves `usbdevice_modid` set; and `ur0:`
can be shared but is not remounted afterwards.

### FileTree

A thread's `stack` holds the frames of its recursion: the function, its source
and destination, which entries of the directory it has seen, and where it is
between two system calls. The listing of an entry is one step with what is done to
it, and the first `sceIoRename` of `movePath` one with the `sceIoGetstat` and
`sceIoRemove` that follow its failure. `ret` is what the innermost call has just returned,
which `Resume` looks at as the code does. A file is named by the path it had at
first, which stands for its content, so that moved, copied, replaced and lost
files can be told apart; it is `"cut"` while a copy of it is incomplete.

| variable | in the code |
|---|---|
| `fs` | the file system |
| `stack`, `ret` | the recursion and its results |
| `call` | the call each thread has made |
| `value` | `*param->value`, or what `getPathInfo` counts |
| `handles` | the open files and directories |
| `before`, `alone`, `mishaps` | history: the file system at the call, whether another thread has been at it since, what has failed |

At first the file system is a tree, each file named by its own path
(`TreesAreTrees`); that it stays one is proved. What `sceIoRename` and
`sceIoRmdir` refuse is modelled as the system's: a rename to where something is,
into itself, or to where a path would be too long; the removal of what is not
empty, or of a whole device.

A copy is two steps, an incomplete file and a complete one, since where in the
loop a read, a write or the user ends it makes no difference. After a short write,
which `copyFile` takes for a whole one (`src/file.c:374`), the file stays
incomplete behind a returned 1. What is counted is
one for each file and directory: the code adds a file's size, and the callers
pass it on as progress. Of these functions the plugin itself calls `removePath`
(from the refresh) and `copyFile`; the others are its library.

Premises of the properties that come from the code: a failing `sceIoDread` is
taken for the end of the directory (`"dread"`); a write of less than was read is
taken for success (`"short"`); the removal of an incomplete copy may fail, and its
result is ignored (`"cleanup"`); `movePath` returns 1 with nothing moved if its
first `sceIoRename` fails but for EEXIST (`"rename"`, `src/file.c:514-516` and 590),
and ignores the result of `sceIoRmdir`, so that directories may be left behind;
`copyPath` returns 1 for an
empty directory copied over a file of that name (`Hidden`); a failed or
cancelled `copyFile` removes the destination even if there was a file before, so
a copy, unlike a move, may lose what it was to replace; `movePath` returns 1 when
its flags tell it to leave things where they are.

## 3. What the runs check

| run | instance | shows |
|---|---|---|
| `ftp_server` | 1 caller, 2 clients, 1 server thread, all behaviours, with fairness | `ListFaithful`, the list is a proper doubly linked list of exactly the clients that have joined and not left; `FiniWalkIsSafe`, fini reads no freed record, waits for no thread that was never started and leaves nobody behind; `ListExclusive`; `NetBalanced`, no exit of init or fini loses or doubles a release; `FiniLeavesOnlyTheDeparted`, a thread that still runs after fini had left the list by itself and only closes its sockets; `ImplementsService`, the server is the abstract service; `OrderlyFiniReturns`, provided that every FTP command ends, fini returns unless it is called before the server has its socket or a client is leaving while it walks; `DepartedClientEnds` |
| `ftp_session` | 2 clients, 4 socket numbers, a file of up to 2 chunks | `NothingLeaksFromTheOrderly`, neither sockets nor files leak until PASV or PORT finds a connection set up (which a refused transfer leaves behind), a transfer finds none, or memory runs out; `StrayClosesAreOfTwoKinds`, nobody closes another client's socket until somebody transfers without a connection or goes away between PASV and the transfer; `TransfersFaithful`, stored and retrieved files are right in every order of REST, APPE, STOR and RETR, until a transfer is refused or a write fails |
| `ftp_paths` | 1 client and whoever else uses the files; 1 device, directories two deep | `CurPathIsHere`, the client is where it takes itself to be until it enters a directory with a slash at its end, whatever becomes of the directories; `ChangesWhatItNamed`, no command changes anything but what its client named, even then, except RNTO without RNFR |
| `controller` | both models, a notification thread, with fairness | in every interleaving: `ServerIsStoppable`, the server is not left up with `run = 0`, when the button would try to start it; `ServerIsWatched`, nor with `s_mesg = 1`, when the network thread would not look at the Wi-Fi; `WifiOffStopsServer`, Wi-Fi off for good takes the server down, however often the user starts it again, if no `ftpvita_fini` blocks for ever; `NoticeEnds`, `run_USB` does not stay set, unless `start_thread` starts nothing. As long as the threads do not cross: `RunIsTrue`, `run` is whether the server is up; and, unless the last `stopUsb` has failed: `StorageIsWatched`, `usbdeviceOFF` is clear while the card is shared; `ModesExclude`, the card is not shared with the PC while FTP clients may write to it |
| `refresh_safety` | 1 thread at a time, 2 applications, a patch, a game; failures and power losses | `RestoresOnError`, an item is at home or in the hands of the thread, except what a power loss or a failing rename has stranded; `CountIsTrue`, the number reported is that of the items promoted, or less if a call failed after a promotion, unless a leftover could not be removed; `RefreshEnds`, `refreshOnOff` comes down |
| `storage` | a console with game card, memory card and USB, one with memory card, internal medium and USB; media put in and taken out; the button, sharing and its end on two threads | `Ux0HasMedium`, only a refused umount, an unreadable medium or one taken out loses `ux0:`; `NoticeIsTrue`, the user is told what is so; `FreshAfterSharing`, nothing the PC may have written to is left mounted as it was, whatever the threads do at once; `SharingIsWhole`, every failure of `startUsb` is undone, unless a call of the undoing fails too |
| `file_tree` | every call with every flag on five small trees, any system call failing, cancelling; a second thread that removes or copies meanwhile | `OnlyItsOwn`, nothing outside the call's paths is touched; `RemoveIsHonest`, also with two threads in one tree; `SuccessIsWhole`, what a returned 1 of `copyPath` or `movePath` means, but after a short write, a listing that breaks off or a first rename that fails; `NoHalves`, no half of a file is left, but by a short write or a clean-up that fails; `MoveLosesNothing`, at any point of a move and whatever fails; `HandlesClosed` |

Each module's `TypeOK` is checked in one of its runs too. The states found:
`ftp_server` 59,208, `ftp_session` 527,412, `ftp_paths` 151,250, `controller` 622,042,
`refresh_safety` 89,514, `storage` 1,606,522, `file_tree` 362,552.

### Where the code does not do what it says

| run | what TLC finds |
|---|---|
| `ftp_join_client` | fini waits, with the list's mutex held, for a client that waits for the mutex. Both stop for ever, and with them the caller (the UI or network thread). `ClientsAreJoined` |
| `ftp_two_callers` | the UI thread and the network thread in fini together: one deletes the mutex under the other's walk, which then reads a freed record. `FiniWalkIsSafe` |
| `session_stor` | a REST followed by a refused transfer makes the next STOR append where it should overwrite. `StorOverwrites` |
| `ftp_paths_up` | after CWD to `/ux0:/a/` CDUP leads to `/`, for `dir_up` takes any path that ends in a slash for the root of a device. `UpIsUp` |
| `refresh_twice` | two presses before the first thread raises `refreshOnOff`: the second thread's `removePath` deletes the application that the first has moved to `ux0:temp/app`. `RestoresOnError` |

`FiniWalkIsSafe` is a property that holds with one caller, proved for any number
of clients, and fails with two: the single caller is what the code relies on
without ensuring it. `OrderlyFiniReturns` has three premises: fini does not come
before the server thread has its socket, it meets no client that is leaving, as in
the first finding, and no FTP command goes on for ever (`CommandsEnd`). TLC shows
that there is no fourth. The code sees to none of them. As to the last, RETR
repeats a read that fails for ever (`bytes_read` is unsigned, `src/ftpvita.c:536`),
a send to a peer that does not read blocks while fini aborts only what is received,
and fini does not abort a socket that a client's record has lost.
A client that has left the list before fini walks it is not waited for: fini
tears down the network while that thread still closes its sockets.
`FiniLeavesOnlyTheDeparted` says that this is all that can be left, and how far
such a thread has got.

`UpIsUp` is what `CurPathIsHere` says without its premise. That the damage goes no
further is `ChangesWhatItNamed`: a client that is at `/` without knowing it names
files by paths that lead nowhere from there.

`RestoresOnError` leaves out the stranded for a reason: `app_callback` begins by
deleting `ux0:temp/app`, so that an application the power left there is gone
with the next refresh that moves another, and so is one whose rename back failed.
The property shows that these, and two threads at once, are the only ways to
lose one.

`RunIsTrue`, `StorageIsWatched` and `ModesExclude` have the premise `~crossed`,
and TLC finds each violated without it: two threads in the middle of the same
thing leave the flags wrong. `StorageIsWatched` and `ModesExclude` have a second,
`~unstopped`. That the premises concern the past, and not the moment, says that
nothing else does: no order of presses, unplugging and
connection losses alone gets the flags out of step. `ServerIsStoppable` and
`ServerIsWatched` need no premise: whatever the flags say, no crossing leaves a
server behind that neither the button nor the loss of Wi-Fi would stop.

These the runs have as premises of properties that otherwise hold, each shown by
TLC when the premise is dropped. No comment or test of the code says otherwise, so
they are no findings; but they are what the code does wrong:

- PASV or PORT a second time, also after a transfer that was refused, overwrites
  the number of a socket that is open (`src/ftpvita.c:177`, 252), and a transfer that
  gets no memory leaves its file open (605): `NothingLeaksFromTheOrderly`;
- a transfer without PASV or PORT closes whatever `data_sockfd` holds, and a client
  that goes away between PASV and the transfer closes the `pasv_sockfd` of an earlier
  one (297, 989-993): the number may be another client's by then.
  `StrayClosesAreOfTwoKinds`;
- a `stopUsb` that returns early leaves the card shared, and every caller goes on as
  if it were not: it sets `usbdeviceOFF` (`src/main.c:72-73`, `src/thread.c:104-105`,
  151-152), so that pulling the cable stops nothing any more, or lets the server be
  started (`src/main.c:455`). `StorageIsWatched`, `ModesExclude`;
- a `start_thread` that starts nothing leaves `run_USB` set, with nobody to clear it
  until the next notification. `NoticeEnds`;
- the labels of `startUsb` ignore whether MTP comes back and the module is unloaded
  (`src/utils.c:399`, 402), and the module's number is forgotten anyway.
  `SharingIsWhole`;
- an item that is promoted before a call of the promoter fails is not counted and
  goes for one that was not (`src/package_installer.c:102-116`). `CountIsTrue`;
- `copyFile` returns 1 after a short write (`src/file.c:374`); `movePath` returns 1
  after every failure of its first rename but EEXIST (514-516, 590); both take a
  listing that breaks off for complete. `NoHalves`, `SuccessIsWhole`.

### Bounds

Two client addresses in `ftp_server`, which checks liveness and safety in one
run: the list is empty, of one record or of two, head and last record differ,
and address reuse makes the number of connections unbounded. That a record in
the middle is no different is proved, for lists of any length, and so is every
safety property of the run. One server thread is
enough because init is only entered with the old one gone (the thread's
identity is reused); with two identities, 955,332 states, the same properties
hold. In `FtpSession` four sockets let both clients hold a control
and a data socket, or one of them hold all three of a passive connection and
leave none: running out happens. Two chunks distinguish an empty, a part and a
whole file, and an offset inside it. `SocketMishaps` has the run go on after
refused transfers, connections set up again, failing writes and clients that go
away, one kind in a behaviour and with empty files and no offset from then on, as long as
everybody has its control socket; `OneMishap` bounds the counterexample's kinds of mishap. The
proofs have neither bound.

`FtpPaths`: one client, because clients share nothing but the files, which
`Elsewhere` changes for all the others. Directories two deep have one that is
neither a device's root nor in it, and two names let a directory be renamed with
what is in it. What `Depth` bounds, in the proofs too, is the path's length.

Deadlock is not checked in the `ftp_` runs: the system can stop there, which is
the first finding.

`Controller`: one notification thread at a time, for which `start_thread` fails
while it is there and may fail anyway, and notices of the UI thread's own besides
those all threads share. The other threads are the code's own. There is no other
bound: the call stack's depth is limited by the labels. The safety properties are
proved for any number of notification threads and notices of either thread; TLC
has found them to hold, too, with two threads (5.1 million states, one model) and
with notices of the refresh (3.3 million), which is more than the run has time for
with liveness.

`Storage`: the two consoles have between them every medium and every branch of
`BringBack`. `OneTrouble` lets one kind of mishap happen (a failing `startUsb`
with or without a failing undoing), or the threads cross, not both, and does not go on after a medium's removal or a failed `stopUsb`,
which the properties exclude; `MediaAtRest` has media put in between presses.
The proofs have none of these bounds, nor that of two consoles.

`FileTree`: paths of four names from two. The five trees are one alone with and
without a third level and with names used twice, and two side by side that have
the same names, that disagree on what is a file, and that disagree with an empty
directory: every branch of the recursion meets what it is for. Sources and
destinations are every path down to the second level, one inside the other
included. `Crossing` limits the second thread to removing and copying while the
first does one of the same calls. The run may stop: each thread makes one call.
The proofs are for any trees, any calls and any number of threads. Two bounds
stay in them: a thread makes one call, though others may have
gone before it on other threads; and paths have at most
`Depth` names, whatever `Depth` is: a call that would make a longer one fails.

`Refresh`: two applications share a temporary directory, so that one can meet
what is left of the other; patches and games differ in which directory they
share and need one each. `PowerFails` only keeps the counterexample of
`refresh_twice` to what it is about.

### Fairness

A thread that can run does (weak fairness of every thread's own steps): the Vita
schedules user threads of one priority round robin on three cores, and a step of
the model is a bounded piece of code. A client waiting for the mutex gets it
even if others keep taking it (strong fairness of `ClientLock`): the mutex is
created with attribute 0, whose waiting queue is first in, first out. The threads of
`Controller` are fair in the same way: one that is in the middle of something
goes on, and the network thread's loop goes round. So is a refresh, whose
directories end.

Not assumed are the ends of what the code lets block. An FTP command need not end;
`OrderlyFiniReturns` and `ClientsAreJoined` say that they ask it to. An accept
returns an error for sure only once its socket has been closed. `ftpvita_fini` need
not return in `Controller`; `WifiOffStopsServer` asks it to. Nothing is
assumed about the user calling init or fini, about connections arriving, peers
sending or leaving, Wi-Fi, the cable or the buttons.

## 4. What is proved

For every value of the constants (clients, servers, socket numbers, files and
their lengths, devices, names, notification threads, items, consoles, trees, calls), with TLAPS:

| theorem | module | assumes | states |
|---|---|---|---|
| `AddFrontChain` | `ClientListProofs` | | adding to a list of any length gives a list with one more record in front |
| `UnlinkChain` | `ClientListProofs` | | removing any member leaves a list of the others |
| `TypeCorrect` | `FtpVitaProofs` | | `Spec => []TypeOK`, with any number of callers |
| `ListStaysFaithful` | `FtpVitaProofs` | one caller | `Spec => []ListFaithful` |
| `WalkStaysSafe` | `FtpVitaProofs` | one caller | `Spec => []FiniWalkIsSafe` |
| `ListStaysExclusive` | `FtpVitaProofs` | one caller | `Spec => []ListExclusive` |
| `OnlyTheDepartedAreLeft` | `FtpVitaProofs` | one caller | `Spec => []FiniLeavesOnlyTheDeparted` |
| `NetStaysBalanced` | `FtpVitaProofs` | one caller | `Spec => []NetBalanced` |
| `Refines` | `FtpVitaProofs` | one caller | `Spec => ImplementsService` |
| `TypeCorrect` | `FtpSessionProofs` | | `Spec => []TypeOK` |
| `NoOtherStrayCloses` | `FtpSessionProofs` | | `Spec => StrayClosesAreOfTwoKinds` |
| `OrderlyLeaksNothing` | `FtpSessionProofs` | | `Spec => []NothingLeaksFromTheOrderly` |
| `TransfersStayFaithful` | `FtpSessionProofs` | | `Spec => []TransfersFaithful` |
| `TypeCorrect` | `FtpPathsProofs` | | `Spec => []TypeOK` |
| `StaysHere` | `FtpPathsProofs` | | `Spec => []CurPathIsHere` |
| `ChangesOnlyWhatItNamed` | `FtpPathsProofs` | | `Spec => []ChangesWhatItNamed` |
| `TypeCorrect` | `ControllerProofs` | | `Spec => []TypeOK` |
| `ServerStaysStoppable` | `ControllerProofs` | | `Spec => []ServerIsStoppable` |
| `ServerStaysWatched` | `ControllerProofs` | | `Spec => []ServerIsWatched` |
| `RunStaysTrue` | `ControllerProofs` | | `Spec => []RunIsTrue` |
| `StorageStaysWatched` | `ControllerProofs` | | `Spec => []StorageIsWatched` |
| `ModesStayApart` | `ControllerProofs` | | `Spec => []ModesExclude` |
| `TypeCorrect` | `RefreshProofs` | | `Spec => []TypeOK` |
| `RestoredOnError` | `RefreshProofs` | one thread | `Spec => []RestoresOnError` |
| `CountsTruly` | `RefreshProofs` | one thread | `Spec => []CountIsTrue` |
| `TypeCorrect` | `StorageProofs` | | `Spec => []TypeOK` |
| `SharingLeavesNothingStale` | `StorageProofs` | | `Spec => []FreshAfterSharing` |
| `SharingStaysWhole` | `StorageProofs` | | `Spec => []SharingIsWhole` |
| `Ux0KeepsItsMedium` | `StorageProofs` | | `Spec => []Ux0HasMedium` |
| `NoticesAreTrue` | `StorageProofs` | | `Spec => []NoticeIsTrue` |
| `TypesHold` | `FileTreeProofs` | | `Spec => []TypeOK` |
| `TouchesOnlyItsOwn` | `FileTreeProofs` | | `Spec => []OnlyItsOwn` |
| `ClosesWhatItOpens` | `FileTreeProofs` | | `Spec => []HandlesClosed` |
| `NothingIsLeftHalfCopied` | `FileTreeProofs` | | `Spec => []NoHalves` |
| `RemovalIsHonest` | `FileTreeProofs` | | `Spec => []RemoveIsHonest` |
| `MoveKeepsEveryFile` | `FileTreeProofs` | | `Spec => []MoveLosesNothing` |
| `SuccessIsTrue` | `FileTreeProofs` | | `Spec => []SuccessIsWhole` |

These are all the invariants and action properties of the passing runs, and the
refinement. What is left to TLC is liveness.

The argument. None of the properties is inductive. `IInv` of `FtpVitaProofs` is
the conjunction of

- `TypeOK`;
- `PhaseInv`: what the caller's place in init or fini says of the mutex, the
  server thread and `ftp_initialized` (no mutex and no server before
  `InitCreate`; the server is gone once fini has waited for it);
- `ServerInv`: at most the one server thread runs, and the client it is
  registering is its own and dormant, or listed and dormant after the add;
- `MutexInv`: the owner of the mutex is exactly the thread in a critical section;
- `ClientInv`: a client in its critical section or before it is on the list, an
  aborted one does not go that way;
- `ListInv`: the list's chain, its members, and, during the walk, what `it` and
  `nxt` point at: a suffix of the chain whose members have not ended.

The chain is a function `e` with a length `n`, and not a recursive definition,
so that adding shifts indices and removing closes the gap; the two lemmas do
that arithmetic once. `NetStaysBalanced` has a smaller invariant of its own.
`Refines` shows each action to be a step of `FtpService` or a stutter from
`IInv`: the abstract `Drain` (every registered client is running) is where the
server thread's end before the walk matters.

One caller is an assumption (`ASSUME NEW f, Callers = {f}`), and
`ftp_two_callers` shows why it cannot be dropped.

For `Controller`, with any number of notification threads, the type invariant has
to say where a thread may return to: `rest[t]` is a sequence over `Returns(t)`,
so that no label of another thread's gets there. On top of it
`ServerIsStoppable` and `ServerIsWatched` are inductive, because their
conclusions name the labels that excuse a server with the wrong flag: whoever
leaves such a label has either stopped the server or set the flag right, and
another thread moving excuses no less. `RunIsTrue` is not: `FtpInv` adds what
`run` and `ftpInitialized` are at each label of starting and stopping while the
threads have not crossed, when at most one of them is at such a label.
`StorageIsWatched` and `ModesExclude` need more of the call stack: `UiPlace` and
`NetPlace` say what each thread has still to return to, label by label, and
`WantInv` that the selection is still what the UI thread started for. Then
`UsbInv` has, for a shared card, who would end it: the network thread, or the UI
thread on its way to `stop_usb`; and for a server that is up with USB selected,
who is stopping it.

For `FtpSession`, one invariant per property. `Fits` bounds what a transfer has
moved, for types. `OwnInv` (the sockets a client's record names are open and its
own, until one of the two circumstances) gives `StrayClosesAreOfTwoKinds`;
`LeakInv`, the other way round (every socket a client owns is named by its
record, and a file is open only in a transfer) gives
`NothingLeaksFromTheOrderly`; both need that `None` is no client. `FaithInv` has
the restore point equal to what was asked for, the size of a file plus what has
still to move equal to what is expected, and no file in two transfers.

For `FtpPaths`, what carries the argument is `Anchored`: `cur_path` is where the
client takes itself to be, or `/`. From `/` only a device leads anywhere, and
below it nothing is called like one (`Below`), so whatever a command finds is
what its client meant (`FoundIsMeant`), in step or not. `Remembered` adds that
what the client was asked to rename is in `rename_path`; `NoSlash` that without a
slash at the end of a name the two are equal and only a device's root ends in
one.

For `Refresh`, `RestoresOnError` becomes inductive with three more facts: no
directory holds another's item (`HomesOwn`); what is in a temporary directory is
stranded, or the thread's current item in its own (`TempsInHand`), which is why
deleting it costs nothing; and the current item is at home or in its temporary
directory (`CurIsThere`), so that what is renamed back is what was moved out.
With two threads the second fails, as `refresh_twice` shows. `CountInv` adds
that an item is promoted once, its entry being read once, and that nothing of
another item's is in the temporary directory it is promoted from. Once `late` is set, a
call having failed after a promotion, the count is only bounded by what was
promoted; until then the two are equal.

For `Storage`, `FreshAfterSharing` holds because of what is still planned:
`FreshInv` says that once a sharing has ended every point that is mounted as it
was has, in one thread's plan or the other's, a call that will umount it for
sure or put one in the plan. Calls are only ever taken from the head of a plan,
so the plans of the two threads need not be known. `SharingIsWhole` is proved by
`WholeInv`: while one thread at most is at it, module, driver and sharing follow
from the next call, and a sharing is only started last and with none left.

`Ux0HasMedium` and `NoticeIsTrue` have one invariant, `Ux0Inv`. While no umount has
been refused, no medium unreadable or taken out and the threads have not crossed,
one thread's plan at most has anything in it (`OneSound`), and there is a medium
of `ux0:`'s own that the plan is sound for. Either `ux0:` is on it and every call
left leaves `ux0:` alone (`Steady`); or some call is to mount `ux0:`, after it was
redirected, whatever else holds the medium was umounted and `ux0:` itself was
umounted by force, so that the mount can only succeed (`Turning`); or the press
has yet to find out whether there is anything to do (`Trying`). What was said or
will be is true of that medium (`Says`). While it is the USB medium, `uma0:` is
neither on it nor will be (`Uma`): that is what the unloading at the start of a
redirection is for, and where a medium can be mounted only once the way back
would fail without it. `World` has what does not depend on the plan: what is mounted is
plugged in and mounted where its device is named. The code's remounts of other
points are `Calm`, whatever they put in front of the plan. The theorems hold with
media put in between any two calls, which the run leaves out.

For `FileTree`, the recursion is in the state, as the stack of frames, so that
none of the proofs is an induction over the tree.

- `StackInv` says of every frame that its source and destination are within those
  of the thread's call (`RecurseFits`: what is appended to both stays within
  both), and `TouchInv` that until another thread moves nothing else has changed:
  `OnlyItsOwn`.
- `FrameInv` has the stack's shape. Every frame but the innermost is in its loop
  and has seen the entry that the next one is for; the source of the i-th is i-1
  names longer than the call's, which bounds the recursion by `Depth`; and the
  handles are one for each frame that waits and what the innermost holds (`Held`).
  `HandlesClosed` and `TypeOK` follow.
- `FilesInv`: the file system stays a tree. It takes the assumption that it is
  one at first, and that a device's root can be neither removed nor made.
- `HalfInv`: a file that is incomplete, and was not before, is the one the
  innermost frame writes, unless a write was short or a clean-up failed: `NoHalves`.
- `GoneInv` and `UntouchedInv`: the source itself is removed last, and in a tree
  nothing is left where the root is gone. That nobody makes a file in the
  meantime is all `RemoveIsHonest` needs of other threads.
- `RefusedInv`: a call whose destination is within its source, or is its source,
  never gets further than its first test. In the other cases source and
  destination have no path in common, unless the destination holds the source,
  which the properties exclude (`Apart`).
- `MoveInv`: every file of the source is where it was or where it belongs, and one
  of the destination goes only if a file of the source belongs there and
  `MOVE_REPLACE` is given: `MoveLosesNothing`.
- `CopyDoneInv` and `MoveDoneInv`, for `SuccessIsWhole`: what the frames have yet
  to do is written in them. `Left(f, p)` says that frame `f` has path `p` before
  it, `Pending` that some frame does. Whatever is not pending has been
  done, so that when the stack is empty all has. A call turns
  what was left to the loop into what is left to the new frame, a return takes a
  whole directory off what is left, and the end of a loop needs that every
  entry there was has been seen, which is where `"dread"` comes in. That what is done
  of a move may leave directories (`Cleared`) costs one step: a directory that is not
  empty at the end holds one that an `sceIoRmdir` has left.

Only model-checked: liveness, for TLAPS does not prove `ENABLED` and fairness
arguments here. That is `OrderlyFiniReturns`, `DepartedClientEnds`,
`WifiOffStopsServer`, `NoticeEnds` and `RefreshEnds`. The findings of section 3 are
TLC's counterexamples. Nothing is assumed beyond the named
ASSUMEs of the modules: `NULL` and `None` are no clients; callers, servers and
clients are distinct; no name is a device's; consoles, trees and calls are of
their types; and what there is in a tree at first is in a directory.

## 5. What is not modelled

| part | why |
|---|---|
| stateless commands (NOOP, SYST, FEAT, SIZE, TYPE, PWD...) | reply and keep nothing |
| what an FTP client does when it is answered twice | not in this code; the answers to a failed RNTO are |
| `..` in the middle of a path, and paths longer than `PATH_MAX` | left to the file system; not looked at |
| device list and custom commands | two fixed tables; both results of `ftpvita_add_device` are ignored, and a property could only restate the test of its size |
| controller: network settings, widget registration, labels | texts and settings that nothing else reads |
| storage: the kernel plugin's mounting by identifier and its license call, the driver `usbdevice.skprx` | nothing in the plugin calls the first two; the third answers two system calls and keeps no state of its own |
| refresh: `work.bin`, add-ons, PSP games, licenses | data of an item; callbacks that nothing calls |
| promoter modules left loaded after a failure | whether they can be loaded again is the system's |
| file utilities: read and write helpers, `getFileSha1`, file types, symbolic links, string helpers | one system call each, or a table; nothing calls the symbolic links |
| allocation failures in the server thread | neither result is checked: the next line crashes |
| a mutex that init cannot create, threads that are created and do not start | no result is looked at; the list would have no lock, fini would wait for what never runs |
| package formats, SQLite shim, hashes, patch plugin | binary formats, thin forwarding of calls, standard algorithms on words beyond TLC's reach, no state |
