------------------------------ MODULE FileTree ------------------------------
(***************************************************************************)
(* The recursive file operations of file.c: getPathInfo, removePath,       *)
(* copyPath with copyFile, and movePath, by threads that know nothing of   *)
(* each other.  A step is one system call that changes or looks up         *)
(* something, but: the listing of an entry is one with what is done to it  *)
(* (RemoveFile, CountFile, Recurse), the first sceIoRename with the        *)
(* sceIoGetstat and the sceIoRemove that follow its failure (Rename), and  *)
(* so are the reads and writes of one file (CopyData).                     *)
(*                                                                         *)
(* A thread's stack holds its calls of these functions that have not       *)
(* returned.  A file is named by the path it had at first, which stands    *)
(* for its contents; it is "cut" while not all of it is written.           *)
(*                                                                         *)
(* Any system call may fail.  mishaps records which have, by those that    *)
(* make a difference: "dread" (the listing of a directory breaks off),     *)
(* "cleanup" (the removal of an incomplete copy), "short" (a write of      *)
(* less than it was given, which is no error to the code), "rename" (a     *)
(* move that movePath does not take for failed), and "other".              *)
(***************************************************************************)
EXTENDS Integers, Sequences, FiniteSets, SequencesExt

CONSTANTS Names,    \* of the entries of a directory
          Depth,    \* bound: the length of a path
          Trees,    \* the file systems considered at first
          Threads,
          Calls     \* the calls each may make

Paths == UNION {[1..n -> Names] : n \in 0..Depth}

Kinds == {"none", "dir", "file", "cut"}
Nodes == [kind : Kinds, of : Paths]
Node(k, p) == [kind |-> k, of |-> p]
Absent     == Node("none", <<>>)
Directory  == Node("dir", <<>>)

Fns == {"info", "remove", "copy", "move"}
CallType   == [fn : Fns, src : Paths, dst : Paths, integrate : BOOLEAN,
               replace : BOOLEAN, param : BOOLEAN]

ASSUME DepthIsNat == Depth \in Nat
\* What there is, is in a directory, and a file has the name of its path.
ASSUME TreesAreTrees ==
    \A f \in Trees : /\ f \in [Paths -> Nodes] /\ f[<<>>] = Directory
                     /\ \A p \in Paths : f[p] \in {Absent, Directory, Node("file", p)}
                     /\ \A p, q \in Paths : IsStrictPrefix(q, p) /\ f[p] # Absent => f[q] = Directory
ASSUME CallsAreCalls == \A t \in Threads : Calls[t] \subseteq CallType

\* What a function returns: 1 if all went well, 0 if it was cancelled, a negative
\* number if something failed; and that it has not returned.
Okay      == 1
Cancelled == 0
Failed    == -1
Running   == 2

\* A destination may be too long a path.
Frames == [fn : Fns \cup {"copyfile"}, src : Paths, dst : Seq(Names),
           at : {"enter", "list", "end", "single", "mkdir", "opendst", "data", "undo", "again", "merge"},
           seen : SUBSET Names, res : {Okay, Cancelled, Failed}]

VARIABLES
    fs,        \* the file system
    stack,     \* the frames of each thread, the innermost last
    ret,       \* what the innermost call that has returned, returned
    call,      \* the call each thread has made, if it has
    value,     \* *param->value of removePath and copyPath, or what getPathInfo counts;
               \* a directory is one, and so is a file, whatever its size
    handles,   \* of files and directories each thread has open
    \* history, for the properties
    before,    \* the file system when each thread made its call
    alone,     \* no other thread has been at it since
    mishaps

vars == <<fs, stack, ret, call, value, handles, before, alone, mishaps>>

NoCall == [fn |-> "none"]

TypeOK ==
    /\ fs \in [Paths -> Nodes] /\ fs[<<>>] = Directory
    /\ \A t \in Threads : stack[t] \in Seq(Frames) /\ Len(stack[t]) <= Depth + 1
    /\ ret \in [Threads -> {Okay, Cancelled, Failed, Running}]
    /\ \A t \in Threads : call[t] = NoCall \/ call[t] \in Calls[t]
    /\ value \in [Threads -> Nat]
    /\ handles \in [Threads -> Nat]
    /\ before \in [Threads -> [Paths -> Nodes]] /\ alone \in [Threads -> BOOLEAN]
    /\ mishaps \subseteq {"dread", "cleanup", "short", "rename", "other"}

Init ==
    /\ fs \in Trees
    /\ stack = [t \in Threads |-> <<>>] /\ ret = [t \in Threads |-> Running]
    /\ call = [t \in Threads |-> NoCall]
    /\ value = [t \in Threads |-> 0] /\ handles = [t \in Threads |-> 0]
    /\ before = [t \in Threads |-> fs] /\ alone = [t \in Threads |-> TRUE]
    /\ mishaps = {}

-----------------------------------------------------------------------------
Kind(p)     == fs[p].kind
Within(p, q) == IsPrefix(q, p)
Children(p) == {n \in Names : Len(p) < Depth /\ Kind(Append(p, n)) # "none"}

\* Where what is at p under s belongs under d.
Rebase(p, s, d) == d \o SubSeq(p, Len(s) + 1, Len(p))

\* A file or directory can be made at p; there is nothing there yet.
Exists(p)    == p \in Paths /\ Kind(p) # "none"
HasRoom(p)   == p \in Paths /\ p # <<>> /\ Kind(Front(p)) = "dir"
CanCreate(p) == HasRoom(p) /\ Kind(p) = "none"

IsFile(p) == Kind(p) \in {"file", "cut"}

Mishap(m) == mishaps' = mishaps \cup {m}
Happy     == UNCHANGED mishaps

Top(t) == Last(stack[t])

\* t runs, and is at that place of one of these functions.
In(t, fns, at) ==
    /\ stack[t] # <<>> /\ ret[t] = Running
    /\ Top(t).fn \in fns /\ Top(t).at = at

GoTo(t, at)     == stack' = [stack EXCEPT ![t][Len(stack[t])].at = at] /\ UNCHANGED ret
GoUndo(t, r)    == /\ stack' = [stack EXCEPT ![t][Len(stack[t])].at = "undo",
                                             ![t][Len(stack[t])].res = r]
                   /\ UNCHANGED ret
Seen(t, n)      == [stack[t] EXCEPT ![Len(stack[t])].seen = @ \cup {n}]
Push(t, s, f)   == stack' = [stack EXCEPT ![t] = Append(s, f)] /\ UNCHANGED ret
Return(t, r)    == stack' = [stack EXCEPT ![t] = Front(@)] /\ ret' = [ret EXCEPT ![t] = r]

Frame(fn, s, d) == [fn |-> fn, src |-> s, dst |-> d, at |-> "enter", seen |-> {}, res |-> Okay]

Opens(t, k)  == handles' = [handles EXCEPT ![t] = @ + k]
Closes(t, k) == handles' = [handles EXCEPT ![t] = @ - k]

Stays  == UNCHANGED fs
Put(p, node) == fs' = [fs EXCEPT ![p] = node]

Counts(t)   == value' = [value EXCEPT ![t] = @ + 1]
\* ... if there is somebody to tell.
Progress(t) == IF call[t].param THEN Counts(t) ELSE UNCHANGED value

\* cancelHandler says so.
MayCancel(t) == call[t].param

Unchanged == UNCHANGED <<call, before, alone>>

(***************************************************************************)
(* Calls and returns                                                       *)
(***************************************************************************)
Start(t, c) ==
    /\ call[t] = NoCall
    /\ call' = [call EXCEPT ![t] = c]
    /\ Push(t, stack[t], Frame(c.fn, c.src, c.dst))
    /\ before' = [before EXCEPT ![t] = fs]
    /\ alone' = [u \in Threads |-> u = t /\ \A v \in Threads \ {t} : stack[v] = <<>>]
    /\ UNCHANGED <<fs, value, handles, mishaps>>

\* Mutant: the directory stays open.
ResumeKeepsOpen(t) ==
    /\ stack[t] # <<>> /\ ret[t] # Running
    /\ IF ret[t] = Okay
       THEN ret' = [ret EXCEPT ![t] = Running] /\ UNCHANGED stack
       ELSE Return(t, ret[t])
    /\ UNCHANGED <<fs, value, handles, mishaps>> /\ Unchanged

\* Mutant: only a cancellation ends the loop.
ResumeGoesOn(t) ==
    /\ stack[t] # <<>> /\ ret[t] # Running
    /\ IF ret[t] # Cancelled
       THEN ret' = [ret EXCEPT ![t] = Running] /\ UNCHANGED <<stack, handles>>
       ELSE Return(t, ret[t]) /\ Closes(t, 1)
    /\ UNCHANGED <<fs, value, mishaps>> /\ Unchanged

\* Back in the loop over a directory: what is not positive is returned at once.
Resume(t) ==
    /\ stack[t] # <<>> /\ ret[t] # Running
    /\ IF ret[t] = Okay
       THEN ret' = [ret EXCEPT ![t] = Running] /\ UNCHANGED <<stack, handles>>
       ELSE Return(t, ret[t]) /\ Closes(t, 1)
    /\ UNCHANGED <<fs, value, mishaps>> /\ Unchanged

\* copyPath, copyFile and movePath refuse to work on themselves.
Identical(f) == f.src = f.dst \/ Within(f.dst, f.src)

Refuse(t) ==
    /\ In(t, {"copy", "copyfile", "move"}, "enter") /\ Identical(Top(t))
    /\ Return(t, Failed)
    /\ UNCHANGED <<fs, value, handles, mishaps>> /\ Unchanged

\* sceIoDopen, on what is no directory if it fails, or so the code takes it.
OpenDirectory(t) ==
    /\ In(t, {"info", "remove", "copy"}, "enter")
    /\ Top(t).fn = "copy" => ~Identical(Top(t))
    /\ \/ /\ Kind(Top(t).src) = "dir"
          /\ GoTo(t, IF Top(t).fn = "copy" THEN "mkdir" ELSE "list") /\ Opens(t, 1) /\ Happy
       \/ /\ IF Top(t).fn # "copy" THEN GoTo(t, "single")
             ELSE Push(t, Front(stack[t]), Frame("copyfile", Top(t).src, Top(t).dst))
          /\ IF Kind(Top(t).src) = "dir" THEN Mishap("other") ELSE Happy
          /\ UNCHANGED handles
    /\ UNCHANGED <<fs, value>> /\ Unchanged

\* The end of a loop over a directory: all entries were read, or reading fails.
EndOfList(t) ==
    /\ In(t, Fns, "list")
    /\ \/ Children(Top(t).src) \subseteq Top(t).seen /\ Happy
       \/ Mishap("dread")
    /\ Closes(t, 1)
    /\ CASE Top(t).fn = "info" -> Return(t, Okay) /\ Counts(t)
         [] Top(t).fn = "copy" -> Return(t, Okay) /\ UNCHANGED value
         [] OTHER              -> GoTo(t, "end") /\ UNCHANGED value
    /\ UNCHANGED fs /\ Unchanged

Unseen(t) == Children(Top(t).src) \ Top(t).seen

\* An entry that the function is called for again: directories, and in copyPath
\* and movePath whatever it is.
Recurse(t) ==
    /\ In(t, Fns, "list")
    /\ \E n \in Unseen(t) :
         LET s == Append(Top(t).src, n)
             d == IF Top(t).fn \in {"copy", "move"} THEN Append(Top(t).dst, n) ELSE <<>>
         IN  IF Top(t).fn = "copy" /\ IsFile(s) THEN Push(t, Seen(t, n), Frame("copyfile", s, d))
             ELSE /\ Top(t).fn = "move" \/ Kind(s) = "dir"
                  /\ Push(t, Seen(t, n), Frame(Top(t).fn, s, d))
    /\ UNCHANGED <<fs, value, handles, mishaps>> /\ Unchanged

(***************************************************************************)
(* getPathInfo, without a handler                                          *)
(***************************************************************************)
CountFile(t) ==
    /\ In(t, {"info"}, "list")
    /\ \E n \in Unseen(t) : IsFile(Append(Top(t).src, n)) /\ stack' = [stack EXCEPT ![t] = Seen(t, n)]
    /\ Counts(t)
    /\ UNCHANGED <<fs, ret, handles, mishaps>> /\ Unchanged

\* sceIoGetstat
CountSingle(t) ==
    /\ In(t, {"info"}, "single")
    /\ \/ Kind(Top(t).src) # "none" /\ Return(t, Okay) /\ Counts(t) /\ Happy
       \/ Return(t, Failed) /\ UNCHANGED value /\ Mishap("other")
    /\ UNCHANGED <<fs, handles>> /\ Unchanged

(***************************************************************************)
(* removePath                                                              *)
(***************************************************************************)
\* sceIoRemove of an entry, progress and cancellation
RemoveFile(t) ==
    /\ In(t, {"remove"}, "list")
    /\ \E n \in Unseen(t) :
         LET p == Append(Top(t).src, n)
         IN  /\ IsFile(p)
             /\ \/ /\ Put(p, Absent) /\ Progress(t) /\ Happy
                   /\ \/ stack' = [stack EXCEPT ![t] = Seen(t, n)] /\ UNCHANGED <<ret, handles>>
                      \/ MayCancel(t) /\ Return(t, Cancelled) /\ Closes(t, 1)
                \/ Return(t, Failed) /\ Closes(t, 1) /\ Mishap("other") /\ UNCHANGED <<fs, value>>
    /\ Unchanged

\* Mutant: a failure is ignored.
RemoveLastRegardless(t, at, can) ==
    /\ In(t, {"remove"}, at)
    /\ Put(Top(t).src, IF can THEN Absent ELSE fs[Top(t).src]) /\ Progress(t) /\ Return(t, Okay)
    /\ UNCHANGED <<handles, mishaps>> /\ Unchanged

\* sceIoRmdir of what should be empty now, or sceIoRemove of what is no directory;
\* at is where the function is, can that the system lets it.
RemoveLast(t, at, can) ==
    /\ In(t, {"remove"}, at)
    /\ \/ /\ can /\ Put(Top(t).src, Absent) /\ Progress(t) /\ Happy
          /\ Return(t, Okay) \/ (MayCancel(t) /\ Return(t, Cancelled))
       \/ /\ Return(t, Failed) /\ UNCHANGED <<fs, value>>
          /\ IF can THEN Mishap("other") ELSE Happy
    /\ UNCHANGED handles /\ Unchanged

\* ... but a whole device cannot be removed.
IsEmptyDirectory(p) == p # <<>> /\ Kind(p) = "dir" /\ Children(p) = {}

RemoveDirectory(t) == RemoveLast(t, "end", IsEmptyDirectory(Top(t).src))
RemoveSingle(t)    == RemoveLast(t, "single", IsFile(Top(t).src))

(***************************************************************************)
(* copyPath and copyFile                                                   *)
(***************************************************************************)
\* sceIoMkdir, where something may be already, progress and cancellation
MakeDirectory(t) ==
    /\ In(t, {"copy"}, "mkdir")
    /\ \/ /\ \/ CanCreate(Top(t).dst) /\ Put(Top(t).dst, Directory)
             \/ ~CanCreate(Top(t).dst) /\ Exists(Top(t).dst) /\ Stays
          /\ Progress(t) /\ Happy
          /\ \/ GoTo(t, "list") /\ UNCHANGED handles
             \/ MayCancel(t) /\ Return(t, Cancelled) /\ Closes(t, 1)
       \/ /\ Return(t, Failed) /\ Closes(t, 1) /\ UNCHANGED <<fs, value>>
          /\ IF CanCreate(Top(t).dst) \/ Exists(Top(t).dst) THEN Mishap("other") ELSE Happy
    /\ Unchanged

OpenSource(t) ==
    /\ In(t, {"copyfile"}, "enter") /\ ~Identical(Top(t))
    /\ \/ IsFile(Top(t).src) /\ GoTo(t, "opendst") /\ Opens(t, 1) /\ Happy
       \/ /\ Return(t, Failed) /\ UNCHANGED handles
          /\ IF IsFile(Top(t).src) THEN Mishap("other") ELSE Happy
    /\ UNCHANGED <<fs, value>> /\ Unchanged

\* Mutant: two files are closed where one is open.
OpenDestinationClosesBoth(t) ==
    LET d == Top(t).dst
        can == HasRoom(d) /\ Kind(d) # "dir"
    IN  /\ In(t, {"copyfile"}, "opendst")
        /\ \/ can /\ Put(d, Node("cut", fs[Top(t).src].of)) /\ GoTo(t, "data") /\ Opens(t, 1) /\ Happy
           \/ /\ Return(t, Failed) /\ Closes(t, 2) /\ Stays
              /\ IF can THEN Mishap("other") ELSE Happy
        /\ UNCHANGED value /\ Unchanged

\* sceIoOpen creates the file or truncates the one there is.
OpenDestination(t) ==
    LET d == Top(t).dst
        can == HasRoom(d) /\ Kind(d) # "dir"
    IN  /\ In(t, {"copyfile"}, "opendst")
        /\ \/ can /\ Put(d, Node("cut", fs[Top(t).src].of)) /\ GoTo(t, "data") /\ Opens(t, 1) /\ Happy
           \/ /\ Return(t, Failed) /\ Closes(t, 1) /\ Stays
              /\ IF can THEN Mishap("other") ELSE Happy
        /\ UNCHANGED value /\ Unchanged

\* Mutant: an incomplete copy is left there if reading or writing fails.
CopyDataKeepsTheRest(t) ==
    LET d == Top(t).dst
    IN  /\ In(t, {"copyfile"}, "data")
        /\ \/ /\ Put(d, IF Kind(d) = "cut" THEN Node("file", fs[d].of) ELSE fs[d])
              /\ Progress(t) /\ Return(t, Okay) /\ Closes(t, 2) /\ Happy
           \/ Return(t, Failed) /\ Closes(t, 2) /\ Mishap("other") /\ UNCHANGED <<fs, value>>
           \/ Return(t, Okay) /\ Closes(t, 2) /\ Progress(t) /\ Mishap("short") /\ Stays
        /\ Unchanged

\* The file is read and written, unless that fails or is cancelled on the way.  A
\* write that is short goes for one that is not, and the file is never complete.
CopyData(t) ==
    LET d == Top(t).dst
    IN  /\ In(t, {"copyfile"}, "data")
        /\ \/ /\ Put(d, IF Kind(d) = "cut" THEN Node("file", fs[d].of) ELSE fs[d])
              /\ Progress(t) /\ Return(t, Okay) /\ Closes(t, 2) /\ Happy
           \/ /\ MayCancel(t) /\ GoUndo(t, Cancelled) /\ Progress(t) /\ Happy
              /\ UNCHANGED <<fs, handles>>
           \/ GoUndo(t, Failed) /\ Mishap("other") /\ UNCHANGED <<fs, value, handles>>
           \/ Return(t, Okay) /\ Closes(t, 2) /\ Progress(t) /\ Mishap("short") /\ Stays
        /\ Unchanged

\* Mutant: what is removed is the source.
UndoCopyOfSource(t) ==
    /\ In(t, {"copyfile"}, "undo")
    /\ \/ IsFile(Top(t).src) /\ Put(Top(t).src, Absent) /\ Happy
       \/ Stays /\ Mishap("cleanup")
    /\ Return(t, Top(t).res) /\ Closes(t, 2)
    /\ UNCHANGED value /\ Unchanged

\* sceIoRemove of the incomplete copy, whose result is ignored
UndoCopy(t) ==
    /\ In(t, {"copyfile"}, "undo")
    /\ \/ IsFile(Top(t).dst) /\ Put(Top(t).dst, Absent) /\ Happy
       \/ Stays /\ Mishap("cleanup")
    /\ Return(t, Top(t).res) /\ Closes(t, 2)
    /\ UNCHANGED value /\ Unchanged

(***************************************************************************)
(* movePath                                                                *)
(***************************************************************************)
Renamed(s, d) ==
    [p \in Paths |-> IF Within(p, s) THEN Absent
                     ELSE IF Within(p, d) /\ Rebase(p, d, s) \in Paths THEN fs[Rebase(p, d, s)]
                     ELSE fs[p]]

\* Bound: nothing of it gets a path that is too long.
CanRename(s, d) ==
    /\ Kind(s) # "none" /\ CanCreate(d) /\ ~Within(d, s)
    /\ \A p \in Paths : Within(p, s) /\ Kind(p) # "none" => Rebase(p, s, d) \in Paths

Mergeable(f) == IsFile(f.src) = IsFile(f.dst)

\* Mutant: either flag is enough.
MergesEither(c, f) == c.integrate \/ c.replace

Merges(c, f) == IF IsFile(f.src) THEN c.replace ELSE c.integrate

\* sceIoRename; a failure is only looked at if the destination exists, and otherwise
\* movePath returns 1.
Rename(t) ==
    LET f == Top(t)
        c == call[t]
        exists == Exists(f.src) /\ Exists(f.dst)
        asked == c.integrate \/ c.replace
    IN  /\ In(t, {"move"}, "enter") /\ ~Identical(f)
        /\ \/ /\ CanRename(f.src, f.dst) /\ fs' = Renamed(f.src, f.dst)
              /\ Return(t, Okay) /\ Happy
           \/ Stays /\ Return(t, Okay) /\ Mishap("rename")
           \/ exists /\ asked /\ Stays /\ Return(t, Failed) /\ Mishap("other")
           \/ exists /\ asked /\ ~Mergeable(f) /\ Stays /\ Return(t, Failed) /\ Happy
           \/ /\ exists /\ Mergeable(f) /\ Merges(c, f) /\ IsFile(f.src) /\ GoTo(t, "again")
              /\ \/ IsFile(f.dst) /\ Put(f.dst, Absent) /\ Happy
                 \/ Stays /\ Mishap("other")
           \/ /\ exists /\ Mergeable(f) /\ Merges(c, f) /\ ~IsFile(f.src) /\ GoTo(t, "merge")
              /\ Stays /\ Happy
           \/ /\ exists /\ (IF asked THEN Mergeable(f) /\ ~Merges(c, f) ELSE TRUE)
              /\ Stays /\ Return(t, Okay) /\ Happy
        /\ UNCHANGED <<value, handles>> /\ Unchanged

\* sceIoRename again, in place of the file that was there
RenameAgain(t) ==
    LET f == Top(t)
    IN  /\ In(t, {"move"}, "again")
        /\ \/ CanRename(f.src, f.dst) /\ fs' = Renamed(f.src, f.dst) /\ Return(t, Okay) /\ Happy
           \/ Stays /\ Return(t, Failed) /\ Mishap("other")
        /\ UNCHANGED <<value, handles>> /\ Unchanged

\* sceIoDopen of a directory to integrate
OpenMerge(t) ==
    /\ In(t, {"move"}, "merge")
    /\ \/ Kind(Top(t).src) = "dir" /\ GoTo(t, "list") /\ Opens(t, 1) /\ Happy
       \/ Return(t, Failed) /\ UNCHANGED handles /\ Mishap("other")
    /\ UNCHANGED <<fs, value>> /\ Unchanged

\* sceIoRmdir of the directory that was integrated, whose result is ignored
CloseMerge(t) ==
    /\ In(t, {"move"}, "end")
    /\ \/ IsEmptyDirectory(Top(t).src) /\ Put(Top(t).src, Absent) /\ Happy
       \/ Stays /\ IF IsEmptyDirectory(Top(t).src) THEN Mishap("other") ELSE Happy
    /\ Return(t, Okay)
    /\ UNCHANGED <<value, handles>> /\ Unchanged

-----------------------------------------------------------------------------
Step(t) ==
    \/ Resume(t) \/ Refuse(t) \/ OpenDirectory(t) \/ EndOfList(t) \/ Recurse(t)
    \/ CountFile(t) \/ CountSingle(t)
    \/ RemoveFile(t) \/ RemoveDirectory(t) \/ RemoveSingle(t)
    \/ MakeDirectory(t) \/ OpenSource(t) \/ OpenDestination(t) \/ CopyData(t) \/ UndoCopy(t)
    \/ Rename(t) \/ RenameAgain(t) \/ OpenMerge(t) \/ CloseMerge(t)

Next == \E t \in Threads : Step(t) \/ \E c \in Calls[t] : Start(t, c)

Spec == Init /\ [][Next]_vars

-----------------------------------------------------------------------------
Done(t) == call[t] # NoCall /\ stack[t] = <<>>

\* t's call is one of fns, and nobody else has been at it since.
Alone(t, fns) == call[t].fn \in fns /\ alone[t]

Was(t, p)     == before[t][p]
WasFile(t, p) == Was(t, p).kind \in {"file", "cut"}
Target(t, p)  == Rebase(p, call[t].src, call[t].dst)
Source(t)     == {p \in Paths : Within(p, call[t].src) /\ Was(t, p).kind # "none"}

\* The destination is not one of the directories that hold the source.
Apart(t) == ~Within(call[t].src, call[t].dst)

\* Nothing is touched outside the source (removePath, movePath) and the
\* destination (copyPath, movePath), whatever fails.
OnlyItsOwn ==
    \A t \in Threads : Alone(t, Fns) =>
        \A p \in Paths : fs[p] # Was(t, p) =>
            \/ call[t].fn \in {"remove", "move"} /\ Within(p, call[t].src)
            \/ call[t].fn \in {"copy", "move"} /\ Within(p, call[t].dst)

\* removePath returns 1 only if nothing is left, even if others remove the same
\* files; if it fails what it was called for is still there.
RemoveIsHonest ==
    \A t \in Threads : Done(t) /\ call[t].fn = "remove" =>
        /\ ret[t] = Okay /\ (\A u \in Threads : call[u].fn \in {"none", "info", "remove"}) =>
               \A p \in Paths : Within(p, call[t].src) => Kind(p) = "none"
        /\ ret[t] = Failed /\ alone[t] => Kind(call[t].src) = Was(t, call[t].src).kind

\* A file has the name of an empty directory of the source.
Hidden(t) == \E p \in Source(t) : Was(t, p).kind = "dir" /\ Target(t, p) \in Paths /\ WasFile(t, Target(t, p))

\* copyPath returns 1 only if all of the source is at the destination, and what
\* else there was there has stayed.  It is not so, and the code returns 1 all the
\* same, if the listing of a directory breaks off, which it takes for its end, if a
\* write is short, which it takes for whole (file.c:374), or if a file hides a
\* directory.  (A file that was half copied before is copied as it is.)
CopyIsWhole(t) ==
    /\ Done(t) /\ Alone(t, {"copy"}) /\ ret[t] = Okay
    /\ Apart(t) /\ mishaps \cap {"dread", "short"} = {} /\ ~Hidden(t)
    => /\ \A p \in Source(t) :
              fs[Target(t, p)] = IF WasFile(t, p) THEN Node("file", Was(t, p).of) ELSE Was(t, p)
       /\ \A q \in Paths \ {Target(t, p) : p \in Source(t)} : fs[q] = Was(t, q)

\* Whether copyPath fails, is cancelled or succeeds, it leaves no file half copied,
\* unless the removal of it fails, whose result is ignored, or a write is short,
\* after which the file stays as it is behind a returned 1.
NoHalves ==
    \A t \in Threads : Done(t) /\ Alone(t, {"copy"}) /\ mishaps \cap {"cleanup", "short"} = {} =>
        \A p \in Paths : Kind(p) = "cut" => Was(t, p).kind = "cut"

\* movePath never loses a file, whatever fails and at whatever point: each is
\* somewhere, or it was replaced with MOVE_REPLACE by the one of its name, which
\* is.  (Of what is moved up to a directory that holds it, three files may meet.)
MoveLosesNothing ==
    \A t \in Threads : Alone(t, {"move"}) /\ Apart(t) =>
        LET survives(q) == \E p \in Paths : fs[p] = Was(t, q)
        IN  \A q \in Paths : WasFile(t, q) =>
               \/ survives(q)
               \/ /\ call[t].replace
                  /\ \E p \in Source(t) : WasFile(t, p) /\ Target(t, p) = q /\ survives(p)

\* movePath with both flags returns 1 only if all of the source is at the destination
\* and nothing of it is left, but, if an sceIoRmdir fails, whose result is ignored,
\* directories.  It is not so, and the code returns 1 all the same, if the first
\* sceIoRename fails but for EEXIST (file.c:514-516, 590) or a listing breaks off.
MoveIsWhole(t) ==
    /\ Done(t) /\ Alone(t, {"move"}) /\ ret[t] = Okay /\ mishaps \cap {"rename", "dread"} = {}
    /\ call[t].integrate /\ call[t].replace /\ Apart(t)
    => \A p \in Source(t) :
          /\ fs[Target(t, p)] = Was(t, p)
          /\ Kind(p) = "none" \/ ("other" \in mishaps /\ Kind(p) = "dir")

\* copyPath and movePath say truly that they have done all of it.
SuccessIsWhole == \A t \in Threads : CopyIsWhole(t) /\ MoveIsWhole(t)

\* All files and directories are closed by the time the function returns.
HandlesClosed == \A t \in Threads : stack[t] = <<>> => handles[t] = 0
=============================================================================
