------------------------------ MODULE FtpPaths ------------------------------
(***************************************************************************)
(* Where an FTP client is and what its commands act on: CWD and CDUP move  *)
(* cur_path, MKD, RMD, DELE and RNFR resolve their argument against it, and *)
(* RNTO renames what an earlier RNFR has left in rename_path.  Other        *)
(* clients, the refresh and the user change the same files meanwhile.      *)
(*                                                                         *)
(* A path is its names, the device first, and whether it ends in a slash,  *)
(* which is all that the code looks at in one.  A client goes by what it is *)
(* answered; one that is answered twice is out of step and is left alone.  *)
(***************************************************************************)
EXTENDS Integers, Sequences, SequencesExt

CONSTANTS Clients, Devices, Names,
          Short,    \* the devices of the form "ux0:", four characters long
          Depth     \* bound: the length of a path

ASSUME ShortAreDevices == Short \subseteq Devices
ASSUME DevicesAreNoNames == Devices \cap Names = {}
ASSUME DepthIsPositive == Depth \in Nat \ {0}

\* The places of the file system; and somewhere else, where nothing is.
Places  == {p \in UNION {[1..n -> Devices \cup Names] : n \in 1..Depth} :
               p[1] \in Devices /\ \A i \in 2..Len(p) : p[i] \in Names}
Nowhere == <<>>

Kinds == {"none", "dir", "file"}

\* What a client may write: "/ux0:/a" (full), "ux0:/a", "a/b/"; "/" and ".." are
\* cases of their own.
Words == Places \cup UNION {[1..n -> Names] : n \in 1..(Depth - 1)}
Args  == {a \in [full : BOOLEAN, names : Words, slash : BOOLEAN] :
             a.full => a.names[1] \in Devices}

VARIABLES
    tree,        \* the file system
    curPath,     \* cur_path
    renamePath,  \* rename_path
    \* the client
    here,        \* where it takes itself to be, by what it has been answered
    asked,       \* what it has been asked for the new name of
    \* history, for the properties: of each client,
    mishaps,     \* "slash", it has entered a directory by a name with one at its end;
                 \* "unasked", it was not asked for a new name; "failed", so has a rename
    astray       \* it has changed something other than what it named

clientVars == <<curPath, renamePath, here, asked, mishaps, astray>>
vars == <<tree, clientVars>>

\* The types; and "/" and the root of a device have a slash at the end.
TypeOK ==
    /\ tree \in [Places -> Kinds] /\ \A d \in Devices : tree[<<d>>] = "dir"
    /\ curPath \in [Clients -> [names : Places \cup {<<>>}, slash : BOOLEAN]]
    /\ \A c \in Clients : Len(curPath[c].names) <= 1 => curPath[c].slash
    /\ renamePath \in [Clients -> Places \cup {Nowhere}]
    /\ here \in [Clients -> Places \cup {<<>>}] /\ asked \in [Clients -> Places \cup {Nowhere}]
    /\ mishaps \in [Clients -> SUBSET {"slash", "failed", "unasked"}]
    /\ astray \in [Clients -> BOOLEAN]

Root == [names |-> <<>>, slash |-> TRUE]

Init ==
    /\ tree = [p \in Places |-> IF Len(p) = 1 THEN "dir" ELSE "none"]
    /\ curPath = [c \in Clients |-> Root]
    /\ renamePath \in [Clients -> Places \cup {Nowhere}]
    /\ here = [c \in Clients |-> <<>>] /\ asked = [c \in Clients |-> Nowhere]
    /\ mishaps = [c \in Clients |-> {}] /\ astray = [c \in Clients |-> FALSE]

-----------------------------------------------------------------------------
(***************************************************************************)
(* The file system                                                         *)
(***************************************************************************)
Is(p, k)  == p \in Places /\ tree[p] = k
Exists(p) == p \in Places /\ tree[p] # "none"

CanMake(p)   == p \in Places /\ Len(p) > 1 /\ tree[p] = "none" /\ tree[Front(p)] = "dir"
CanRemove(p) == Len(p) > 1 /\ \A q \in Places : IsStrictPrefix(p, q) => tree[q] = "none"

\* What is below s comes to be below d, if there is room for it.
CanRename(s, d) ==
    /\ Exists(s) /\ Len(s) > 1 /\ CanMake(d) /\ ~IsPrefix(s, d) /\ s[1] = d[1]
    /\ \A q \in Places : Exists(q) /\ IsPrefix(s, q) => Len(q) - Len(s) + Len(d) <= Depth

Renamed(s, d) ==
    tree' = [p \in Places |->
               IF IsPrefix(s, p) THEN "none"
               ELSE IF IsPrefix(d, p)
               THEN LET q == s \o SubSeq(p, Len(d) + 1, Len(p))
                    IN  IF q \in Places THEN tree[q] ELSE "none"
               ELSE tree[p]]

(***************************************************************************)
(* Paths                                                                   *)
(***************************************************************************)
\* path_is_at_root, by the slash at its end
AtRoot(p) == p.slash

\* Mutant: the case of the device's root is missing.
DirUpPastDevice(p) ==
    IF p.names = <<>> THEN Root
    ELSE [names |-> Front(p.names), slash |-> Len(p.names) = 2]

\* dir_up: "/foo:" gets its slash back
DirUp(p) ==
    IF p.names = <<>> \/ AtRoot(p) THEN Root
    ELSE [names |-> Front(p.names), slash |-> Len(p.names) = 2]

\* The path that CWD tries
Tried(c, a) ==
    LET n == IF a.full THEN a.names ELSE curPath[c].names \o a.names
    IN  [names |-> n, slash |-> a.slash \/ Len(n) = 1]

\* "ux0:/foo", whose device is recognised by its fourth character
WithDevice(a) == a.names[1] \in Short /\ (a.slash \/ Len(a.names) > 1)

\* gen_ftp_fullpath and get_vita_path: appended to "/", a path gets two slashes,
\* one of which stays.
FullPath(c, a) ==
    IF a.full \/ WithDevice(a) THEN a.names
    ELSE IF curPath[c].names = <<>> THEN Nowhere ELSE curPath[c].names \o a.names

\* What the client means, who knows what it was answered.
Meant(c, a) == IF a.full \/ a.names[1] \in Devices THEN a.names ELSE here[c] \o a.names

(***************************************************************************)
(* The commands                                                            *)
(***************************************************************************)
Mishap(c, m) == mishaps' = [mishaps EXCEPT ![c] = @ \cup m]

\* CWD ".." and CDUP
GoUp(c) ==
    /\ curPath' = [curPath EXCEPT ![c] = DirUp(@)]
    /\ here' = [here EXCEPT ![c] = IF @ = <<>> THEN <<>> ELSE Front(@)]
    /\ UNCHANGED <<tree, renamePath, asked, mishaps, astray>>

\* CWD "/"
GoRoot(c) ==
    /\ curPath' = [curPath EXCEPT ![c] = Root]
    /\ here' = [here EXCEPT ![c] = <<>>]
    /\ UNCHANGED <<tree, renamePath, asked, mishaps, astray>>

Enter(c, a) ==
    /\ Is(Tried(c, a).names, "dir")
    /\ curPath' = [curPath EXCEPT ![c] = Tried(c, a)]
    /\ here' = [here EXCEPT ![c] = Meant(c, a)]
    /\ Mishap(c, IF a.slash /\ Len(Tried(c, a).names) > 1 THEN {"slash"} ELSE {})
    /\ UNCHANGED <<tree, renamePath, asked, astray>>

\* Refused, for whatever reason.
Refused(c) == UNCHANGED vars

\* Mutant: the path is taken before it is tried.
CwdUntried(c, a) ==
    \/ Enter(c, a)
    \/ /\ Tried(c, a).names \in Places /\ curPath' = [curPath EXCEPT ![c] = Tried(c, a)]
       /\ UNCHANGED <<tree, renamePath, here, asked, mishaps, astray>>

Cwd(c, a) == Enter(c, a) \/ Refused(c)

Change(c, p, k, meant) ==
    /\ tree' = [tree EXCEPT ![p] = k]
    /\ astray' = [astray EXCEPT ![c] = @ \/ p # meant]
    /\ UNCHANGED <<curPath, renamePath, here, asked, mishaps>>

Mkd(c, a) ==
    \/ CanMake(FullPath(c, a)) /\ Change(c, FullPath(c, a), "dir", Meant(c, a))
    \/ Refused(c)

Rmd(c, a) ==
    \/ /\ Is(FullPath(c, a), "dir") /\ CanRemove(FullPath(c, a))
       /\ Change(c, FullPath(c, a), "none", Meant(c, a))
    \/ Refused(c)

Dele(c, a) ==
    \/ Is(FullPath(c, a), "file") /\ Change(c, FullPath(c, a), "none", Meant(c, a))
    \/ Refused(c)

\* Mutant: the path is kept before it is looked for.
RnfrUnchecked(c, a) ==
    \E found \in {Exists(FullPath(c, a)), FALSE} :
        /\ renamePath' =
             [renamePath EXCEPT ![c] = IF FullPath(c, a) \in Places THEN FullPath(c, a) ELSE @]
        /\ asked' = [asked EXCEPT ![c] = IF found THEN Meant(c, a) ELSE @]
        /\ UNCHANGED <<tree, curPath, here, mishaps, astray>>

\* A client whose RNFR is refused still goes by the one before.
Rnfr(c, a) ==
    \/ /\ Exists(FullPath(c, a))
       /\ renamePath' = [renamePath EXCEPT ![c] = FullPath(c, a)]
       /\ asked' = [asked EXCEPT ![c] = Meant(c, a)]
       /\ UNCHANGED <<tree, curPath, here, mishaps, astray>>
    \/ Refused(c)

\* A rename that fails is answered twice.
Rnto(c, a) ==
    LET s == renamePath[c]
        d == FullPath(c, a)
        unasked == IF asked[c] = Nowhere THEN {"unasked"} ELSE {}
    IN  /\ \/ /\ CanRename(s, d) /\ Renamed(s, d)
              /\ astray' = [astray EXCEPT ![c] = @ \/ s # asked[c] \/ d # Meant(c, a)]
              /\ Mishap(c, unasked)
           \/ Mishap(c, unasked \cup {"failed"}) /\ UNCHANGED <<tree, astray>>
        /\ asked' = [asked EXCEPT ![c] = Nowhere]
        /\ UNCHANGED <<curPath, renamePath, here>>

\* The client goes, and another takes its place; rename_path is not written.
Connect(c) ==
    /\ curPath' = [curPath EXCEPT ![c] = Root] /\ here' = [here EXCEPT ![c] = <<>>]
    /\ \E p \in Places \cup {Nowhere} : renamePath' = [renamePath EXCEPT ![c] = p]
    /\ asked' = [asked EXCEPT ![c] = Nowhere]
    /\ mishaps' = [mishaps EXCEPT ![c] = {}] /\ astray' = [astray EXCEPT ![c] = FALSE]
    /\ UNCHANGED tree

\* Anybody else makes or removes something.
Elsewhere ==
    /\ \E p \in Places :
         \/ CanMake(p) /\ \E k \in {"dir", "file"} : tree' = [tree EXCEPT ![p] = k]
         \/ Exists(p) /\ CanRemove(p) /\ tree' = [tree EXCEPT ![p] = "none"]
    /\ UNCHANGED clientVars

Command(c) ==
    \/ \E a \in Args : Cwd(c, a) \/ Mkd(c, a) \/ Rmd(c, a) \/ Dele(c, a) \/ Rnfr(c, a) \/ Rnto(c, a)
    \/ GoUp(c) \/ GoRoot(c)

Next ==
    \/ \E c \in Clients : ("failed" \notin mishaps[c] /\ Command(c)) \/ Connect(c)
    \/ Elsewhere

Spec == Init /\ [][Next]_vars

-----------------------------------------------------------------------------
\* A client is where it takes itself to be, after any sequence of commands and
\* whatever becomes of the directories on the way, until it enters one by a name
\* with a slash at its end.
CurPathIsHere == \A c \in Clients : "slash" \notin mishaps[c] => curPath[c].names = here[c]

\* What a client changes is what it named, in the directory it takes itself to be
\* in, even where that is not cur_path; and what it renames is what it was last asked
\* for the new name of, unless it was not asked at all.
ChangesWhatItNamed == \A c \in Clients : astray[c] => "unasked" \in mishaps[c]

\* dir_up leads from the root of a device to the list of devices, and from any
\* other directory to the one that it is in.  (The comment there: "Case root of the
\* device (/foo0:/)".)
UpIsUp == \A c \in Clients : curPath[c].names = here[c]
=============================================================================
