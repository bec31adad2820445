----------------------------- MODULE MCFileTree -----------------------------
EXTENDS FileTree

\* The paths of up to four of the names "a" and "b".
A == <<"a">>  AA == <<"a", "a">>  AB == <<"a", "b">>  AAA == <<"a", "a", "a">>  
B == <<"b">>  BA == <<"b", "a">>  BB == <<"b", "b">>  BAA == <<"b", "a", "a">>
AAAB == <<"a", "a", "a", "b">>

Tree(dirs, files) ==
    [p \in Paths |-> IF p \in dirs \cup {<<>>} THEN Directory
                     ELSE IF p \in files THEN Node("file", p) ELSE Absent]

SmallTrees ==
    { Tree({A, AA, AAA}, {AB, AAAB}),          \* one tree, whose directories share names
      Tree({A, AA}, {AB, AAA}),                     \* one without
      Tree({A, AA, B, BA}, {AB, AAA, BB, BAA}),     \* two that have the same names
      Tree({A, AA, B, BB}, {AAA, AB, BA}),          \* two that do not agree on what is a file
      Tree({A, AA, B}, {BA}) }                      \* the same, with an empty directory

Ends == {A, B, AA, AB, BA}

Call(fn, s, d, i, r, p) ==
    [fn |-> fn, src |-> s, dst |-> d, integrate |-> i, replace |-> r, param |-> p]

AllCalls ==
    {Call("info", s, <<>>, FALSE, FALSE, FALSE) : s \in Ends}
        \cup {Call("remove", s, <<>>, FALSE, FALSE, p) : s \in Ends, p \in BOOLEAN}
        \cup {Call("copy", s, d, FALSE, FALSE, p) : s \in Ends, d \in Ends, p \in BOOLEAN}
        \cup {Call("move", s, d, i, r, FALSE) : s \in Ends, d \in Ends, i \in BOOLEAN, r \in BOOLEAN}

\* One thread makes any call; another removes one tree, or copies from it or to it.
MakeCalls ==
    [one |-> AllCalls,
     two |-> {Call("remove", A, <<>>, FALSE, FALSE, FALSE), Call("copy", A, B, FALSE, FALSE, FALSE),
             Call("copy", B, A, FALSE, FALSE, FALSE)}]

\* Bound: the other thread is at it while the first does one of its own calls.
Crossing ==
    call["two"] # NoCall =>
        /\ call["one"] \in {NoCall} \cup MakeCalls["two"]
        /\ mishaps \subseteq {"other"}
=============================================================================
