-------------------------- MODULE MCDirectorySync --------------------------
(* Two students on pages 1 and 3 and a class; the second requester may not  *)
(* see the second student.                                                  *)
EXTENDS DirectorySync, TLC

CONSTANTS r1, r2, s1, s2, c1

MCRun == {r1, r2}
MCRecord == {s1, s2, c1}
MCKindOf == s1 :> "student" @@ s2 :> "student" @@ c1 :> "class"
MCPageOf == s1 :> 1 @@ s2 :> 3 @@ c1 :> 1
MCVisible == r1 :> MCRecord @@ r2 :> MCRecord \ {s2}
MCEntityTypes == <<"student", "class">>
Present == [deleted |-> FALSE, status |-> "normal"]
Disabled == [deleted |-> FALSE, status |-> "disabled"]
MCSays == s1 :> <<Present, Disabled>> @@ s2 :> <<Present>> @@ c1 :> <<Disabled, Present>>
MCInitial == s1 :> 1 @@ s2 :> 0 @@ c1 :> 1
=============================================================================
