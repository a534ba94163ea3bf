-------------------------- MODULE DirectorySyncProofs --------------------------
(***************************************************************************)
(* What DirectorySync guarantees for every number of runs, records, types  *)
(* and pages, whatever EduPlus changes meanwhile.                          *)
(***************************************************************************)
EXTENDS DirectorySync, TLAPS

\* What a run has read is not ahead of EduPlus, and not older than its beginning.
ReadOK(r) == \A rec \in Record :
    /\ proc[r].got[rec] <= upstream[rec] /\ begun[r][rec] <= upstream[rec]
    /\ proc[r].got[rec] > 0 => proc[r].got[rec] >= begun[r][rec]

Got(r, rec) == proc[r].got[rec] >= begun[r][rec]

\* Every page before the next one has been read.
PagingOK(r) == proc[r].pc \in {"idle", "token", "fetch"} =>
    /\ proc[r].type \in Nat \ {0} /\ proc[r].page \in Nat \ {0}
    /\ \A c \in proc[r].cursors : c \in Nat /\ 0 < c /\ c <= proc[r].page
    /\ \A rec \in Visible[r], i \in DOMAIN EntityTypes :
         /\ KindOf[rec] = EntityTypes[i]
         /\ i < proc[r].type \/ (i = proc[r].type /\ PageOf[rec] < proc[r].page)
         => Got(r, rec)

\* The runs that start with nothing: their first page is the first one.
AtStart(r) == proc[r].pc \in {"idle", "token"} => proc[r] = Fresh(proc[r].pc)

Complete(r) == proc[r].pc \in Writing \cup {"finish"} => \A rec \in Visible[r] : Got(r, rec)

\* The tables a run has written, if no other one could write them.
WrittenOK(r) == r \notin overlapped => \A rec \in Visible[r] :
    \/ proc[r].pc \in {"classes", "courses", "finish"} /\ KindOf[rec] \in PeopleTypes
    \/ proc[r].pc \in {"courses", "finish"} /\ KindOf[rec] = "class"
    \/ proc[r].pc = "finish" /\ Imported(rec)
    => local[rec].version >= begun[r][rec]

\* Nothing but the run itself has written since it began.
OwnOK(r) == r \notin overlapped /\ proc[r].pc \in {"token", "fetch"} \cup Writing => \A rec \in Record :
    local[rec].version <= begun[r][rec] \/ local[rec].version <= proc[r].got[rec]

RunOK(r) == ReadOK(r) /\ PagingOK(r) /\ AtStart(r) /\ Complete(r) /\ WrittenOK(r) /\ OwnOK(r)

Alone == \A r, q \in Run : r # q /\ InFlight(r) /\ InFlight(q) => r \in overlapped

\* A run in flight began no earlier than one that has ended and met no other.
Later == \A r, q \in Run : r \notin overlapped /\ runs[r] = "PARTIAL" /\ InFlight(q) =>
            \A rec \in Record : begun[q][rec] >= begun[r][rec]

IInv == TypeOK /\ MirrorsUpstream /\ FreshWhenAlone /\ (\A r \in Run : RunOK(r)) /\ Alone /\ Later

Proc == [pc : {"idle", "token", "fetch", "finish", "failed", "done", "dead"} \cup Writing,
         type : Nat, page : Nat, cursors : SUBSET Nat, got : [Record -> Nat]]
--------------------------------------------------------------------------------
LEMMA InitInv == Init => IInv
<1> SUFFICES ASSUME Init PROVE IInv
  OBVIOUS
<1> USE SyncData
<1>1. Fresh("idle") \in Proc
  BY DEF Fresh, Proc, Writing
<1>2. TypeOK
  <2>1. Initial \in [Record -> Nat] /\ \A rec \in Record : Initial[rec] <= Len(Says[rec])
    BY DEF Init
  <2> QED BY <1>1, <2>1 DEF Init, TypeOK, Fresh, Proc
<1>3. MirrorsUpstream /\ FreshWhenAlone /\ Alone /\ Later
  BY DEF Init, MirrorsUpstream, FreshWhenAlone, Alone, Later, InFlight, Fresh
<1>4. ASSUME NEW r \in Run PROVE RunOK(r)
  <2>1. /\ proc[r] = Fresh("idle") /\ proc[r].pc = "idle" /\ proc[r].type = 1 /\ proc[r].page = 1
        /\ proc[r].cursors = {} /\ begun[r] = [rec \in Record |-> 0]
        /\ proc[r].got = [rec \in Record |-> 0]
    BY DEF Init, Fresh
  <2>2. ReadOK(r) /\ WrittenOK(r) /\ OwnOK(r) /\ Complete(r) /\ AtStart(r)
    BY <1>2, <2>1 DEF Init, TypeOK, ReadOK, AtStart, Complete, WrittenOK, OwnOK, InFlight, Writing
  <2>3. \A rec \in Record : Got(r, rec)
    BY <2>1 DEF Got
  <2> QED BY <2>1, <2>2, <2>3 DEF RunOK, PagingOK
<1> QED BY <1>2, <1>3, <1>4 DEF IInv

\* A request moves on without touching a table other than its run's row.
LEMMA MovePreserves ==
    ASSUME IInv, NEW r \in Run, NEW p \in Proc, InFlight(r),
           proc' = [proc EXCEPT ![r] = p],
           UNCHANGED <<upstream, local, begun, overlapped>>,
           runs' \in [Run -> {"none", "RUNNING", "PARTIAL", "FAILED"}],
           \A q \in Run \ {r} : runs'[q] = runs[q],
           runs'[r] # "none", p.pc # "idle",
           runs'[r] = "PARTIAL" /\ r \notin overlapped =>
             \A rec \in Visible[r] : Imported(rec) => local[rec].version >= begun[r][rec],
           RunOK(r)'
    PROVE  IInv'
<1>1. /\ proc' \in [Run -> Proc] /\ proc'[r] = p
      /\ \A q \in Run \ {r} : proc'[q] = proc[q]
  BY DEF IInv, TypeOK, Proc
<1>2. TypeOK'
  <2>1. \A q \in Run : runs'[q] = "none" <=> proc'[q].pc = "idle"
    BY <1>1 DEF IInv, TypeOK
  <2> QED BY <1>1, <2>1 DEF IInv, TypeOK, Proc
<1>3. MirrorsUpstream'
  BY DEF IInv, MirrorsUpstream, IsActive
<1>4. FreshWhenAlone'
  BY DEF IInv, FreshWhenAlone, Imported
<1>5. \A q \in Run : InFlight(q)' => InFlight(q)
  BY <1>1 DEF InFlight
<1>6. Alone'
  BY <1>5 DEF IInv, Alone
<1>7. Later'
  <2> SUFFICES ASSUME NEW s \in Run, NEW q \in Run, s \notin overlapped, runs'[s] = "PARTIAL",
                      InFlight(q), NEW rec \in Record
               PROVE  begun[q][rec] >= begun[s][rec]
    BY <1>5 DEF Later
  <2>1. begun[q][rec] \in Nat /\ begun[s][rec] \in Nat
    BY DEF IInv, TypeOK
  <2>2. CASE s = q
    BY <2>1, <2>2
  <2>3. CASE s # q /\ s = r
    BY <2>3 DEF IInv, Alone
  <2>4. CASE s # r
    BY <2>4 DEF IInv, Later
  <2> QED BY <2>2, <2>3, <2>4
<1>8. ASSUME NEW q \in Run PROVE RunOK(q)'
  <2>1. CASE q = r
    BY <2>1
  <2>2. CASE q # r
    <3>1. RunOK(q) /\ proc'[q] = proc[q]
      BY <1>1, <2>2 DEF IInv
    <3> QED BY <3>1 DEF RunOK, ReadOK, PagingOK, AtStart, Complete, WrittenOK, OwnOK, InFlight,
                        Got, Imported, Fresh
  <2> QED BY <2>1, <2>2
<1> QED BY <1>2, <1>3, <1>4, <1>6, <1>7, <1>8 DEF IInv

\* What is dropped needs no justification.
LEMMA DroppedOK ==
    ASSUME IInv, NEW r \in Run, NEW pc \in {"failed", "done", "dead"},
           proc' = [proc EXCEPT ![r] = Fresh(pc)], UNCHANGED <<upstream, local, begun, overlapped>>
    PROVE  Fresh(pc) \in Proc /\ Fresh(pc).pc = pc /\ RunOK(r)'
<1>1. Fresh(pc) \in Proc /\ Fresh(pc).pc = pc /\ Fresh(pc).got = [rec \in Record |-> 0]
  BY DEF Fresh, Proc
<1>2. proc'[r] = Fresh(pc)
  BY DEF IInv, TypeOK
<1>3. ReadOK(r)'
  BY <1>1, <1>2 DEF IInv, TypeOK, RunOK, ReadOK
<1>4. (PagingOK(r) /\ AtStart(r) /\ Complete(r) /\ WrittenOK(r) /\ OwnOK(r))'
  BY <1>1, <1>2 DEF PagingOK, AtStart, Complete, WrittenOK, OwnOK, Writing
<1> QED BY <1>1, <1>3, <1>4 DEF RunOK

LEMMA GetTokenPreserves ==
    ASSUME IInv, NEW r \in Run, GetToken(r)
    PROVE  IInv'
<1> DEFINE p == [proc[r] EXCEPT !.pc = "fetch"]
<1>1. /\ proc[r] \in Proc /\ proc[r].pc = "token" /\ InFlight(r) /\ runs[r] # "none"
      /\ proc' = [proc EXCEPT ![r] = p] /\ proc'[r] = p
      /\ UNCHANGED <<upstream, local, runs, begun, overlapped>>
  BY DEF GetToken, Goto, IInv, TypeOK, InFlight, Proc
<1>2. /\ p \in Proc /\ p.pc = "fetch" /\ p.got = proc[r].got /\ p.type = proc[r].type
      /\ p.page = proc[r].page /\ p.cursors = proc[r].cursors
  BY <1>1 DEF Proc
<1> HIDE DEF p
<1>3. RunOK(r)'
  <2>1. RunOK(r)
    BY DEF IInv
  <2> QED BY <2>1, <1>1, <1>2 DEF RunOK, ReadOK, PagingOK, AtStart, Complete, WrittenOK, OwnOK, Got,
                                  Writing
<1>4. r \notin overlapped /\ runs[r] = "PARTIAL" =>
        \A rec \in Visible[r] : Imported(rec) => local[rec].version >= begun[r][rec]
  BY DEF IInv, FreshWhenAlone
<1>5. runs \in [Run -> {"none", "RUNNING", "PARTIAL", "FAILED"}]
  BY DEF IInv, TypeOK
<1> QED BY <1>1, <1>2, <1>3, <1>4, <1>5, MovePreserves

\* A request ends, or fails, whatever becomes of its row as long as that is not
\* a new PARTIAL.
LEMMA DropPreserves ==
    ASSUME IInv, NEW r \in Run, InFlight(r), NEW pc \in {"failed", "done"},
           proc' = [proc EXCEPT ![r] = Fresh(pc)],
           UNCHANGED <<upstream, local, begun, overlapped>>,
           runs' \in [Run -> {"none", "RUNNING", "PARTIAL", "FAILED"}],
           \A q \in Run \ {r} : runs'[q] = runs[q],
           runs'[r] # "none",
           runs'[r] = "PARTIAL" /\ r \notin overlapped =>
             \A rec \in Visible[r] : Imported(rec) => local[rec].version >= begun[r][rec]
    PROVE  IInv'
<1>1. Fresh(pc) \in Proc /\ Fresh(pc).pc = pc /\ RunOK(r)'
  BY DroppedOK
<1> QED BY <1>1, MovePreserves

LEMMA FailPreserves ==
    ASSUME IInv, NEW r \in Run, Fail(r)
    PROVE  IInv'
<1>1. InFlight(r)
  BY DEF Fail, InFlight, Writing
<1>2. proc' = [proc EXCEPT ![r] = Fresh("failed")] /\ UNCHANGED <<upstream, local, runs, begun, overlapped>>
  BY DEF Fail, Drop
<1>3. runs \in [Run -> {"none", "RUNNING", "PARTIAL", "FAILED"}] /\ runs[r] # "none"
  BY <1>1 DEF IInv, TypeOK, InFlight
<1>4. r \notin overlapped /\ runs[r] = "PARTIAL" =>
        \A rec \in Visible[r] : Imported(rec) => local[rec].version >= begun[r][rec]
  BY DEF IInv, FreshWhenAlone
<1> QED BY <1>1, <1>2, <1>3, <1>4, DropPreserves

LEMMA RecordFailurePreserves ==
    ASSUME IInv, NEW r \in Run, RecordFailure(r)
    PROVE  IInv'
<1>1. InFlight(r)
  BY DEF RecordFailure, InFlight
<1>2. proc' = [proc EXCEPT ![r] = Fresh("done")] /\ UNCHANGED <<upstream, local, begun, overlapped>>
  BY DEF RecordFailure, Drop
<1>3. /\ runs' \in [Run -> {"none", "RUNNING", "PARTIAL", "FAILED"}] /\ runs'[r] # "none"
      /\ \A q \in Run \ {r} : runs'[q] = runs[q]
      /\ runs'[r] = "PARTIAL" => runs[r] = "PARTIAL"
  BY <1>1 DEF RecordFailure, IInv, TypeOK, InFlight
<1>4. r \notin overlapped /\ runs[r] = "PARTIAL" =>
        \A rec \in Visible[r] : Imported(rec) => local[rec].version >= begun[r][rec]
  BY DEF IInv, FreshWhenAlone
<1> QED BY <1>1, <1>2, <1>3, <1>4, DropPreserves

LEMMA FinishPreserves ==
    ASSUME IInv, NEW r \in Run, Finish(r)
    PROVE  IInv'
<1>1. InFlight(r) /\ proc[r].pc = "finish"
  BY DEF Finish, InFlight
<1>2. PICK pc \in {"done", "failed"} : proc' = [proc EXCEPT ![r] = Fresh(pc)]
  BY DEF Finish, Drop
<1>3. /\ runs' \in [Run -> {"none", "RUNNING", "PARTIAL", "FAILED"}] /\ runs'[r] # "none"
      /\ \A q \in Run \ {r} : runs'[q] = runs[q]
      /\ UNCHANGED <<upstream, local, begun, overlapped>>
  BY DEF Finish, IInv, TypeOK
<1>4. r \notin overlapped =>
        \A rec \in Visible[r] : Imported(rec) => local[rec].version >= begun[r][rec]
  BY <1>1 DEF IInv, RunOK, WrittenOK
<1> QED BY <1>1, <1>2, <1>3, <1>4, DropPreserves

\* What reading a page adds.
LEMMA PageRead ==
    ASSUME IInv, NEW r \in Run, proc[r].pc = "fetch"
    PROVE  /\ PageItems(r) \in [Record -> Nat]
           /\ \A rec \in Record : /\ PageItems(r)[rec] <= upstream[rec]
                                  /\ PageItems(r)[rec] > 0 => PageItems(r)[rec] >= begun[r][rec]
                                  /\ Got(r, rec) => PageItems(r)[rec] >= begun[r][rec]
                                  /\ PageItems(r)[rec] >= proc[r].got[rec]
           /\ \A rec \in Visible[r] :
                KindOf[rec] = EntityTypes[proc[r].type] /\ PageOf[rec] = proc[r].page
                => PageItems(r)[rec] >= begun[r][rec]
<1>1. /\ upstream \in [Record -> Nat] /\ proc[r].got \in [Record -> Nat]
      /\ begun[r] \in [Record -> Nat] /\ ReadOK(r)
  BY DEF IInv, TypeOK, RunOK
<1>2. Visible[r] \subseteq Record
  BY SyncData
<1> QED BY <1>1, <1>2 DEF PageItems, OnPage, ReadOK, Got

LEMMA GetPagePreserves ==
    ASSUME IInv, NEW r \in Run, GetPage(r)
    PROVE  IInv'
<1>1. /\ proc[r] \in Proc /\ proc[r].pc = "fetch" /\ InFlight(r)
      /\ UNCHANGED <<upstream, local, runs, begun, overlapped>>
  BY DEF GetPage, IInv, TypeOK, InFlight, Proc
<1>2. runs \in [Run -> {"none", "RUNNING", "PARTIAL", "FAILED"}] /\ runs[r] # "none"
  BY <1>1 DEF IInv, TypeOK
<1>3. r \notin overlapped /\ runs[r] = "PARTIAL" =>
        \A rec \in Visible[r] : Imported(rec) => local[rec].version >= begun[r][rec]
  BY DEF IInv, FreshWhenAlone
<1>4. RunOK(r)
  BY DEF IInv
<1>5. PagingOK(r) /\ proc[r].type \in Nat \ {0} /\ proc[r].page \in Nat \ {0}
  BY <1>1, <1>4 DEF RunOK, PagingOK
<1>6. PageItems(r) \in [Record -> Nat] /\ proc[r].cursors \subseteq Nat
  BY <1>1, PageRead DEF Proc
<1>7. ASSUME NEW p \in Proc, proc' = [proc EXCEPT ![r] = p], p.got = PageItems(r),
             p.pc \in {"fetch", "people"}, PagingOK(r)', Complete(r)'
      PROVE  IInv'
  <2>1. proc'[r] = p
    BY <1>7 DEF IInv, TypeOK
  <2>2. \A rec \in Record : /\ p.got[rec] <= upstream[rec] /\ p.got[rec] >= proc[r].got[rec]
                            /\ p.got[rec] > 0 => p.got[rec] >= begun[r][rec]
    BY <1>1, <1>7, PageRead
  <2>3. ReadOK(r)'
    BY <1>1, <1>4, <2>1, <2>2 DEF RunOK, ReadOK
  <2>4. OwnOK(r)'
    <3>1. r \notin overlapped => \A rec \in Record :
            local[rec].version <= begun[r][rec] \/ local[rec].version <= proc[r].got[rec]
      BY <1>1, <1>4 DEF RunOK, OwnOK
    <3>2. \A rec \in Record : local[rec].version \in Nat /\ p.got[rec] \in Nat /\ proc[r].got[rec] \in Nat
      BY <1>1, <1>6, <1>7 DEF IInv, TypeOK, Proc
    <3> QED BY <1>1, <2>1, <2>2, <3>1, <3>2 DEF OwnOK
  <2>5. (AtStart(r) /\ WrittenOK(r))'
    BY <1>7, <2>1 DEF AtStart, WrittenOK
  <2>6. RunOK(r)' /\ InFlight(r)' /\ p.pc # "idle"
    BY <1>7, <2>1, <2>3, <2>4, <2>5 DEF RunOK, InFlight
  <2> QED BY <1>1, <1>2, <1>3, <1>7, <2>6, MovePreserves
<1>8. PICK next \in NextCursors(r) :
         \/ /\ Follow(r, next)
            /\ proc' = [proc EXCEPT ![r].got = PageItems(r), ![r].page = next,
                                    ![r].cursors = @ \cup {next}]
         \/ /\ next = 0
            /\ proc' = [proc EXCEPT ![r].got = PageItems(r), ![r].page = 1, ![r].cursors = {},
                                    ![r].type = @ + 1,
                                    ![r].pc = IF LastType(r) THEN "people" ELSE "fetch"]
         \/ /\ next # 0 /\ ~Follow(r, next)
            /\ Drop(r, "failed")
  BY DEF GetPage
\* The next page.
<1>9. CASE /\ Follow(r, next)
           /\ proc' = [proc EXCEPT ![r].got = PageItems(r), ![r].page = next,
                                   ![r].cursors = @ \cup {next}]
  <2> DEFINE p == [proc[r] EXCEPT !.got = PageItems(r), !.page = next, !.cursors = @ \cup {next}]
  <2>1. next = proc[r].page + 1
    BY <1>9 DEF NextCursors, Follow
  <2>2. /\ p \in Proc /\ p.got = PageItems(r) /\ p.page = next /\ p.type = proc[r].type
        /\ p.cursors = proc[r].cursors \cup {next} /\ p.pc = "fetch"
    <3> DEFINE got == PageItems(r)
               cursors == proc[r].cursors \cup {next}
    <3>1. got \in [Record -> Nat] /\ next \in Nat /\ cursors \in SUBSET Nat
      BY <1>5, <1>6, <2>1
    <3>2. p = [proc[r] EXCEPT !.got = got, !.page = next, !.cursors = cursors]
      OBVIOUS
    <3> HIDE DEF p, got, cursors
    <3>3. /\ p \in Proc /\ p.got = got /\ p.page = next /\ p.type = proc[r].type
          /\ p.cursors = cursors /\ p.pc = proc[r].pc
      BY <1>1, <3>1, <3>2 DEF Proc
    <3> QED BY <1>1, <3>3 DEF got, cursors
  <2>3. proc' = [proc EXCEPT ![r] = p] /\ proc'[r] = p
    BY <1>9 DEF IInv, TypeOK
  <2> HIDE DEF p
  <2>4. Complete(r)'
    BY <2>2, <2>3 DEF Complete, Writing
  <2>5. PagingOK(r)'
    <3>1. \A c \in p.cursors : c \in Nat /\ 0 < c /\ c <= p.page
      BY <1>1, <1>5, <2>1, <2>2 DEF PagingOK
    <3>2. ASSUME NEW rec \in Visible[r], NEW i \in DOMAIN EntityTypes, KindOf[rec] = EntityTypes[i],
                 i < p.type \/ (i = p.type /\ PageOf[rec] < p.page)
          PROVE  p.got[rec] >= begun[r][rec]
      <4>1. rec \in Record /\ PageOf[rec] \in Nat /\ i \in Nat
        BY SyncData
      <4>2. CASE i < proc[r].type \/ (i = proc[r].type /\ PageOf[rec] < proc[r].page)
        BY <1>1, <1>5, <2>2, <3>2, <4>1, <4>2, PageRead DEF PagingOK
      <4>3. CASE i = proc[r].type /\ PageOf[rec] = proc[r].page
        BY <1>1, <2>2, <3>2, <4>1, <4>3, PageRead
      <4> QED BY <1>5, <2>1, <2>2, <3>2, <4>1, <4>2, <4>3
    <3> QED BY <1>1, <1>5, <2>1, <2>2, <2>3, <3>1, <3>2 DEF PagingOK, Got
  <2> QED BY <1>7, <2>2, <2>3, <2>4, <2>5
\* The type ends.
<1>10. CASE /\ next = 0
            /\ proc' = [proc EXCEPT ![r].got = PageItems(r), ![r].page = 1, ![r].cursors = {},
                                    ![r].type = @ + 1,
                                    ![r].pc = IF LastType(r) THEN "people" ELSE "fetch"]
  <2> DEFINE p == [proc[r] EXCEPT !.got = PageItems(r), !.page = 1, !.cursors = {}, !.type = @ + 1,
                                  !.pc = IF LastType(r) THEN "people" ELSE "fetch"]
  <2>1. ~MorePages(r)
    BY <1>1, <1>5, <1>10 DEF NextCursors, PagingOK
  <2>2. /\ p \in Proc /\ p.got = PageItems(r) /\ p.page = 1 /\ p.type = proc[r].type + 1
        /\ p.cursors = {} /\ p.pc \in {"fetch", "people"} /\ (p.pc = "people" <=> LastType(r))
    <3> DEFINE got == PageItems(r)
               type == proc[r].type + 1
               pc == IF LastType(r) THEN "people" ELSE "fetch"
    <3>1. /\ got \in [Record -> Nat] /\ type \in Nat /\ pc \in {"fetch", "people"}
          /\ pc = "people" <=> LastType(r)
      BY <1>5, <1>6
    <3>2. p = [proc[r] EXCEPT !.got = got, !.page = 1, !.cursors = {}, !.type = type, !.pc = pc]
      OBVIOUS
    <3> HIDE DEF p, got, type, pc
    <3>3. /\ p \in Proc /\ p.got = got /\ p.page = 1 /\ p.type = type /\ p.cursors = {} /\ p.pc = pc
      BY <1>1, <3>1, <3>2 DEF Proc, Writing
    <3> QED BY <3>1, <3>3 DEF got, type
  <2>3. proc' = [proc EXCEPT ![r] = p] /\ proc'[r] = p
    BY <1>10 DEF IInv, TypeOK
  <2> HIDE DEF p
  <2>4. ASSUME NEW rec \in Visible[r], NEW i \in DOMAIN EntityTypes, KindOf[rec] = EntityTypes[i],
               i <= proc[r].type
        PROVE  p.got[rec] >= begun[r][rec]
    <3>1. rec \in Record /\ PageOf[rec] \in Nat /\ i \in Nat
      BY SyncData
    <3>2. CASE i < proc[r].type \/ PageOf[rec] < proc[r].page
      <4>1. i < proc[r].type \/ (i = proc[r].type /\ PageOf[rec] < proc[r].page)
        BY <1>5, <2>4, <3>1, <3>2
      <4> QED BY <1>1, <1>5, <2>2, <2>4, <3>1, <4>1, PageRead DEF PagingOK
    <3>3. CASE i = proc[r].type /\ ~(PageOf[rec] < proc[r].page)
      <4>1. PageOf[rec] = proc[r].page
        BY <1>5, <2>1, <2>4, <3>1, <3>3 DEF MorePages
      <4> QED BY <1>1, <2>2, <2>4, <3>1, <3>3, <4>1, PageRead
    <3> QED BY <1>5, <2>4, <3>1, <3>2, <3>3
  <2>5. PagingOK(r)'
    <3>1. ASSUME NEW rec \in Visible[r], NEW i \in DOMAIN EntityTypes, KindOf[rec] = EntityTypes[i],
                 i < p.type \/ (i = p.type /\ PageOf[rec] < p.page)
          PROVE  p.got[rec] >= begun[r][rec]
      <4>1. rec \in Record /\ PageOf[rec] \in Nat \ {0} /\ i \in Nat
        BY SyncData
      <4> QED BY <1>5, <2>2, <2>4, <3>1, <4>1
    <3> QED BY <1>1, <1>5, <2>2, <2>3, <3>1 DEF PagingOK, Got
  <2>6. Complete(r)'
    <3>1. ASSUME LastType(r), NEW rec \in Visible[r] PROVE p.got[rec] >= begun[r][rec]
      <4>1. rec \in Record /\ DOMAIN EntityTypes = 1 .. Len(EntityTypes) /\ Len(EntityTypes) \in Nat
        BY SyncData
      <4>2. PICK i \in DOMAIN EntityTypes : KindOf[rec] = EntityTypes[i]
        BY SyncData, <4>1
      <4> QED BY <1>5, <2>4, <3>1, <4>1, <4>2 DEF LastType
    <3> QED BY <1>1, <2>2, <2>3, <3>1 DEF Complete, Got, Writing
  <2> QED BY <1>7, <2>2, <2>3, <2>5, <2>6
<1>11. CASE Drop(r, "failed")
  BY <1>1, <1>2, <1>3, <1>11, DropPreserves DEF Drop
<1> QED BY <1>8, <1>9, <1>10, <1>11

LEMMA StartPreserves ==
    ASSUME IInv, NEW r \in Run, Start(r)
    PROVE  IInv'
<1>1. /\ proc[r] = Fresh("idle") /\ proc' = [proc EXCEPT ![r] = Fresh("token")]
      /\ runs' = [runs EXCEPT ![r] = "RUNNING"] /\ begun' = [begun EXCEPT ![r] = upstream]
      /\ UNCHANGED <<upstream, local>>
  <2>1. proc[r] = Fresh("idle")
    BY DEF Start, IInv, RunOK, AtStart
  <2>2. [proc[r] EXCEPT !.pc = "token"] = Fresh("token")
    BY <2>1 DEF Fresh
  <2> QED BY <2>1, <2>2 DEF Start, Goto
<1>2. Fresh("token") \in Proc /\ Fresh("token").pc = "token"
  BY DEF Fresh, Proc
<1>3. /\ proc' \in [Run -> Proc] /\ proc'[r] = Fresh("token") /\ \A q \in Run \ {r} : proc'[q] = proc[q]
      /\ begun' \in [Run -> [Record -> Nat]] /\ begun'[r] = upstream
      /\ \A q \in Run \ {r} : begun'[q] = begun[q]
      /\ runs'[r] = "RUNNING" /\ \A q \in Run \ {r} : runs'[q] = runs[q]
      /\ runs' \in [Run -> {"none", "RUNNING", "PARTIAL", "FAILED"}]
  BY <1>1, <1>2 DEF IInv, TypeOK, Proc
<1>4. /\ overlapped \subseteq overlapped' /\ overlapped' \subseteq Run
      /\ \A q \in Run : InFlight(q) => q \in overlapped' /\ r \in overlapped'
  BY DEF Start, IInv, TypeOK
<1>5. TypeOK'
  <2>1. \A q \in Run : runs'[q] = "none" <=> proc'[q].pc = "idle"
    <3>1. \A q \in Run : runs[q] = "none" <=> proc[q].pc = "idle"
      BY DEF IInv, TypeOK
    <3>2. runs'[r] # "none" /\ proc'[r].pc # "idle"
      BY <1>2, <1>3
    <3> QED BY <1>3, <3>1, <3>2
  <2> QED BY <1>1, <1>3, <1>4, <2>1 DEF IInv, TypeOK, Proc
<1>6. MirrorsUpstream'
  BY <1>1 DEF IInv, MirrorsUpstream, IsActive
<1>7. FreshWhenAlone'
  BY <1>1, <1>3, <1>4 DEF IInv, FreshWhenAlone, Imported
<1>8. Alone'
  BY <1>3, <1>4 DEF IInv, Alone, InFlight
<1>9. Later'
  BY <1>1, <1>3, <1>4 DEF IInv, Later, InFlight, RunOK, ReadOK
<1>10. RunOK(r)'
  <2>1. /\ proc'[r].pc = "token" /\ proc'[r].type = 1 /\ proc'[r].page = 1 /\ proc'[r].cursors = {}
        /\ proc'[r].got = [rec \in Record |-> 0]
    BY <1>3 DEF Fresh
  <2>2. ReadOK(r)' /\ AtStart(r)' /\ Complete(r)' /\ WrittenOK(r)'
    BY <1>1, <1>2, <1>3, <2>1
    DEF IInv, TypeOK, ReadOK, AtStart, Complete, WrittenOK, Writing, Fresh
  <2>3. OwnOK(r)'
    <3>1. \A rec \in Record : local[rec].version <= upstream[rec]
      BY DEF IInv, TypeOK, MirrorsUpstream
    <3> QED BY <1>1, <1>3, <3>1 DEF OwnOK
  <2>4. PagingOK(r)'
    <3>1. \A rec \in Visible[r], i \in DOMAIN EntityTypes : ~(i < 1) /\ ~(PageOf[rec] < 1)
      BY SyncData
    <3> QED BY <2>1, <3>1 DEF PagingOK
  <2> QED BY <2>2, <2>3, <2>4 DEF RunOK
<1>11. ASSUME NEW q \in Run, q # r PROVE RunOK(q)'
  <2>1. RunOK(q) /\ proc'[q] = proc[q] /\ begun'[q] = begun[q] /\ (q \notin overlapped' => q \notin overlapped)
    BY <1>3, <1>4, <1>11 DEF IInv
  <2> QED BY <1>1, <2>1 DEF RunOK, ReadOK, PagingOK, AtStart, Complete, WrittenOK, OwnOK, Got,
                            Imported, Fresh
<1> QED BY <1>5, <1>6, <1>7, <1>8, <1>9, <1>10, <1>11 DEF IInv

\* One of the three transactions.
LEMMA WritePreserves ==
    ASSUME IInv, NEW r \in Run, SyncPeople(r) \/ SyncClasses(r) \/ SyncCourses(r)
    PROVE  IInv'
<1>1. PICK pc, kinds, next :
         /\ Write(r, pc, kinds, next)
         /\ \/ pc = "people" /\ kinds = PeopleTypes /\ next = "classes"
            \/ pc = "classes" /\ kinds = {"class"} /\ next = "courses"
            \/ pc = "courses" /\ kinds = {"course"} /\ next = "finish"
  BY DEF SyncPeople, SyncClasses, SyncCourses
<1> DEFINE p == [proc[r] EXCEPT !.pc = next]
<1>2. /\ proc[r] \in Proc /\ proc[r].pc = pc /\ pc \in Writing /\ next \in {"classes", "courses", "finish"}
      /\ proc' = [proc EXCEPT ![r] = p] /\ local' = Upserted(r, kinds)
      /\ UNCHANGED <<upstream, runs, begun, overlapped>>
  BY <1>1 DEF Write, Goto, IInv, TypeOK, Proc, Writing
<1>3. p \in Proc /\ p.pc = next /\ p.got = proc[r].got
  BY <1>2 DEF Proc, Writing
<1> HIDE DEF p
<1>4. proc' \in [Run -> Proc] /\ proc'[r] = p /\ \A q \in Run \ {r} : proc'[q] = proc[q]
  BY <1>2, <1>3 DEF IInv, TypeOK, Proc
<1>5. \A q \in Run : InFlight(q)' <=> InFlight(q)
  BY <1>2, <1>3, <1>4 DEF InFlight, Writing
<1>6. RunOK(r) /\ InFlight(r)
  BY <1>2 DEF IInv, InFlight, Writing
<1>7. \A rec \in Record :
         /\ proc[r].got[rec] \in Nat /\ local[rec].version \in Nat /\ begun[r][rec] \in Nat
         /\ upstream[rec] \in Nat
  BY <1>2 DEF Proc, IInv, TypeOK
<1>8. \A rec \in Record : IF rec \in Listed(r, kinds)
                          THEN /\ local'[rec].version = proc[r].got[rec] /\ proc[r].got[rec] > 0
                               /\ local'[rec].active = IsActive(rec, proc[r].got[rec])
                          ELSE local'[rec] = local[rec]
  BY <1>2 DEF Upserted, Read, Listed
<1>9. \A rec \in Record \ Listed(r, kinds) : KindOf[rec] \in kinds => proc[r].got[rec] = 0
  BY <1>7 DEF Listed
<1>10. TypeOK'
  <2>1. local' \in [Record -> [version : Nat, active : BOOLEAN]]
    <3>1. ASSUME NEW rec \in Record
          PROVE  (IF rec \in Listed(r, kinds) THEN Read(r, rec) ELSE local[rec])
                   \in [version : Nat, active : BOOLEAN]
      BY <1>7 DEF IInv, TypeOK, Read, IsActive
    <3> QED BY <1>2, <3>1 DEF Upserted
  <2>2. \A q \in Run : runs'[q] = "none" <=> proc'[q].pc = "idle"
    BY <1>2, <1>3, <1>4 DEF IInv, TypeOK, Writing
  <2> QED BY <1>2, <1>4, <2>1, <2>2 DEF IInv, TypeOK, Proc
<1>11. MirrorsUpstream'
  <2> SUFFICES ASSUME NEW rec \in Record
               PROVE  (IF local[rec].version = 0
                       THEN ~local[rec].active
                       ELSE /\ local[rec].version <= upstream[rec]
                            /\ local[rec].active = IsActive(rec, local[rec].version))'
    BY DEF MirrorsUpstream
  <2>1. CASE rec \in Listed(r, kinds)
    <3>1. local'[rec].version # 0 /\ local'[rec].version <= upstream'[rec]
      BY <1>2, <1>6, <1>7, <1>8, <2>1 DEF RunOK, ReadOK
    <3>2. local'[rec].active = IsActive(rec, local'[rec].version)
      BY <1>8, <2>1
    <3> QED BY <3>1, <3>2
  <2>2. CASE rec \notin Listed(r, kinds)
    BY <1>2, <1>8, <2>2 DEF IInv, MirrorsUpstream, IsActive
  <2> QED BY <2>1, <2>2
<1>12. FreshWhenAlone'
  <2> SUFFICES ASSUME NEW s \in Run \ overlapped, runs[s] = "PARTIAL", NEW rec \in Visible[s],
                      Imported(rec)
               PROVE  local'[rec].version >= begun[s][rec]
    BY <1>2 DEF FreshWhenAlone, Imported
  <2>1. rec \in Record /\ begun[s][rec] \in Nat /\ local[rec].version >= begun[s][rec]
    BY SyncData DEF IInv, TypeOK, FreshWhenAlone
  <2>2. begun[r][rec] >= begun[s][rec]
    BY <1>6, <2>1 DEF IInv, Later
  <2>3. CASE rec \in Listed(r, kinds)
    BY <1>6, <1>7, <1>8, <2>1, <2>2, <2>3 DEF RunOK, ReadOK
  <2>4. CASE rec \notin Listed(r, kinds)
    BY <1>8, <2>1, <2>4
  <2> QED BY <2>3, <2>4
<1>13. Alone' /\ Later'
  BY <1>2, <1>5 DEF IInv, Alone, Later
<1>14. RunOK(r)'
  <2>1. ReadOK(r)' /\ PagingOK(r)' /\ AtStart(r)' /\ Complete(r)'
    BY <1>2, <1>3, <1>4, <1>6
    DEF RunOK, ReadOK, PagingOK, AtStart, Complete, Got, Writing
  <2>2. \A rec \in Visible[r] : rec \in Record /\ proc[r].got[rec] >= begun[r][rec]
    BY <1>2, <1>6, SyncData DEF RunOK, Complete, Got
  <2>3. WrittenOK(r)'
    <3> SUFFICES ASSUME r \notin overlapped, NEW rec \in Visible[r],
                        \/ next \in {"classes", "courses", "finish"} /\ KindOf[rec] \in PeopleTypes
                        \/ next \in {"courses", "finish"} /\ KindOf[rec] = "class"
                        \/ next = "finish" /\ Imported(rec)
                 PROVE  local'[rec].version >= begun[r][rec]
      BY <1>2, <1>3, <1>4 DEF WrittenOK, Imported
    <3>1. CASE rec \in Listed(r, kinds)
      BY <1>8, <2>2, <3>1
    <3>2. CASE rec \notin Listed(r, kinds) /\ KindOf[rec] \in kinds
      BY <1>7, <1>8, <1>9, <2>2, <3>2
    <3>3. CASE rec \notin Listed(r, kinds) /\ KindOf[rec] \notin kinds
      <4>1. KindOf[rec] \in Kinds
        BY <2>2, SyncData
      <4>2. \/ pc \in {"classes", "courses"} /\ KindOf[rec] \in PeopleTypes
            \/ pc = "courses" /\ KindOf[rec] = "class"
        BY <1>1, <3>3, <4>1 DEF Kinds, Imported, PeopleTypes
      <4>3. local[rec].version >= begun[r][rec]
        BY <1>2, <1>6, <4>2 DEF RunOK, WrittenOK
      <4> QED BY <1>8, <2>2, <3>3, <4>3
    <3> QED BY <3>1, <3>2, <3>3
  <2>4. OwnOK(r)'
    <3>1. r \notin overlapped => \A rec \in Record :
            local[rec].version <= begun[r][rec] \/ local[rec].version <= proc[r].got[rec]
      BY <1>2, <1>6 DEF RunOK, OwnOK
    <3> QED BY <1>2, <1>3, <1>4, <1>7, <1>8, <3>1 DEF OwnOK
  <2> QED BY <2>1, <2>3, <2>4 DEF RunOK
<1>15. ASSUME NEW q \in Run, q # r PROVE RunOK(q)'
  <2>1. RunOK(q) /\ proc'[q] = proc[q]
    BY <1>4, <1>15 DEF IInv
  <2>2. InFlight(q) => q \in overlapped
    BY <1>6, <1>15 DEF IInv, Alone
  <2>3. (ReadOK(q) /\ PagingOK(q) /\ AtStart(q) /\ Complete(q))'
    BY <1>2, <2>1 DEF RunOK, ReadOK, PagingOK, AtStart, Complete, Got, Fresh
  <2>4. (WrittenOK(q) /\ OwnOK(q))'
    BY <1>2, <2>1, <2>2 DEF WrittenOK, OwnOK, InFlight, Writing
  <2> QED BY <2>3, <2>4 DEF RunOK
<1> QED BY <1>10, <1>11, <1>12, <1>13, <1>14, <1>15 DEF IInv

LEMMA ChangePreserves ==
    ASSUME IInv, NEW rec \in Record, Change(rec)
    PROVE  IInv'
<1>1. UNCHANGED <<local, runs, proc, begun, overlapped>>
  BY DEF Change
<1>2. /\ upstream' \in [Record -> Nat] /\ \A s \in Record : upstream'[s] <= Len(Says[s])
      /\ \A s \in Record : upstream[s] <= upstream'[s]
  <2>1. \A s \in Record : upstream'[s] = IF s = rec THEN upstream[s] + 1 ELSE upstream[s]
    BY DEF Change, IInv, TypeOK
  <2>2. Len(Says[rec]) \in Nat
    BY SyncData
  <2> QED BY <2>1, <2>2 DEF Change, IInv, TypeOK
<1>3. TypeOK'
  BY <1>1, <1>2 DEF IInv, TypeOK
<1>4. MirrorsUpstream'
  <2> SUFFICES ASSUME NEW s \in Record
               PROVE  (IF local[s].version = 0
                       THEN ~local[s].active
                       ELSE /\ local[s].version <= upstream[s]
                            /\ local[s].active = IsActive(s, local[s].version))'
    BY DEF MirrorsUpstream
  <2>1. local[s].version \in Nat /\ upstream[s] \in Nat /\ upstream'[s] \in Nat
    BY <1>2 DEF IInv, TypeOK
  <2>2. IF local[s].version = 0 THEN ~local[s].active
        ELSE local[s].version <= upstream[s] /\ local[s].active = IsActive(s, local[s].version)
    BY DEF IInv, MirrorsUpstream
  <2>3. local'[s].version = 0 => ~local'[s].active
    BY <1>1, <2>2
  <2>4. local'[s].version # 0 => /\ local'[s].version <= upstream'[s]
                                 /\ local'[s].active = IsActive(s, local'[s].version)
    BY <1>1, <1>2, <2>1, <2>2
  <2> QED BY <2>3, <2>4
<1>5. FreshWhenAlone' /\ Alone' /\ Later'
  BY <1>1 DEF IInv, FreshWhenAlone, Alone, Later, Imported, InFlight
<1>6. ASSUME NEW r \in Run PROVE RunOK(r)'
  <2>1. RunOK(r) /\ proc[r] \in Proc /\ begun[r] \in [Record -> Nat]
    BY DEF IInv, TypeOK, Proc
  <2>2. ReadOK(r)'
    BY <1>1, <1>2, <2>1 DEF RunOK, ReadOK, IInv, TypeOK, Proc
  <2>3. (PagingOK(r) /\ AtStart(r) /\ Complete(r) /\ WrittenOK(r) /\ OwnOK(r))'
    BY <1>1, <2>1 DEF RunOK, PagingOK, AtStart, Complete, WrittenOK, OwnOK, Got, Imported, Fresh
  <2> QED BY <2>2, <2>3 DEF RunOK
<1> QED BY <1>3, <1>4, <1>5, <1>6 DEF IInv

LEMMA CrashPreserves ==
    ASSUME IInv, Crash
    PROVE  IInv'
<1>1. UNCHANGED <<upstream, local, runs, begun, overlapped>>
  BY DEF Crash
<1>2. Fresh("dead") \in Proc /\ Fresh("dead").pc = "dead" /\ Fresh("dead").got = [rec \in Record |-> 0]
  BY DEF Fresh, Proc
<1>3. /\ proc' \in [Run -> Proc]
      /\ \A r \in Run : proc'[r] = IF InFlight(r) THEN Fresh("dead") ELSE proc[r]
  BY <1>2 DEF Crash, IInv, TypeOK, Proc
<1>4. TypeOK'
  <2>1. \A r \in Run : runs'[r] = "none" <=> proc'[r].pc = "idle"
    BY <1>1, <1>2, <1>3 DEF IInv, TypeOK, InFlight
  <2> QED BY <1>1, <1>3, <2>1 DEF IInv, TypeOK, Proc
<1>5. \A r \in Run : ~InFlight(r)'
  BY <1>2, <1>3 DEF InFlight
<1>6. MirrorsUpstream' /\ FreshWhenAlone' /\ Alone' /\ Later'
  BY <1>1, <1>5 DEF IInv, MirrorsUpstream, FreshWhenAlone, Alone, Later, Imported, IsActive
<1>7. ASSUME NEW r \in Run PROVE RunOK(r)'
  <2>1. CASE InFlight(r)
    <3>1. proc'[r] = Fresh("dead")
      BY <1>3, <2>1
    <3>2. ReadOK(r)'
      BY <1>1, <1>2, <3>1 DEF IInv, TypeOK, RunOK, ReadOK
    <3> QED BY <1>2, <3>1, <3>2 DEF RunOK, PagingOK, AtStart, Complete, WrittenOK, OwnOK, Writing
  <2>2. CASE ~InFlight(r)
    <3>1. RunOK(r) /\ proc'[r] = proc[r]
      BY <1>3, <2>2 DEF IInv
    <3> QED BY <1>1, <3>1 DEF RunOK, ReadOK, PagingOK, AtStart, Complete, WrittenOK, OwnOK, Got,
                              Imported, Fresh
  <2> QED BY <2>1, <2>2
<1> QED BY <1>4, <1>6, <1>7 DEF IInv

LEMMA NextPreserves == IInv /\ [Next]_vars => IInv'
<1> SUFFICES ASSUME IInv, [Next]_vars PROVE IInv'
  OBVIOUS
<1>1. ASSUME NEW r \in Run, Start(r) \/ Step(r) PROVE IInv'
  BY <1>1, StartPreserves, GetTokenPreserves, GetPagePreserves, FailPreserves, WritePreserves,
     FinishPreserves, RecordFailurePreserves DEF Step
<1>2. ASSUME NEW rec \in Record, Change(rec) PROVE IInv'
  BY <1>2, ChangePreserves
<1>3. CASE Crash
  BY <1>3, CrashPreserves
<1>4. CASE UNCHANGED vars
  <2>1. TypeOK' /\ MirrorsUpstream' /\ FreshWhenAlone' /\ Alone' /\ Later'
    BY <1>4 DEF vars, IInv, TypeOK, MirrorsUpstream, FreshWhenAlone, Alone, Later, IsActive,
                Imported, InFlight
  <2>2. ASSUME NEW r \in Run PROVE RunOK(r)'
    <3>1. RunOK(r)
      BY DEF IInv
    <3> QED BY <1>4, <3>1 DEF vars, RunOK, ReadOK, PagingOK, AtStart, Complete, WrittenOK, OwnOK,
                              Got, Imported, Fresh
  <2> QED BY <2>1, <2>2 DEF IInv
<1> QED BY <1>1, <1>2, <1>3, <1>4 DEF Next

THEOREM Invariance == Spec => []IInv
<1>1. Init => IInv
  BY InitInv
<1>2. IInv /\ [Next]_vars => IInv'
  BY NextPreserves
<1> QED BY <1>1, <1>2, PTL DEF Spec
--------------------------------------------------------------------------------
\* Types and bounds of every variable; a run has a row as soon as it has begun.
THEOREM TypeCorrect == Spec => []TypeOK
<1>1. IInv => TypeOK
  BY DEF IInv
<1> QED BY <1>1, Invariance, PTL

\* Rows hold what EduPlus said of their record at some time, whatever runs
\* overlap, fail or die between two of their transactions.
THEOREM Mirrors == Spec => []MirrorsUpstream
<1>1. IInv => MirrorsUpstream
  BY DEF IInv
<1> QED BY <1>1, Invariance, PTL

\* A run that met no other one and ended PARTIAL has left nothing its caller may
\* see older than its beginning, for any number of types, pages and runs.
THEOREM Fresher == Spec => []FreshWhenAlone
<1>1. IInv => FreshWhenAlone
  BY DEF IInv
<1> QED BY <1>1, Invariance, PTL

\* A row goes back only by the write of a run that overlapped another one.
THEOREM NoLostUpdateAlone == Spec => BackOnlyUnderOverlap
<1> DEFINE A == \A rec \in Record : local'[rec].version < local[rec].version =>
                  \E r \in overlapped : proc[r].pc \in Writing /\ proc'[r].pc # proc[r].pc
<1>1. IInv /\ [Next]_vars => [A]_vars
  <2> SUFFICES ASSUME IInv, Next, NEW rec \in Record, local'[rec].version < local[rec].version
               PROVE  \E r \in overlapped : proc[r].pc \in Writing /\ proc'[r].pc # proc[r].pc
    OBVIOUS
  <2>1. local[rec].version \in Nat
    BY DEF IInv, TypeOK
  <2>2. local' # local
    BY <2>1
  <2>3. PICK r \in Run : SyncPeople(r) \/ SyncClasses(r) \/ SyncCourses(r)
    BY <2>2 DEF Next, Start, Step, GetToken, GetPage, Fail, Finish, RecordFailure, Change, Crash
  <2>4. PICK pc, kinds, next :
          Write(r, pc, kinds, next) /\ pc \in Writing /\ next # pc
    BY <2>3 DEF SyncPeople, SyncClasses, SyncCourses, Writing
  <2>5. proc[r].pc = pc /\ proc'[r].pc = next
    BY <2>4 DEF Write, Goto, IInv, TypeOK
  <2>6. rec \in Listed(r, kinds) /\ local'[rec].version = proc[r].got[rec] /\ proc[r].got[rec] > 0
    BY <2>2, <2>1, <2>4 DEF Write, Upserted, Listed, Read
  <2>7. proc[r].got[rec] >= begun[r][rec]
    BY <2>6 DEF IInv, RunOK, ReadOK
  <2>8. r \notin overlapped =>
          local[rec].version <= begun[r][rec] \/ local[rec].version <= proc[r].got[rec]
    BY <2>4, <2>5 DEF IInv, RunOK, OwnOK
  <2>9. r \in overlapped
    <3>1. begun[r][rec] \in Nat /\ proc[r].got[rec] \in Nat
      BY DEF IInv, TypeOK
    <3> QED BY <2>1, <2>6, <2>7, <2>8, <3>1
  <2> QED BY <2>4, <2>5, <2>9
<1>2. Spec => [][A]_vars
  BY <1>1, Invariance, PTL DEF Spec
<1> QED BY <1>2 DEF BackOnlyUnderOverlap

================================================================================
