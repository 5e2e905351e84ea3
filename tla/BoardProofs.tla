----------------------------- MODULE BoardProofs -----------------------------
(***************************************************************************)
(* What holds of Board for any number of handlers, amounts and faults.     *)
(*                                                                         *)
(* The argument: while no creation has failed, whoever waits for the lock *)
(* with a row of the ledger knows its board, or is a read that was outrun; *)
(* a tap has a message to be made on, and a read sees balances only once   *)
(* the first write, which creates the board, has committed.  All others    *)
(* look under the lock, and create a board only where there is none.       *)
(***************************************************************************)
EXTENDS Board, SequenceTheorems, TLAPS

Calm       == mishaps \cap {"create", "rollback"} = {}
Clean      == mishaps \cap {"create", "rollback", "outrun"} = {}
Minting(h) == stage[h] = "minting"
Working(h) == stage[h] = "working"

\* What is pinned was recorded.
PinsRecorded ==
  /\ pinned \subseteq recorded
  /\ \A h \in Handlers : job[h].out.pin \in {0} \cup recorded

\* Only a handler that is sending has something to send, and only one that works
\* has a new board; taps and reads load the row before they wait for the lock.
JobsTidy ==
  \A h \in Handlers :
    /\ stage[h] # "sending" => job[h].out = NoEdits
    /\ stage[h] = "sending" => job[h].out.sheet \/ job[h].out.edit # 0 \/ job[h].out.pin # 0
    /\ job[h].sent # 0 => Working(h)
    /\ job[h].op \in {"read"} \cup Taps => job[h].row # Fresh
    /\ stage[h] = "loading" => job[h].op = "read"

\* Nothing shows what is not committed yet.
VersionsPast == \A h \in Handlers : job[h].out.version <= version

\* h acts, or will, by a row that it loaded before it had the lock.
Bound(h) == job[h].row # Fresh /\ stage[h] # "loading"

\* There is no board: nothing is owed or shown, and nobody knows of a board but
\* the handler that has just sent it.
Boardless ==
  /\ due = 0 /\ sheet = 0 /\ version = 0
  /\ \A h \in Handlers : ~ Bound(h) /\ ~ job[h].out.sheet /\ job[h].out.edit = 0
  /\ Len(boards) # 0 => \E h \in Handlers : job[h].sent # 0

\* While no creation has failed.
BoardSound ==
  /\ \A m \in Messages : boards[m].open
  /\ board = 0 => Boardless
  /\ \A h \in Handlers :
       /\ Bound(h) => job[h].row.board # 0 \/ job[h].op = "read"
       /\ Minting(h) => OpenAfter(h)
       /\ Working(h) /\ job[h].op = "write" => board # 0 \/ job[h].sent # 0

\* While no read was outrun, either.
BoardOnce ==
  /\ Len(boards) <= 1
  /\ \A h \in Handlers :
       /\ Bound(h) => job[h].row.board = 1
       /\ Minting(h) => Len(boards) = 0
       /\ job[h].sent # 0 => board = 0 /\ boards[1].version = VersionAfter(h)

IInv == /\ TypeOK /\ NeverOverpaid /\ PinsRecorded /\ JobsTidy /\ VersionsPast
        /\ Calm => BoardSound
        /\ Clean => BoardOnce
        /\ BoardCatchesUp

LEMMA CleanIsCalm == (Clean => Calm) /\ (mishaps = {} => Clean)
BY DEF Clean, Calm

LEMMA JobFields ==
  ASSUME TypeOK, NEW h \in Handlers
  PROVE  /\ job[h] \in Job /\ job[h].op \in {"none", "read"} \cup Writes \cup Taps
         /\ job[h].token \in Amounts /\ job[h].sent \in 0 .. Len(boards)
         /\ job[h].row = Fresh \/ job[h].row.board \in 0 .. Len(boards)
         /\ job[h].row \in {Fresh} \cup LedgerRow
         /\ job[h].out \in Edits
BY DEF TypeOK, Job, LedgerRow

LEMMA OneLock ==
  ASSUME TypeOK, NEW h \in Handlers, Locked(h)
  PROVE  lock = {h} /\ \A k \in Handlers : k # h => ~ Locked(k)
BY DEF TypeOK

LEMMA NoLock ==
  ASSUME TypeOK, lock = {} PROVE \A k \in Handlers : ~ Locked(k)
BY DEF TypeOK

\* What a handler that commits leaves.
LEMMA AfterCommit ==
  ASSUME TypeOK, NeverOverpaid, NEW h \in Handlers
  PROVE  /\ DueAfter(h) >= 0 /\ DueAfter(h) \in Balances
         /\ VersionAfter(h) \in Nat
         /\ OpenAfter(h) \in BOOLEAN
         /\ DueAfter(h) # due => job[h].op = "write" \/ (job[h].op \in Taps /\ Matches(h))
<1>1. MaxDue \in Nat /\ due \in 0 .. MaxDue /\ job[h].token \in 0 .. MaxDue
  BY JobFields, BoardAssumption DEF TypeOK, NeverOverpaid, Amounts, Balances
<1>2. DueAfter(h) \in 0 .. MaxDue
  BY <1>1 DEF DueAfter, Matches
<1>3. DueAfter(h) # due => job[h].op = "write" \/ (job[h].op \in Taps /\ Matches(h))
  BY DEF DueAfter
<1>4. VersionAfter(h) \in Nat
  BY DEF VersionAfter, TypeOK
<1>5. OpenAfter(h) \in BOOLEAN
  BY Zenon DEF OpenAfter, TypeOK
<1> QED BY <1>1, <1>2, <1>3, <1>4, <1>5 DEF Balances

LEMMA NoEditsType == ASSUME TypeOK PROVE NoEdits \in Edits
<1>1. Len(boards) \in Nat
  BY LenProperties DEF TypeOK
<1> QED BY <1>1, BoardAssumption DEF NoEdits, Edits, Balances

LEMMA LeftStep ==
  ASSUME TypeOK, NEW h \in Handlers, NEW out \in Edits, Left(h, out)
  PROVE  /\ stage' \in [Handlers -> Stages] /\ job' \in [Handlers -> Job]
         /\ stage'[h] \in {"idle", "sending"}
         /\ job'[h].op = "none" /\ job'[h].row = Fresh /\ job'[h].sent = 0
         /\ job'[h].out.sheet = out.sheet /\ job'[h].out.edit = out.edit
         /\ job'[h].out.pin = out.pin
         /\ job'[h].out = out \/ (job'[h].out = NoEdits /\ out.edit = 0)
         /\ stage'[h] # "sending" => job'[h].out = NoEdits
         /\ stage'[h] = "sending" => out.sheet \/ out.edit # 0 \/ out.pin # 0
         /\ \A k \in Handlers : k # h => stage'[k] = stage[k] /\ job'[k] = job[k]
<1>1. Len(boards) \in Nat /\ 0 \in Amounts
  BY LenProperties, BoardAssumption DEF TypeOK, Amounts
<1>2. NoJob \in Job /\ [NoJob EXCEPT !.out = out] \in Job
  BY <1>1, NoEditsType DEF NoJob, Job
<1>3. /\ out.sheet \in BOOLEAN
      /\ NoEdits.sheet = FALSE /\ NoEdits.edit = 0 /\ NoEdits.pin = 0
  BY DEF Edits, NoEdits
<1>4. /\ NoJob.op = "none" /\ NoJob.row = Fresh /\ NoJob.sent = 0 /\ NoJob.out = NoEdits
      /\ [NoJob EXCEPT !.out = out].op = "none" /\ [NoJob EXCEPT !.out = out].row = Fresh
      /\ [NoJob EXCEPT !.out = out].sent = 0 /\ [NoJob EXCEPT !.out = out].out = out
  BY DEF NoJob
<1>5. "idle" \in Stages /\ "sending" \in Stages
  BY DEF Stages
<1> DEFINE done == ~ out.sheet /\ out.edit = 0 /\ out.pin = 0
<1>6. CASE done
  <2>1. stage' = [stage EXCEPT ![h] = "idle"] /\ job' = [job EXCEPT ![h] = NoJob]
    BY <1>6 DEF Left
  <2> QED BY <1>2, <1>3, <1>4, <1>5, <1>6, <2>1 DEF TypeOK
<1>7. CASE ~ done
  <2>1. /\ stage' = [stage EXCEPT ![h] = "sending"]
        /\ job' = [job EXCEPT ![h] = [NoJob EXCEPT !.out = out]]
    BY <1>7 DEF Left
  <2> QED BY <1>2, <1>3, <1>4, <1>5, <1>7, <2>1 DEF TypeOK, NoJob
<1> QED BY <1>6, <1>7

\* The types of a handler's job depend on the boards there are: none is lost.
LEMMA JobGrows ==
  ASSUME TypeOK, boards' \in Seq(Message), Len(boards) <= Len(boards')
  PROVE  Job \subseteq Job' /\ Messages \subseteq Messages' /\ Edits \subseteq Edits'
<1>1. Len(boards) \in Nat /\ Len(boards') \in Nat
  BY LenProperties DEF TypeOK
<1>2. 0 .. Len(boards) \subseteq 0 .. Len(boards') /\ Messages \subseteq Messages'
  BY <1>1 DEF Messages
<1>3. LedgerRow \subseteq LedgerRow' /\ Edits \subseteq Edits'
  BY <1>2 DEF LedgerRow, Edits
<1>4. Job \subseteq Job'
  BY <1>2, <1>3 DEF Job
<1> QED BY <1>2, <1>3, <1>4

LEMMA FaultStep ==
  ASSUME TypeOK, NEW what \in Mishaps, GoesWrong(what)
  PROVE  faults' \in 0 .. MaxFaults /\ mishaps' \subseteq Mishaps
         /\ what \in mishaps' /\ mishaps \subseteq mishaps' /\ mishaps' = mishaps \cup {what}
BY BoardAssumption DEF TypeOK, GoesWrong, Mishaps

LEMMA InitIInv == Init => IInv
<1> SUFFICES ASSUME Init PROVE IInv
  OBVIOUS
<1>1. boards = <<>> /\ boards \in Seq(Message) /\ Len(boards) = 0
  BY DEF Init
<1>2. NoJob \in Job
  BY <1>1, BoardAssumption DEF NoJob, Job, NoEdits, Edits, Amounts, Balances
<1>3. /\ NoJob.row = Fresh /\ NoJob.sent = 0 /\ NoJob.op = "none" /\ NoJob.out = NoEdits
      /\ NoEdits.pin = 0 /\ NoEdits.edit = 0 /\ NoEdits.sheet = FALSE
  BY DEF NoJob, NoEdits
<1>4. TypeOK
  BY <1>1, <1>2, BoardAssumption DEF Init, TypeOK, Stages, Locked, Balances
<1>5. NeverOverpaid /\ BoardCatchesUp /\ PinsRecorded
  BY <1>3 DEF Init, NeverOverpaid, BoardCatchesUp, PinsRecorded
<1>6. JobsTidy /\ VersionsPast
  BY <1>3 DEF Init, JobsTidy, VersionsPast, Taps, NoEdits
<1>7. BoardSound /\ BoardOnce
  BY <1>1, <1>3 DEF Init, BoardSound, BoardOnce, Boardless, Bound, Messages, Minting,
                    Working
<1> QED BY <1>4, <1>5, <1>6, <1>7 DEF IInv

-----------------------------------------------------------------------------
(* Before the lock *)

LEMMA SameAfter ==
  ASSUME NEW k \in Handlers, UNCHANGED ledger,
         job'[k].op = job[k].op, job'[k].token = job[k].token
  PROVE  /\ DueAfter(k)' = DueAfter(k) /\ VersionAfter(k)' = VersionAfter(k)
         /\ OpenAfter(k)' = OpenAfter(k)
<1>1. due' = due /\ open' = open /\ version' = version
  BY DEF ledger
<1>2. DueAfter(k)' = DueAfter(k)
  BY <1>1 DEF DueAfter, Matches
<1>3. OpenAfter(k)' = OpenAfter(k)
  BY <1>1 DEF OpenAfter
<1> QED BY <1>1, <1>2, <1>3 DEF VersionAfter

LEMMA SameTypes ==
  ASSUME boards' = boards
  PROVE  Job' = Job /\ Messages' = Messages /\ Edits' = Edits
BY DEF Job, Messages, Edits, LedgerRow

\* A handler that does not have the lock goes on, is refused or has nothing to do:
\* while no creation failed there is a board if it is bound by the row it loaded.
LEMMA BeforeLock ==
  ASSUME IInv, NEW h \in Handlers, stage[h] \in {"idle", "loading", "waiting"},
         NEW s \in {"idle", "loading", "waiting"}, NEW j \in Job,
         stage' = [stage EXCEPT ![h] = s], job' = [job EXCEPT ![h] = j],
         j.sent = 0, j.out = NoEdits, j.op \in {"read"} \cup Taps => j.row # Fresh,
         s = "loading" => j.op = "read",
         UNCHANGED <<ledger, lock, chat, recorded, faults>>, begun' \in 0 .. MaxJobs,
         mishaps' \subseteq Mishaps, mishaps \subseteq mishaps',
         j.row # Fresh /\ s # "loading" =>
           /\ Calm' => board # 0 /\ (j.row.board # 0 \/ j.op = "read")
           /\ Clean' => j.row.board = 1
  PROVE  IInv'
<1>1. /\ lock' = lock /\ boards' = boards /\ sheet' = sheet
      /\ pinned' = pinned /\ recorded' = recorded /\ faults' = faults
      /\ due' = due /\ open' = open /\ board' = board
      /\ version' = version /\ UNCHANGED ledger
  BY DEF ledger, chat
<1>2. /\ stage' \in [Handlers -> Stages] /\ job' \in [Handlers -> Job]
      /\ stage'[h] = s /\ job'[h] = j
      /\ \A k \in Handlers : k # h => stage'[k] = stage[k] /\ job'[k] = job[k]
  BY DEF IInv, TypeOK, Stages
<1>3. NoEdits.sheet = FALSE /\ NoEdits.edit = 0 /\ NoEdits.pin = 0 /\ NoEdits.version = 0
  BY DEF NoEdits
<1>4. job[h].out = NoEdits /\ job[h].sent = 0
  BY DEF IInv, JobsTidy, Working
<1>5. TypeOK'
  <2>1. Job' = Job /\ Messages' = Messages
    BY <1>1, SameTypes
  <2>2. \A k \in Handlers : Locked(k)' <=> Locked(k)
    BY <1>2 DEF Locked
  <2> QED BY <1>1, <1>2, <2>1, <2>2 DEF IInv, TypeOK
<1>6. NeverOverpaid'
  BY <1>1 DEF IInv, NeverOverpaid
<1>7. PinsRecorded'
  BY <1>1, <1>2, <1>3 DEF IInv, PinsRecorded
<1>8. JobsTidy'
  BY <1>2, <1>3 DEF IInv, JobsTidy, Working
<1>9. VersionsPast'
  BY <1>1, <1>2, <1>3 DEF IInv, VersionsPast, TypeOK
<1>10. \A k \in Handlers : k # h => /\ OpenAfter(k)' = OpenAfter(k)
                                   /\ VersionAfter(k)' = VersionAfter(k)
  BY <1>1, <1>2, SameAfter
<1>11. ~ Minting(h)' /\ ~ Working(h)'
  BY <1>2 DEF Minting, Working
<1>12. (Calm => BoardSound)'
  <2> SUFFICES ASSUME Calm' PROVE BoardSound'
    OBVIOUS
  <2>1. BoardSound
    BY DEF Calm, IInv
  <2>2. (board = 0 => Boardless)'
    BY <1>1, <1>2, <1>3, <1>4, <2>1 DEF BoardSound, Boardless, Bound
  <2>3. ASSUME NEW k \in Handlers
        PROVE  /\ Bound(k)' => job'[k].row.board # 0 \/ job'[k].op = "read"
               /\ Minting(k)' => OpenAfter(k)'
               /\ Working(k)' /\ job'[k].op = "write" => board' # 0 \/ job'[k].sent # 0
    <3>1. CASE k = h
      BY <1>2, <1>11, <3>1 DEF Bound
    <3>2. CASE k # h
      BY <1>1, <1>2, <1>10, <2>1, <3>2 DEF BoardSound, Bound, Minting, Working
    <3> QED BY <3>1, <3>2
  <2> QED BY <1>1, <2>1, <2>2, <2>3 DEF BoardSound, Messages
<1>13. (Clean => BoardOnce)'
  <2> SUFFICES ASSUME Clean' PROVE BoardOnce'
    OBVIOUS
  <2>1. BoardOnce
    BY DEF Clean, IInv
  <2>2. ASSUME NEW k \in Handlers
        PROVE  /\ Bound(k)' => job'[k].row.board = 1
               /\ Minting(k)' => Len(boards') = 0
               /\ job'[k].sent # 0 => board' = 0 /\ boards'[1].version = VersionAfter(k)'
    <3>1. CASE k = h
      BY <1>2, <1>11, <3>1 DEF Bound
    <3>2. CASE k # h
      BY <1>1, <1>2, <1>10, <2>1, <3>2 DEF BoardOnce, Bound, Minting
    <3> QED BY <3>1, <3>2
  <2> QED BY <1>1, <2>1, <2>2 DEF BoardOnce
<1>14. BoardCatchesUp'
  <2> SUFFICES ASSUME mishaps' = {}, version' > 0
               PROVE  \/ boards'[board'].version = version'
                      \/ \E k \in Handlers : job'[k].out.edit = board'
                                             /\ job'[k].out.version = version'
    BY DEF BoardCatchesUp
  <2>1. \/ boards[board].version = version
        \/ \E k \in Handlers : job[k].out.edit = board /\ job[k].out.version = version
    BY <1>1 DEF IInv, BoardCatchesUp
  <2> QED BY <1>1, <1>2, <1>4, <2>1
<1> QED BY <1>5, <1>6, <1>7, <1>8, <1>9, <1>12, <1>13, <1>14 DEF IInv

LEMMA NoJobType ==
  ASSUME TypeOK
  PROVE  /\ NoJob \in Job /\ NoJob.op = "none" /\ NoJob.row = Fresh
         /\ NoJob.sent = 0 /\ NoJob.out = NoEdits
<1>1. Len(boards) \in Nat /\ 0 \in Amounts
  BY LenProperties, BoardAssumption DEF TypeOK, Amounts
<1> QED BY <1>1, NoEditsType DEF NoJob, Job

\* What a handler that loads the row knows of the board, while no creation failed.
LEMMA RowNamesBoard ==
  ASSUME IInv, NEW b \in 0 .. Len(boards), b # 0
  PROVE  Clean => b = 1
<1>1. Len(boards) \in Nat
  BY LenProperties DEF IInv, TypeOK
<1> QED BY <1>1 DEF IInv, BoardOnce

LEMMA BeginStep ==
  ASSUME IInv, NEW h \in Handlers, NEW op \in {"read"} \cup Writes \cup Taps,
         NEW token \in Amounts, NEW row \in {Fresh} \cup LedgerRow,
         op \in {"read"} \cup Taps => row # Fresh,
         row # Fresh => row = LoadedRow,
         op \in Taps => (Calm => board # 0), op \in Writes => row = Fresh,
         Begin(h, op, token, row)
  PROVE  IInv'
<1> DEFINE j == Waiting(op, token, row)
<1>1. /\ j \in Job /\ j.op = op /\ j.row = row /\ j.sent = 0 /\ j.out = NoEdits
  <2>1. NoEdits \in Edits /\ Len(boards) \in Nat
    BY NoEditsType, LenProperties DEF IInv, TypeOK
  <2> QED BY <2>1 DEF Waiting, NoJob, Job
<1> DEFINE s == FirstStage(op)
<1>2. s \in {"idle", "loading", "waiting"} /\ (s = "loading" <=> op = "read")
  BY DEF FirstStage
<1>3. /\ stage[h] = "idle" /\ stage' = [stage EXCEPT ![h] = s]
      /\ job' = [job EXCEPT ![h] = j]
      /\ UNCHANGED <<ledger, lock, chat, recorded, faults>> /\ mishaps' = mishaps
  BY DEF Begin, NothingWrong
<1>4. begun' \in 0 .. MaxJobs /\ mishaps' \subseteq Mishaps
  BY BoardAssumption DEF IInv, TypeOK, Begin, NothingWrong
<1>5. row # Fresh /\ s # "loading" =>
        /\ Calm' => board # 0 /\ row.board # 0
        /\ Clean' => row.board = 1
  <2> SUFFICES ASSUME row # Fresh, s # "loading", Calm'
               PROVE  board # 0 /\ row.board # 0 /\ (Clean' => row.board = 1)
    BY DEF Calm, Clean
  <2>1. board # 0 /\ row.board = board
    BY <1>2, <1>3 DEF Calm, LoadedRow
  <2>2. Clean' => board = 1
    BY <1>3, <2>1, RowNamesBoard DEF IInv, TypeOK, Clean
  <2> QED BY <2>1, <2>2
<1> HIDE DEF j, s
<1> QED BY <1>1, <1>2, <1>3, <1>4, <1>5, BeforeLock

LEMMA LoadStep == ASSUME IInv, NEW h \in Handlers, Load(h) PROVE IInv'
<1>1. CASE FetchRates(h)
  <2>1. /\ stage[h] = "loading" /\ stage' = [stage EXCEPT ![h] = "waiting"]
        /\ version > 0 /\ UNCHANGED <<ledger, lock, chat, recorded, faults>>
        /\ job' = [job EXCEPT ![h] = job[h]] /\ begun' = begun
        /\ mishaps' = IF job[h].row.board = 0 /\ board # 0
                      THEN mishaps \cup {"outrun"} ELSE mishaps
    BY <1>1 DEF FetchRates, IInv, TypeOK
  <2>2. mishaps' \subseteq Mishaps /\ mishaps \subseteq mishaps' /\ begun' \in 0 .. MaxJobs
    BY <2>1 DEF IInv, TypeOK, Mishaps
  <2>3. job[h].sent = 0 /\ job[h].out = NoEdits
        /\ (job[h].op \in {"read"} \cup Taps => job[h].row # Fresh)
    BY <2>1 DEF IInv, JobsTidy, Working
  <2>4. job[h] \in Job /\ job[h].row \in {Fresh} \cup LedgerRow
    BY JobFields DEF IInv
  <2>5. ASSUME job[h].row # Fresh, Calm'
        PROVE  board # 0 /\ (job[h].row.board # 0 \/ job[h].op = "read")
    BY <2>1, <2>5 DEF IInv, JobsTidy, Calm, BoardSound, Boardless
  <2>6. ASSUME job[h].row # Fresh, Clean' PROVE job[h].row.board = 1
    <3>1. Clean /\ board # 0
      BY <2>1, <2>5, <2>6 DEF Clean, Calm
    <3>2. job[h].row.board # 0
      BY <2>1, <2>6, <3>1 DEF Clean
    <3> QED BY <2>4, <2>6, <3>1, <3>2, RowNamesBoard DEF LedgerRow
  <2> QED BY <2>1, <2>2, <2>3, <2>4, <2>5, <2>6, BeforeLock
<1>2. CASE FetchNothing(h)
  <2>1. /\ stage[h] = "loading" /\ stage' = [stage EXCEPT ![h] = "idle"]
        /\ job' = [job EXCEPT ![h] = NoJob] /\ begun' = begun /\ mishaps' = mishaps
        /\ UNCHANGED <<ledger, lock, chat, recorded, faults>>
    BY <1>2 DEF FetchNothing, NothingWrong
  <2>2. begun' \in 0 .. MaxJobs /\ mishaps' \subseteq Mishaps
    BY <2>1 DEF IInv, TypeOK
  <2> QED BY <2>1, <2>2, NoJobType, BeforeLock DEF IInv, Taps
<1> QED BY <1>1, <1>2 DEF Load

LEMMA ArriveStep == ASSUME IInv, NEW h \in Handlers, Arrive(h) PROVE IInv'
<1>1. /\ {"write", "archive", "reopen"} \cup {"read", "board", "sheet"}
            = {"read"} \cup Writes \cup Taps
      /\ \A op \in {"write", "archive", "reopen"} : op \notin {"read"} \cup Taps
      /\ \A op \in {"read", "board", "sheet"} : op \notin Writes
      /\ "read" \notin Taps /\ 0 \in Amounts
  BY BoardAssumption DEF Writes, Taps, Amounts
<1>2. LoadedRow \in LedgerRow /\ LoadedRow # Fresh
  <2>1. board \in 0 .. Len(boards) /\ Len(boards) \in Nat /\ open \in BOOLEAN
    BY LenProperties DEF IInv, TypeOK
  <2> QED BY <2>1 DEF LoadedRow, LedgerRow, Fresh
<1>3. sheet > 0 => (Calm => board # 0)
  BY DEF IInv, BoardSound, Boardless
<1>4. CASE \E token \in Amounts : Begin(h, "write", token, Fresh)
  BY <1>1, <1>4, BeginStep
<1>5. CASE Archive(h) \/ Reopen(h)
  BY <1>1, <1>5, BeginStep DEF Archive, Reopen, RowOfWrite
<1>6. CASE Read(h)
  BY <1>1, <1>2, <1>3, <1>6, BeginStep DEF Read
<1>7. CASE TapBoard(h)
  <2>1. boards[board] \in Message /\ board # 0
    <3>1. Len(boards) \in Nat /\ board \in 1 .. Len(boards) /\ boards \in Seq(Message)
      BY <1>7, LenProperties DEF IInv, TypeOK, TapBoard
    <3> QED BY <3>1, ElementOfSeq
  <2>2. boards[board].shown \in Amounts
    BY <1>7, <2>1, BoardAssumption DEF TapBoard, Message, Balances, Amounts
  <2> QED BY <1>1, <1>2, <1>7, <2>1, <2>2, BeginStep DEF TapBoard
<1>8. CASE TapSheet(h)
  <2>1. sheet \in Amounts
    BY <1>8, BoardAssumption DEF TapSheet, IInv, TypeOK, Balances, Amounts
  <2> QED BY <1>1, <1>2, <1>3, <1>8, <2>1, BeginStep DEF TapSheet
<1> QED BY <1>4, <1>5, <1>6, <1>7, <1>8 DEF Arrive, Write, RowOfWrite

LEMMA ShowSheetStep == ASSUME IInv, ShowSheet PROVE IInv'
<1>1. /\ stage' = stage /\ job' = job /\ lock' = lock /\ boards' = boards
      /\ sheet' = due /\ due > 0 /\ pinned' = pinned /\ recorded' = recorded
      /\ faults' = faults /\ mishaps' = mishaps /\ due' = due /\ open' = open
      /\ board' = board /\ version' = version /\ UNCHANGED ledger
  BY DEF ShowSheet, ledger, NothingWrong
<1>2. TypeOK'
  <2>1. begun' \in 0 .. MaxJobs
    BY BoardAssumption DEF IInv, TypeOK, ShowSheet
  <2>2. Job' = Job /\ Messages' = Messages
    BY <1>1, SameTypes
  <2> QED BY <1>1, <2>1, <2>2 DEF IInv, TypeOK, Locked
<1>3. NeverOverpaid' /\ PinsRecorded' /\ JobsTidy' /\ VersionsPast' /\ BoardCatchesUp'
  BY <1>1 DEF IInv, NeverOverpaid, PinsRecorded, JobsTidy, Working, VersionsPast,
              BoardCatchesUp
<1>4. (Calm => BoardSound)' /\ (Clean => BoardOnce)'
  <2>1. \A k \in Handlers : /\ OpenAfter(k)' = OpenAfter(k)
                            /\ VersionAfter(k)' = VersionAfter(k)
    BY <1>1, SameAfter
  <2>2. Calm => BoardSound /\ board # 0
    BY <1>1 DEF IInv, BoardSound, Boardless
  <2>3. (Calm => BoardSound)'
    BY <1>1, <2>1, <2>2 DEF BoardSound, Bound, Calm, Messages, Minting, Working
  <2>4. (Clean => BoardOnce)'
    BY <1>1, <2>1 DEF IInv, BoardOnce, Bound, Clean, Minting
  <2> QED BY <2>3, <2>4
<1> QED BY <1>2, <1>3, <1>4 DEF IInv

-----------------------------------------------------------------------------
(* Under the lock *)

LEMMA EnterStep == ASSUME IInv, NEW h \in Handlers, Enter(h), Applies(h) PROVE IInv'
<1>1. /\ stage[h] = "waiting" /\ lock = {} /\ lock' = {h}
      /\ job' = job /\ boards' = boards /\ sheet' = sheet /\ pinned' = pinned
      /\ recorded' = recorded /\ begun' = begun /\ faults' = faults
      /\ mishaps' = mishaps /\ due' = due /\ open' = open /\ board' = board
      /\ version' = version /\ UNCHANGED ledger
  BY DEF Enter, ledger, chat, NothingWrong
<1>2. \A k \in Handlers : ~ Minting(k) /\ ~ Working(k)
  BY <1>1, NoLock DEF IInv, Locked, Minting, Working
<1>3. /\ stage' \in [Handlers -> Stages]
      /\ \A k \in Handlers : k # h => stage'[k] = stage[k]
      /\ \/ Mints(h) /\ stage'[h] = "minting"
         \/ ~ Mints(h) /\ stage'[h] = "working"
  BY <1>1 DEF Enter, IInv, TypeOK, Stages
<1>4. TypeOK'
  <2>1. Job' = Job /\ Messages' = Messages
    BY <1>1, SameTypes
  <2>2. \A k \in Handlers : Locked(k)' <=> lock' = {k}
    <3>1. \A k \in Handlers : k # h => ~ Locked(k)'
      BY <1>2, <1>3 DEF Locked, Minting, Working
    <3>2. Locked(h)'
      BY <1>3 DEF Locked
    <3> QED BY <1>1, <3>1, <3>2
  <2> QED BY <1>1, <1>3, <2>1, <2>2 DEF IInv, TypeOK
<1>5. NeverOverpaid' /\ PinsRecorded' /\ VersionsPast' /\ BoardCatchesUp'
  BY <1>1 DEF IInv, NeverOverpaid, PinsRecorded, VersionsPast, BoardCatchesUp
<1>6. JobsTidy'
  BY <1>1, <1>2, <1>3 DEF IInv, JobsTidy, Working
<1>7. \A k \in Handlers : job[k].sent = 0 /\ (Bound(k)' <=> Bound(k))
  BY <1>1, <1>2, <1>3 DEF IInv, JobsTidy, Bound
<1>8. (Calm => BoardSound)'
  <2> SUFFICES ASSUME Calm' PROVE BoardSound'
    OBVIOUS
  <2>1. BoardSound
    BY <1>1 DEF IInv, Calm
  <2>2. OpenAfter(h)' = OpenAfter(h)
    BY <1>1, SameAfter
  <2>3. ASSUME Minting(h)' PROVE OpenAfter(h)
    <3>1. Syncs(h) /\ Row(h).board = 0 /\ Row(h).open
      BY <1>3, <2>3 DEF Minting, Mints
    <3>2. job[h].row = Fresh \/ job[h].op = "read"
      BY <1>1, <2>1, <3>1 DEF Row, BoardSound, Bound
    <3> QED BY <3>1, <3>2 DEF Row, Syncs, OpenAfter
  <2>4. ASSUME Working(h)', job[h].op = "write" PROVE board # 0
    <3> SUFFICES ASSUME board = 0 PROVE FALSE
      OBVIOUS
    <3>1. job[h].row = Fresh /\ version = 0
      BY <1>1, <2>1 DEF BoardSound, Boardless, Bound
    <3>2. open = TRUE
      BY <2>4, <3>1 DEF Applies, Toggles, IInv, TypeOK
    <3>3. Row(h).board = 0 /\ Row(h).open
      BY <2>4, <3>1, <3>2 DEF Row, OpenAfter
    <3>4. Mints(h)
      BY <2>4, <3>3 DEF Mints, Syncs
    <3> QED BY <1>3, <2>4, <3>4 DEF Working
  <2>5. ASSUME NEW k \in Handlers
        PROVE  /\ Bound(k)' => job[k].row.board # 0 \/ job[k].op = "read"
               /\ Minting(k)' => OpenAfter(k)'
               /\ Working(k)' /\ job[k].op = "write" => board # 0
    <3>1. CASE k = h
      BY <1>7, <2>1, <2>2, <2>3, <2>4, <3>1 DEF BoardSound
    <3>2. CASE k # h
      BY <1>2, <1>3, <1>7, <2>1, <3>2 DEF BoardSound, Minting, Working
    <3> QED BY <3>1, <3>2
  <2>6. \A m \in Messages' : boards'[m].open
    BY <1>1, <2>1 DEF BoardSound, Messages
  <2>7. (board = 0 => Boardless)'
    BY <1>1, <1>7, <2>1 DEF BoardSound, Boardless
  <2> QED BY <1>1, <2>5, <2>6, <2>7 DEF BoardSound
<1>9. (Clean => BoardOnce)'
  <2> SUFFICES ASSUME Clean' PROVE BoardOnce'
    OBVIOUS
  <2>1. BoardOnce /\ BoardSound
    BY <1>1 DEF IInv, Clean, Calm
  <2>2. board = 0 => Len(boards) = 0
    BY <1>7, <2>1 DEF BoardSound, Boardless
  <2>3. ASSUME Minting(h)' PROVE Len(boards) = 0
    <3>1. Row(h).board = 0
      BY <1>3, <2>3 DEF Minting, Mints
    <3>2. job[h].row = Fresh
      BY <1>1, <2>1, <3>1 DEF Row, BoardOnce, Bound
    <3> QED BY <2>2, <3>1, <3>2 DEF Row
  <2>4. ASSUME NEW k \in Handlers
        PROVE  /\ Bound(k)' => job[k].row.board = 1
               /\ Minting(k)' => Len(boards) = 0
    <3>1. CASE k = h
      BY <1>7, <2>1, <2>3, <3>1 DEF BoardOnce
    <3>2. CASE k # h
      BY <1>2, <1>3, <1>7, <2>1, <3>2 DEF BoardOnce, Minting
    <3> QED BY <3>1, <3>2
  <2> QED BY <1>1, <1>7, <2>1, <2>4 DEF BoardOnce
<1> QED BY <1>4, <1>5, <1>6, <1>8, <1>9 DEF IInv

LEMMA RefusedStep == ASSUME IInv, NEW h \in Handlers, Enter(h), ~ Applies(h) PROVE IInv'
<1>1. /\ stage[h] = "waiting" /\ stage' = [stage EXCEPT ![h] = "idle"]
      /\ job' = [job EXCEPT ![h] = NoJob] /\ begun' = begun /\ mishaps' = mishaps
      /\ UNCHANGED <<ledger, lock, chat, recorded, faults>>
  BY DEF Enter, NothingWrong
<1>2. begun' \in 0 .. MaxJobs /\ mishaps' \subseteq Mishaps
  BY <1>1 DEF IInv, TypeOK
<1> QED BY <1>1, <1>2, NoJobType, BeforeLock DEF IInv, Taps

LEMMA SendStep == ASSUME IInv, NEW h \in Handlers, Send(h) PROVE IInv'
<1> DEFINE m == [shown |-> DueAfter(h), version |-> VersionAfter(h), open |-> OpenAfter(h)]
<1>1. /\ stage[h] = "minting" /\ boards' = Append(boards, m)
      /\ lock' = lock /\ sheet' = sheet /\ pinned' = pinned
      /\ recorded' = recorded /\ begun' = begun /\ faults' = faults
      /\ mishaps' = mishaps /\ due' = due /\ open' = open /\ board' = board
      /\ version' = version /\ UNCHANGED ledger
  BY DEF Send, Sent, ledger, NothingWrong
<1>2. /\ Len(boards) \in Nat /\ boards' \in Seq(Message) /\ Len(boards') = Len(boards) + 1
      /\ boards'[Len(boards) + 1] = m
      /\ \A i \in 1 .. Len(boards) : boards'[i] = boards[i]
  <2>1. m \in Message /\ boards \in Seq(Message)
    BY AfterCommit DEF IInv, Message, TypeOK
  <2> HIDE DEF m
  <2>2. Len(boards) \in Nat
    BY <2>1, LenProperties
  <2> QED BY <1>1, <2>1, <2>2, AppendProperties
<1>3. Job \subseteq Job' /\ Messages \subseteq Messages'
  BY <1>2, JobGrows DEF IInv
<1>4. /\ stage' \in [Handlers -> Stages] /\ stage'[h] = "working"
      /\ job' \in [Handlers -> Job']
      /\ job'[h].sent = Len(boards) + 1
      /\ job'[h].op = job[h].op /\ job'[h].token = job[h].token
      /\ job'[h].row = job[h].row /\ job'[h].out = job[h].out
      /\ \A k \in Handlers : k # h => stage'[k] = stage[k] /\ job'[k] = job[k]
  <2>1. job[h] \in Job' /\ job \in [Handlers -> Job']
    BY <1>3 DEF IInv, TypeOK
  <2>2. Len(boards) + 1 \in 0 .. Len(boards')
    BY <1>2
  <2>3. [job[h] EXCEPT !.sent = Len(boards) + 1] \in Job'
    BY <2>1, <2>2 DEF Job
  <2>4. /\ stage' = [stage EXCEPT ![h] = "working"]
        /\ job' = [job EXCEPT ![h] = [job[h] EXCEPT !.sent = Len(boards) + 1]]
    BY DEF Send, Sent
  <2>5. stage' \in [Handlers -> Stages] /\ stage'[h] = "working"
    BY <2>4 DEF IInv, TypeOK, Stages
  <2>6. job' \in [Handlers -> Job'] /\ job'[h] = [job[h] EXCEPT !.sent = Len(boards) + 1]
    BY <2>1, <2>3, <2>4
  <2>7. \A k \in Handlers : k # h => stage'[k] = stage[k] /\ job'[k] = job[k]
    BY <2>4 DEF IInv, TypeOK
  <2> QED BY <2>1, <2>5, <2>6, <2>7 DEF Job
<1>5. TypeOK'
  <2>1. \A k \in Handlers : Locked(k)' <=> Locked(k)
    BY <1>1, <1>4 DEF Locked
  <2>2. board' \in 0 .. Len(boards')
    BY <1>1, <1>2 DEF IInv, TypeOK
  <2> QED BY <1>1, <1>2, <1>3, <1>4, <2>1, <2>2 DEF IInv, TypeOK
<1>6. NeverOverpaid'
  BY <1>1 DEF IInv, NeverOverpaid
<1>7. \A k \in Handlers : job'[k].out = job[k].out
  BY <1>4
<1>8. PinsRecorded' /\ VersionsPast'
  BY <1>1, <1>7 DEF IInv, PinsRecorded, VersionsPast
<1>9. JobsTidy'
  BY <1>1, <1>4, <1>7 DEF IInv, JobsTidy, Working
<1>10. \A k \in Handlers : /\ OpenAfter(k)' = OpenAfter(k)
                           /\ VersionAfter(k)' = VersionAfter(k)
  BY <1>1, <1>4, SameAfter
<1>11. \A k \in Handlers : k # h => ~ Minting(k) /\ ~ Working(k)
  BY <1>1, OneLock DEF IInv, Locked, Minting, Working
<1>12. \A k \in Handlers : job'[k].row = job[k].row /\ (Bound(k)' <=> Bound(k))
  BY <1>1, <1>4 DEF Bound
<1>13. (Calm => BoardSound)'
  <2> SUFFICES ASSUME Calm' PROVE BoardSound'
    OBVIOUS
  <2>1. BoardSound
    BY <1>1 DEF IInv, Calm
  <2>2. OpenAfter(h)
    BY <1>1, <2>1 DEF BoardSound, Minting
  <2>3. \A i \in Messages' : boards'[i].open
    BY <1>2, <2>1, <2>2 DEF Messages, BoardSound
  <2>4. (board = 0 => Boardless)'
    BY <1>1, <1>4, <1>7, <1>12, <2>1 DEF BoardSound, Boardless
  <2>5. ASSUME NEW k \in Handlers
        PROVE  /\ Bound(k)' => job'[k].row.board # 0 \/ job'[k].op = "read"
               /\ ~ Minting(k)'
               /\ Working(k)' /\ job'[k].op = "write" => board' # 0 \/ job'[k].sent # 0
    <3>1. CASE k = h
      BY <1>2, <1>4, <1>12, <2>1, <3>1 DEF BoardSound, Minting
    <3>2. CASE k # h
      BY <1>4, <1>11, <1>12, <2>1, <3>2 DEF BoardSound, Minting, Working
    <3> QED BY <3>1, <3>2
  <2> QED BY <2>3, <2>4, <2>5 DEF BoardSound
<1>14. (Clean => BoardOnce)'
  <2> SUFFICES ASSUME Clean' PROVE BoardOnce'
    OBVIOUS
  <2>1. BoardOnce
    BY <1>1 DEF IInv, Clean
  <2>2. Len(boards) = 0 /\ board = 0
    BY <1>1, <2>1 DEF BoardOnce, Minting, IInv, TypeOK
  <2>3. Len(boards') = 1 /\ boards'[1] = m
    BY <1>2, <2>2
  <2>4. ASSUME NEW k \in Handlers
        PROVE  /\ Bound(k)' => job'[k].row.board = 1
               /\ ~ Minting(k)'
               /\ job'[k].sent # 0 => board' = 0 /\ boards'[1].version = VersionAfter(k)'
    <3>1. CASE k = h
      BY <1>1, <1>4, <1>10, <1>12, <2>1, <2>2, <2>3, <3>1 DEF BoardOnce, Minting
    <3>2. CASE k # h
      <4>1. job[k].sent = 0
        BY <1>11, <3>2 DEF IInv, JobsTidy
      <4> QED BY <1>4, <1>11, <1>12, <2>1, <3>2, <4>1 DEF BoardOnce, Minting
    <3> QED BY <3>1, <3>2
  <2> QED BY <2>3, <2>4 DEF BoardOnce
<1>15. BoardCatchesUp'
  <2> SUFFICES ASSUME mishaps' = {}, version' > 0
               PROVE  \/ boards'[board'].version = version'
                      \/ \E k \in Handlers : job'[k].out.edit = board'
                                             /\ job'[k].out.version = version'
    BY DEF BoardCatchesUp
  <2>1. BoardOnce /\ BoardSound
    BY <1>1 DEF IInv, Clean, Calm
  <2>2. version = 0
    <3>1. board = 0
      BY <1>1, <2>1 DEF BoardOnce, Minting, IInv, TypeOK
    <3> QED BY <2>1, <3>1 DEF BoardSound, Boardless
  <2> QED BY <1>1, <2>2
<1> QED BY <1>5, <1>6, <1>8, <1>9, <1>13, <1>14, <1>15 DEF IInv

\* A creation that fails is the condition under which the rest no longer holds.
LEMMA SendFailsStep == ASSUME IInv, NEW h \in Handlers, SendFails(h) PROVE IInv'
<1>1. /\ stage[h] = "minting" /\ GoesWrong("create")
      /\ lock' = lock /\ job' = job /\ boards' = boards /\ sheet' = sheet
      /\ pinned' = pinned /\ recorded' = recorded /\ begun' = begun
      /\ due' = due /\ open' = open /\ board' = board /\ version' = version
  BY DEF SendFails, ledger, chat
<1>2. /\ stage' \in [Handlers -> Stages] /\ stage'[h] = "working"
      /\ \A k \in Handlers : k # h => stage'[k] = stage[k]
  BY DEF SendFails, IInv, TypeOK, Stages
<1>3. TypeOK'
  <2>1. Job' = Job /\ Messages' = Messages
    BY <1>1, SameTypes
  <2>2. \A k \in Handlers : Locked(k)' <=> Locked(k)
    BY <1>1, <1>2 DEF Locked
  <2> QED BY <1>1, <1>2, <2>1, <2>2, FaultStep DEF IInv, TypeOK, Mishaps
<1>4. NeverOverpaid' /\ PinsRecorded' /\ VersionsPast'
  BY <1>1 DEF IInv, NeverOverpaid, PinsRecorded, VersionsPast
<1>5. JobsTidy'
  BY <1>1, <1>2 DEF IInv, JobsTidy, Working
<1>6. ~ Calm' /\ ~ Clean' /\ mishaps' # {}
  BY <1>1 DEF GoesWrong, Calm, Clean
<1> QED BY <1>3, <1>4, <1>5, <1>6 DEF IInv, BoardCatchesUp

LEMMA OutboundType ==
  ASSUME TypeOK, NeverOverpaid, NEW h \in Handlers
  PROVE  /\ Outbound(h) \in Edits
         /\ Outbound(h).sheet = (job[h].op = "sheet") /\ Outbound(h).pin = job[h].sent
         /\ Outbound(h).edit = IF Syncs(h) THEN Row(h).board ELSE 0
         /\ Outbound(h).version = VersionAfter(h)
<1>1. Row(h).board \in 0 .. Len(boards)
  BY JobFields DEF Row, TypeOK
<1>2. job[h].sent \in 0 .. Len(boards) /\ 0 \in 0 .. Len(boards)
  BY JobFields, LenProperties DEF TypeOK
<1> QED BY <1>1, <1>2, AfterCommit DEF Outbound, Edits

LEMMA CommitStep == ASSUME IInv, NEW h \in Handlers, Commit(h) PROVE IInv'
<1>1. /\ stage[h] = "working" /\ lock' = {} /\ Left(h, Outbound(h))
      /\ due' = DueAfter(h) /\ open' = OpenAfter(h) /\ version' = VersionAfter(h)
      /\ board' = IF job[h].sent = 0 THEN board ELSE job[h].sent
      /\ recorded' = recorded \cup ({job[h].sent} \ {0})
      /\ boards' = boards /\ sheet' = sheet /\ pinned' = pinned /\ begun' = begun
      /\ faults' = faults /\ mishaps' = mishaps
  BY DEF Commit, chat, NothingWrong
<1> DEFINE out == Outbound(h)
<1>2. /\ out \in Edits /\ out.sheet = (job[h].op = "sheet") /\ out.pin = job[h].sent
      /\ out.edit = IF Syncs(h) THEN Row(h).board ELSE 0
      /\ out.version = VersionAfter(h)
  BY OutboundType DEF IInv
<1> HIDE DEF out
<1>3. /\ stage' \in [Handlers -> Stages] /\ job' \in [Handlers -> Job]
      /\ stage'[h] \in {"idle", "sending"}
      /\ job'[h].op = "none" /\ job'[h].row = Fresh /\ job'[h].sent = 0
      /\ job'[h].out.sheet = out.sheet /\ job'[h].out.edit = out.edit
      /\ job'[h].out.pin = out.pin
      /\ job'[h].out = out \/ (job'[h].out = NoEdits /\ out.edit = 0)
      /\ stage'[h] # "sending" => job'[h].out = NoEdits
      /\ stage'[h] = "sending" => out.sheet \/ out.edit # 0 \/ out.pin # 0
      /\ \A k \in Handlers : k # h => stage'[k] = stage[k] /\ job'[k] = job[k]
  BY <1>1, <1>2, LeftStep DEF out, IInv
<1>4. /\ DueAfter(h) >= 0 /\ DueAfter(h) \in Balances /\ VersionAfter(h) \in Nat
      /\ OpenAfter(h) \in BOOLEAN /\ version \in Nat /\ version <= VersionAfter(h)
      /\ DueAfter(h) # due => job[h].op = "write" \/ (job[h].op \in Taps /\ Matches(h))
  BY AfterCommit DEF IInv, TypeOK, VersionAfter
<1>5. \A k \in Handlers : k # h => ~ Locked(k)
  BY <1>1, OneLock DEF IInv, Locked
<1>6. Len(boards) \in Nat /\ job[h].sent \in 0 .. Len(boards)
  BY JobFields, LenProperties DEF IInv, TypeOK
<1>7. TypeOK'
  <2>1. Job' = Job /\ Messages' = Messages
    BY <1>1, SameTypes
  <2>2. \A k \in Handlers : ~ Locked(k)'
    BY <1>3, <1>5 DEF Locked
  <2>3. board' \in 0 .. Len(boards)
    BY <1>1, <1>6 DEF IInv, TypeOK
  <2>4. recorded' \subseteq Messages
    <3>1. job[h].sent # 0 => job[h].sent \in Messages
      BY <1>6 DEF Messages
    <3> QED BY <1>1, <3>1 DEF IInv, TypeOK
  <2> QED BY <1>1, <1>3, <1>4, <2>1, <2>2, <2>3, <2>4 DEF IInv, TypeOK
<1>8. NeverOverpaid'
  BY <1>1, <1>4 DEF NeverOverpaid
<1>9. PinsRecorded'
  BY <1>1, <1>2, <1>3 DEF IInv, PinsRecorded
<1>10. JobsTidy'
  BY <1>2, <1>3 DEF IInv, JobsTidy, Working, Taps
<1>11. VersionsPast'
  <2>1. \A k \in Handlers : job[k].out.version <= version /\ job[k].out.version \in Nat
    BY JobFields DEF IInv, VersionsPast, Edits
  <2>2. NoEdits.version = 0
    BY DEF NoEdits
  <2> QED BY <1>1, <1>2, <1>3, <1>4, <2>1, <2>2 DEF VersionsPast
<1>12. \A k \in Handlers : k # h => job[k].sent = 0
  BY <1>5 DEF IInv, JobsTidy, Working, Locked
<1>13. \A k \in Handlers : /\ ~ Minting(k)' /\ ~ Working(k)' /\ job'[k].sent = 0
                           /\ Bound(k)' => k # h /\ Bound(k) /\ job'[k] = job[k]
  <2> SUFFICES ASSUME NEW k \in Handlers
               PROVE  /\ ~ Minting(k)' /\ ~ Working(k)' /\ job'[k].sent = 0
                      /\ Bound(k)' => k # h /\ Bound(k) /\ job'[k] = job[k]
    OBVIOUS
  <2>1. CASE k = h
    BY <1>3, <2>1 DEF Minting, Working, Bound
  <2>2. CASE k # h
    BY <1>3, <1>5, <1>12, <2>2 DEF Minting, Working, Locked, Bound
  <2> QED BY <2>1, <2>2
<1>14. (Calm => BoardSound)'
  <2> SUFFICES ASSUME Calm' PROVE BoardSound'
    OBVIOUS
  <2>1. BoardSound
    BY <1>1 DEF IInv, Calm
  <2>2. (board = 0 => Boardless)'
    <3> SUFFICES ASSUME board' = 0 PROVE Boardless'
      OBVIOUS
    <3>1. job[h].sent = 0 /\ board = 0 /\ Boardless
      BY <1>1, <1>6, <2>1 DEF BoardSound
    <3>2. job[h].row = Fresh /\ job[h].op \notin Taps /\ job[h].op # "write"
      BY <1>1, <2>1, <3>1 DEF Boardless, BoardSound, Bound, IInv, JobsTidy, Working
    <3>3. due' = 0 /\ version' = 0 /\ sheet' = 0
      BY <1>1, <1>4, <3>1, <3>2 DEF Boardless, VersionAfter
    <3>4. ~ job'[h].out.sheet /\ job'[h].out.edit = 0
      BY <1>2, <1>3, <3>1, <3>2 DEF Row, Taps
    <3>5. Len(boards) = 0
      BY <1>12, <3>1 DEF Boardless
    <3> QED BY <1>1, <1>3, <1>13, <3>1, <3>3, <3>4, <3>5 DEF Boardless
  <2>3. \A i \in Messages' : boards'[i].open
    BY <1>1, <2>1 DEF BoardSound, Messages
  <2> QED BY <1>13, <2>1, <2>2, <2>3 DEF BoardSound
<1>15. (Clean => BoardOnce)'
  BY <1>1, <1>13 DEF IInv, Clean, BoardOnce
<1>16. BoardCatchesUp'
  <2> SUFFICES ASSUME mishaps' = {}, version' > 0
               PROVE  \/ boards'[board'].version = version'
                      \/ \E k \in Handlers : job'[k].out.edit = board'
                                             /\ job'[k].out.version = version'
    BY DEF BoardCatchesUp
  <2>1. mishaps = {} /\ BoardOnce /\ BoardSound
    BY <1>1 DEF IInv, Clean, Calm
  <2>2. CASE job[h].sent # 0
    <3>1. job[h].sent = 1 /\ boards[1].version = VersionAfter(h)
      BY <1>6, <2>1, <2>2 DEF BoardOnce
    <3> QED BY <1>1, <3>1
  <2>3. CASE job[h].sent = 0 /\ DueAfter(h) = due
    <3>1. version' = version /\ board' = board
      BY <1>1, <2>3 DEF VersionAfter
    <3>2. board # 0
      BY <2>1, <3>1 DEF BoardSound, Boardless
    <3>3. \/ boards[board].version = version
          \/ \E k \in Handlers : job[k].out.edit = board /\ job[k].out.version = version
      BY <2>1, <3>1 DEF IInv, BoardCatchesUp
    <3>4. job[h].out.edit = 0
      BY <1>1 DEF IInv, JobsTidy, NoEdits
    <3> QED BY <1>1, <1>3, <3>1, <3>2, <3>3, <3>4
  <2>4. CASE job[h].sent = 0 /\ DueAfter(h) # due
    <3>1. board # 0
      BY <1>1, <1>4, <2>1, <2>4 DEF BoardSound, Boardless, Bound, IInv, JobsTidy, Working
    <3>2. board = 1 /\ board' = 1
      BY <1>1, <1>6, <2>1, <2>4, <3>1 DEF BoardOnce, IInv, TypeOK
    <3>3. Syncs(h) /\ Row(h).board = 1
      BY <1>1, <1>4, <2>1, <2>4, <3>2 DEF BoardOnce, Bound, Syncs, Row, Taps
    <3>4. job'[h].out = out /\ out.edit = 1 /\ out.version = version'
      BY <1>1, <1>2, <1>3, <3>3
    <3> QED BY <3>2, <3>4
  <2> QED BY <2>2, <2>3, <2>4
<1> QED BY <1>7, <1>8, <1>9, <1>10, <1>11, <1>14, <1>15, <1>16 DEF IInv

LEMMA RollbackStep == ASSUME IInv, NEW h \in Handlers, Rollback(h) PROVE IInv'
<1>1. /\ Locked(h) /\ GoesWrong("rollback") /\ lock' = {} /\ Left(h, NoEdits)
      /\ boards' = boards /\ sheet' = sheet
      /\ pinned' = pinned /\ recorded' = recorded /\ begun' = begun
      /\ due' = due /\ open' = open /\ board' = board /\ version' = version
  BY DEF Rollback, ledger, chat
<1>2. NoEdits \in Edits /\ NoEdits.pin = 0 /\ NoEdits.edit = 0 /\ ~ NoEdits.sheet
      /\ NoEdits.version = 0
  BY NoEditsType DEF IInv, NoEdits
<1>3. /\ stage' \in [Handlers -> Stages] /\ job' \in [Handlers -> Job]
      /\ stage'[h] = "idle" /\ job'[h].op = "none"
      /\ job'[h].sent = 0 /\ job'[h].out = NoEdits
      /\ \A k \in Handlers : k # h => stage'[k] = stage[k] /\ job'[k] = job[k]
  BY <1>1, <1>2, LeftStep DEF IInv
<1>4. TypeOK'
  <2>1. Job' = Job /\ Messages' = Messages
    BY <1>1, SameTypes
  <2>2. \A k \in Handlers : k # h => ~ Locked(k)
    BY <1>1, OneLock DEF IInv
  <2>3. \A k \in Handlers : ~ Locked(k)'
    BY <1>3, <2>2 DEF Locked
  <2> QED BY <1>1, <1>3, <2>1, <2>3, FaultStep DEF IInv, TypeOK, Mishaps
<1>5. NeverOverpaid' /\ PinsRecorded' /\ VersionsPast'
  BY <1>1, <1>2, <1>3 DEF IInv, TypeOK, NeverOverpaid, PinsRecorded, VersionsPast
<1>6. JobsTidy'
  BY <1>2, <1>3 DEF IInv, JobsTidy, Working, Taps
<1>7. ~ Calm' /\ ~ Clean' /\ mishaps' # {}
  BY <1>1 DEF GoesWrong, Calm, Clean
<1> QED BY <1>4, <1>5, <1>6, <1>7 DEF IInv, BoardCatchesUp

-----------------------------------------------------------------------------
(* After the commit *)

\* Whichever call is made, fails or is given up: less is left to do.
LEMMA LessToSend ==
  ASSUME IInv, NEW h \in Handlers, NEW out \in Edits, Sending(h), Left(h, out),
         boards' = boards, sheet' \in Balances, faults' \in 0 .. MaxFaults,
         mishaps' \subseteq Mishaps,
         mishaps \subseteq mishaps',
         sheet' = sheet \/ job[h].out.sheet,
         pinned' = pinned \/ pinned' = pinned \cup ({job[h].out.pin} \ {0}),
         out.sheet => job[h].out.sheet,
         out.edit \in {0, job[h].out.edit}, out.pin \in {0, job[h].out.pin},
         out.version <= job[h].out.version,
         \/ mishaps' # {}
         \/ out.edit = job[h].out.edit /\ (out.edit # 0 => out.version = job[h].out.version)
  PROVE  IInv'
<1>1. /\ stage[h] = "sending" /\ lock' = lock /\ recorded' = recorded /\ begun' = begun
      /\ due' = due /\ open' = open /\ board' = board /\ version' = version
      /\ UNCHANGED ledger
  BY DEF Sending, ledger
<1>2. /\ stage' \in [Handlers -> Stages] /\ job' \in [Handlers -> Job]
      /\ stage'[h] \in {"idle", "sending"}
      /\ job'[h].op = "none" /\ job'[h].row = Fresh /\ job'[h].sent = 0
      /\ job'[h].out.sheet = out.sheet /\ job'[h].out.edit = out.edit
      /\ job'[h].out.pin = out.pin
      /\ job'[h].out = out \/ (job'[h].out = NoEdits /\ out.edit = 0)
      /\ stage'[h] # "sending" => job'[h].out = NoEdits
      /\ stage'[h] = "sending" => out.sheet \/ out.edit # 0 \/ out.pin # 0
      /\ \A k \in Handlers : k # h => stage'[k] = stage[k] /\ job'[k] = job[k]
  BY LeftStep DEF IInv
<1>3. TypeOK'
  <2>1. Job' = Job /\ Messages' = Messages
    BY SameTypes
  <2>2. \A k \in Handlers : Locked(k)' <=> Locked(k)
    BY <1>1, <1>2 DEF Locked
  <2>3. pinned' \subseteq Messages
    BY DEF IInv, TypeOK, PinsRecorded
  <2> QED BY <1>1, <1>2, <2>1, <2>2, <2>3 DEF IInv, TypeOK
<1>4. NeverOverpaid'
  BY <1>1 DEF IInv, NeverOverpaid
<1>5. PinsRecorded'
  BY <1>1, <1>2 DEF IInv, PinsRecorded
<1>6. JobsTidy'
  BY <1>2 DEF IInv, JobsTidy, Working, Taps
<1>7. VersionsPast'
  <2>1. job[h].out.version <= version /\ job[h].out.version \in Nat /\ out.version \in Nat
        /\ version \in Nat /\ NoEdits.version = 0
    BY JobFields DEF IInv, TypeOK, VersionsPast, Edits, NoEdits
  <2> QED BY <1>1, <1>2, <2>1 DEF IInv, VersionsPast
<1>8. /\ job[h].sent = 0 /\ ~ Minting(h) /\ ~ Working(h) /\ ~ Minting(h)'
      /\ ~ Working(h)' /\ ~ Bound(h)'
      /\ \A k \in Handlers : k # h => /\ OpenAfter(k)' = OpenAfter(k)
                                      /\ VersionAfter(k)' = VersionAfter(k)
                                      /\ Bound(k)' <=> Bound(k)
  <2>1. \A k \in Handlers : k # h => /\ OpenAfter(k)' = OpenAfter(k)
                                     /\ VersionAfter(k)' = VersionAfter(k)
    BY <1>1, <1>2, SameAfter
  <2> QED BY <1>1, <1>2, <2>1 DEF IInv, JobsTidy, Minting, Working, Bound
<1>9. (Calm => BoardSound)'
  <2> SUFFICES ASSUME Calm' PROVE BoardSound'
    OBVIOUS
  <2>1. BoardSound
    BY DEF IInv, Calm
  <2>2. (board = 0 => Boardless)'
    BY <1>1, <1>2, <1>8, <2>1 DEF BoardSound, Boardless
  <2>3. ASSUME NEW k \in Handlers
        PROVE  /\ Bound(k)' => job'[k].row.board # 0 \/ job'[k].op = "read"
               /\ Minting(k)' => OpenAfter(k)'
               /\ Working(k)' /\ job'[k].op = "write" => board' # 0 \/ job'[k].sent # 0
    <3>1. CASE k = h
      BY <1>8, <3>1
    <3>2. CASE k # h
      BY <1>1, <1>2, <1>8, <2>1, <3>2 DEF BoardSound, Minting, Working
    <3> QED BY <3>1, <3>2
  <2> QED BY <2>1, <2>2, <2>3 DEF BoardSound, Messages
<1>10. (Clean => BoardOnce)'
  <2> SUFFICES ASSUME Clean' PROVE BoardOnce'
    OBVIOUS
  <2>1. BoardOnce
    BY DEF IInv, Clean
  <2>2. ASSUME NEW k \in Handlers
        PROVE  /\ Bound(k)' => job'[k].row.board = 1
               /\ Minting(k)' => Len(boards') = 0
               /\ job'[k].sent # 0 => board' = 0 /\ boards'[1].version = VersionAfter(k)'
    <3>1. CASE k = h
      BY <1>2, <1>8, <3>1
    <3>2. CASE k # h
      BY <1>1, <1>2, <1>8, <2>1, <3>2 DEF BoardOnce, Minting
    <3> QED BY <3>1, <3>2
  <2> QED BY <2>1, <2>2 DEF BoardOnce
<1>11. BoardCatchesUp'
  <2> SUFFICES ASSUME mishaps' = {}, version' > 0
               PROVE  \/ boards'[board'].version = version'
                      \/ \E k \in Handlers : job'[k].out.edit = board'
                                             /\ job'[k].out.version = version'
    BY DEF BoardCatchesUp
  <2>1. \/ boards[board].version = version
        \/ \E k \in Handlers : job[k].out.edit = board /\ job[k].out.version = version
    BY <1>1 DEF IInv, BoardCatchesUp
  <2>2. board # 0
    BY <1>1 DEF IInv, Calm, BoardSound, Boardless
  <2>3. \A k \in Handlers : job[k].out.edit = board =>
          job'[k].out.edit = board /\ job'[k].out.version = job[k].out.version
    BY <1>2, <2>2
  <2> QED BY <1>1, <2>1, <2>3
<1> QED BY <1>3, <1>4, <1>5, <1>6, <1>7, <1>9, <1>10, <1>11 DEF IInv

\* The record of a handler's edits with one of them, or all of them, taken out.
LEMMA TakenOut ==
  ASSUME TypeOK, NEW out \in Edits
  PROVE  /\ out.sheet \in BOOLEAN /\ out.shown \in Balances /\ out.version \in Nat
         /\ [out EXCEPT !.sheet = FALSE] \in Edits
         /\ ~ [out EXCEPT !.sheet = FALSE].sheet
         /\ [out EXCEPT !.sheet = FALSE].edit = out.edit
         /\ [out EXCEPT !.sheet = FALSE].pin = out.pin
         /\ [out EXCEPT !.sheet = FALSE].version = out.version
         /\ [out EXCEPT !.edit = 0] \in Edits
         /\ [out EXCEPT !.edit = 0].sheet = out.sheet
         /\ [out EXCEPT !.edit = 0].edit = 0
         /\ [out EXCEPT !.edit = 0].pin = out.pin
         /\ [out EXCEPT !.edit = 0].version = out.version
         /\ NoEdits \in Edits /\ ~ NoEdits.sheet /\ NoEdits.edit = 0
         /\ NoEdits.pin = 0 /\ NoEdits.version <= out.version
<1>1. Len(boards) \in Nat
  BY LenProperties DEF TypeOK
<1>2. NoEdits \in Edits
  BY NoEditsType
<1>3. out.sheet \in BOOLEAN /\ out.shown \in Balances /\ out.version \in Nat
  BY DEF Edits
<1>4. /\ [out EXCEPT !.sheet = FALSE] \in Edits
      /\ ~ [out EXCEPT !.sheet = FALSE].sheet
      /\ [out EXCEPT !.sheet = FALSE].edit = out.edit
      /\ [out EXCEPT !.sheet = FALSE].pin = out.pin
      /\ [out EXCEPT !.sheet = FALSE].version = out.version
  BY DEF Edits
<1>5. /\ [out EXCEPT !.edit = 0] \in Edits
      /\ [out EXCEPT !.edit = 0].edit = 0
      /\ [out EXCEPT !.edit = 0].pin = out.pin
      /\ [out EXCEPT !.edit = 0].version = out.version
  BY <1>1 DEF Edits
<1>6. [out EXCEPT !.edit = 0].sheet = out.sheet
  BY DEF Edits
<1>7. ~ NoEdits.sheet /\ NoEdits.edit = 0 /\ NoEdits.pin = 0 /\ NoEdits.version <= out.version
  BY <1>3 DEF NoEdits
<1> QED BY <1>2, <1>3, <1>4, <1>5, <1>6, <1>7

LEMMA SendingStep ==
  ASSUME IInv, NEW h \in Handlers,
         EditSheet(h) \/ PinBoard(h) \/ CallFails(h) \/ Abandon(h)
  PROVE  IInv'
<1> DEFINE out == job[h].out
<1>1. /\ out \in Edits
      /\ out.sheet \in BOOLEAN /\ out.shown \in Balances /\ out.version \in Nat
      /\ [out EXCEPT !.sheet = FALSE] \in Edits
      /\ ~ [out EXCEPT !.sheet = FALSE].sheet
      /\ [out EXCEPT !.sheet = FALSE].edit = out.edit
      /\ [out EXCEPT !.sheet = FALSE].pin = out.pin
      /\ [out EXCEPT !.sheet = FALSE].version = out.version
      /\ [out EXCEPT !.edit = 0] \in Edits
      /\ [out EXCEPT !.edit = 0].sheet = out.sheet
      /\ [out EXCEPT !.edit = 0].edit = 0
      /\ [out EXCEPT !.edit = 0].pin = out.pin
      /\ [out EXCEPT !.edit = 0].version = out.version
      /\ NoEdits \in Edits /\ ~ NoEdits.sheet /\ NoEdits.edit = 0
      /\ NoEdits.pin = 0 /\ NoEdits.version <= out.version
  BY JobFields, TakenOut DEF IInv
<1>2. /\ sheet \in Balances /\ faults \in 0 .. MaxFaults
      /\ mishaps \subseteq Mishaps
      /\ out.version <= out.version
  BY <1>1 DEF IInv, TypeOK
<1>3. CASE EditSheet(h)
  <2>1. /\ Sending(h) /\ Left(h, [out EXCEPT !.sheet = FALSE]) /\ boards' = boards
        /\ sheet' = out.shown /\ out.sheet /\ faults' = faults /\ mishaps' = mishaps
        /\ pinned' = pinned
    BY <1>3 DEF EditSheet, NothingWrong
  <2> QED BY <1>1, <1>2, <2>1, LessToSend
<1>4. CASE PinBoard(h)
  <2>1. /\ Sending(h) /\ Left(h, NoEdits) /\ boards' = boards
        /\ sheet' = sheet /\ ~ out.sheet /\ out.edit = 0 /\ faults' = faults
        /\ mishaps' = mishaps /\ pinned' = pinned \cup {out.pin}
    BY <1>4 DEF PinBoard, NothingWrong
  <2>2. out.pin # 0
    BY <2>1 DEF IInv, JobsTidy, Sending
  <2> QED BY <1>1, <1>2, <2>1, <2>2, LessToSend
<1>5. CASE CallFails(h) \/ Abandon(h)
  <2>1. /\ Sending(h) /\ boards' = boards /\ sheet' = sheet /\ pinned' = pinned
        /\ GoesWrong("edit")
        /\ \/ Left(h, [out EXCEPT !.sheet = FALSE])
           \/ Left(h, [out EXCEPT !.edit = 0])
           \/ Left(h, NoEdits)
    BY <1>5 DEF CallFails, Abandon, chat
  <2>2. /\ faults' \in 0 .. MaxFaults
        /\ mishaps' \subseteq Mishaps
        /\ mishaps \subseteq mishaps' /\ mishaps' # {}
    BY <2>1, FaultStep DEF IInv, Mishaps
  <2> QED BY <1>1, <1>2, <2>1, <2>2, LessToSend
<1> QED BY <1>3, <1>4, <1>5

\* An edit of the board shows what was owed at a version, or an older rendering of
\* it overtakes a newer one.
LEMMA EditBoardStep == ASSUME IInv, NEW h \in Handlers, EditBoard(h) PROVE IInv'
<1> DEFINE out == job[h].out
           m == out.edit
           edited == [shown |-> out.shown, version |-> out.version, open |-> boards[m].open]
           left == [out EXCEPT !.edit = 0]
<1>1. /\ stage[h] = "sending" /\ lock' = lock /\ recorded' = recorded /\ begun' = begun
      /\ due' = due /\ open' = open /\ board' = board /\ version' = version
      /\ UNCHANGED ledger /\ m # 0 /\ boards' = [boards EXCEPT ![m] = edited]
      /\ mishaps' = IF out.version < boards[m].version
                    THEN mishaps \cup {"order"} ELSE mishaps
      /\ Left(h, left) /\ sheet' = sheet /\ pinned' = pinned /\ faults' = faults
  BY DEF EditBoard, Sending, ledger
<1>2. /\ out \in Edits /\ out.shown \in Balances /\ out.version \in Nat
      /\ left \in Edits /\ left.sheet = out.sheet /\ left.edit = 0 /\ left.pin = out.pin
      /\ left.version = out.version
  BY JobFields, TakenOut DEF IInv
<1>3. Len(boards) \in Nat /\ m \in 1 .. Len(boards) /\ boards \in Seq(Message)
  BY <1>1, <1>2, LenProperties DEF IInv, TypeOK, Edits
<1>4. /\ boards' \in Seq(Message) /\ Len(boards') = Len(boards)
      /\ boards'[m] = edited
      /\ \A i \in 1 .. Len(boards) : i # m => boards'[i] = boards[i]
  <2>1. boards[m] \in Message
    BY <1>3, ElementOfSeq
  <2>2. edited \in Message
    BY <1>2, <2>1 DEF Message
  <2> HIDE DEF edited, m
  <2> QED BY <1>1, <1>3, <2>2, ExceptSeq
<1>5. /\ boards'[m].open = boards[m].open /\ boards'[m].version = out.version
  BY <1>4
<1> HIDE DEF left
<1>6. /\ stage' \in [Handlers -> Stages] /\ job' \in [Handlers -> Job]
      /\ stage'[h] \in {"idle", "sending"}
      /\ job'[h].op = "none" /\ job'[h].row = Fresh /\ job'[h].sent = 0
      /\ job'[h].out.sheet = out.sheet /\ job'[h].out.edit = 0
      /\ job'[h].out.pin = out.pin
      /\ job'[h].out = left \/ job'[h].out = NoEdits
      /\ stage'[h] # "sending" => job'[h].out = NoEdits
      /\ stage'[h] = "sending" => out.sheet \/ out.pin # 0
      /\ \A k \in Handlers : k # h => stage'[k] = stage[k] /\ job'[k] = job[k]
  BY <1>1, <1>2, LeftStep DEF IInv
<1>7. TypeOK'
  <2>1. Job' = Job /\ Messages' = Messages
    BY <1>4 DEF Job, LedgerRow, Edits, Messages
  <2>2. \A k \in Handlers : Locked(k)' <=> Locked(k)
    BY <1>1, <1>6 DEF Locked
  <2>3. mishaps' \subseteq Mishaps
    BY <1>1 DEF IInv, TypeOK, Mishaps
  <2> QED BY <1>1, <1>4, <1>6, <2>1, <2>2, <2>3 DEF IInv, TypeOK
<1>8. NeverOverpaid'
  BY <1>1 DEF IInv, NeverOverpaid
<1>9. PinsRecorded'
  BY <1>1, <1>6 DEF IInv, PinsRecorded
<1>10. JobsTidy'
  BY <1>6 DEF IInv, JobsTidy, Working, Taps
<1>11. VersionsPast'
  <2>1. out.version <= version /\ version \in Nat /\ NoEdits.version = 0
    BY DEF IInv, TypeOK, VersionsPast, NoEdits
  <2> QED BY <1>1, <1>2, <1>6, <2>1 DEF IInv, VersionsPast
<1>12. /\ job[h].sent = 0 /\ ~ Minting(h)' /\ ~ Working(h)' /\ ~ Bound(h)'
       /\ Calm => board # 0
       /\ \A k \in Handlers : k # h => /\ OpenAfter(k)' = OpenAfter(k)
                                       /\ Bound(k)' <=> Bound(k)
  <2>1. \A k \in Handlers : k # h => OpenAfter(k)' = OpenAfter(k)
    BY <1>1, <1>6, SameAfter
  <2>2. job[h].sent = 0 /\ ~ Minting(h)' /\ ~ Working(h)' /\ ~ Bound(h)'
    BY <1>1, <1>6 DEF IInv, JobsTidy, Minting, Working, Bound
  <2>3. Calm => board # 0
    BY <1>1 DEF IInv, BoardSound, Boardless
  <2> QED BY <1>6, <2>1, <2>2, <2>3 DEF Bound
<1>13. (Calm => BoardSound)'
  <2> SUFFICES ASSUME Calm' PROVE BoardSound'
    OBVIOUS
  <2>1. Calm /\ BoardSound
    BY <1>1 DEF IInv, Calm
  <2>2. ASSUME NEW k \in Handlers
        PROVE  /\ Bound(k)' => job'[k].row.board # 0 \/ job'[k].op = "read"
               /\ Minting(k)' => OpenAfter(k)'
    <3>1. CASE k = h
      BY <1>12, <3>1
    <3>2. CASE k # h
      BY <1>6, <1>12, <2>1, <3>2 DEF BoardSound, Minting
    <3> QED BY <3>1, <3>2
  <2>3. \A i \in Messages' : boards'[i].open
    BY <1>3, <1>4, <1>5, <2>1 DEF BoardSound, Messages
  <2> QED BY <1>1, <1>12, <2>1, <2>2, <2>3 DEF BoardSound
<1>14. (Clean => BoardOnce)'
  <2> SUFFICES ASSUME Clean' PROVE BoardOnce'
    OBVIOUS
  <2>1. Calm /\ BoardOnce
    BY <1>1 DEF IInv, Clean, Calm
  <2>2. ASSUME NEW k \in Handlers
        PROVE  /\ Bound(k)' => job'[k].row.board = 1
               /\ Minting(k)' => Len(boards') = 0
               /\ job'[k].sent = 0
    <3>1. CASE k = h
      BY <1>6, <1>12, <3>1
    <3>2. CASE k # h
      BY <1>4, <1>6, <1>12, <2>1, <3>2 DEF BoardOnce, Minting
    <3> QED BY <3>1, <3>2
  <2> QED BY <1>4, <2>1, <2>2 DEF BoardOnce
<1>15. BoardCatchesUp'
  <2> SUFFICES ASSUME mishaps' = {}, version' > 0
               PROVE  \/ boards'[board'].version = version'
                      \/ \E k \in Handlers : job'[k].out.edit = board'
                                             /\ job'[k].out.version = version'
    BY DEF BoardCatchesUp
  <2>1. mishaps = {} /\ ~ out.version < boards[m].version
    BY <1>1
  <2>2. board = m
    <3>1. BoardOnce
      BY <2>1 DEF IInv, Clean
    <3>2. board # 0
      BY <1>12, <2>1 DEF Calm
    <3> QED BY <1>3, <3>1, <3>2 DEF BoardOnce, IInv, TypeOK
  <2>3. out.version <= version /\ version \in Nat /\ boards[m].version \in Nat
    <3>1. boards[m] \in Message
      BY <1>3, ElementOfSeq
    <3> QED BY <3>1 DEF IInv, TypeOK, VersionsPast, Message
  <2>4. \/ boards[board].version = version
        \/ \E k \in Handlers : job[k].out.edit = board /\ job[k].out.version = version
    BY <1>1, <2>1 DEF IInv, BoardCatchesUp
  <2>5. CASE boards[board].version = version \/ out.version = version
    <3>1. out.version = version
      BY <1>2, <2>1, <2>2, <2>3, <2>5
    <3> QED BY <1>1, <1>5, <2>2, <3>1
  <2>6. CASE \E k \in Handlers : k # h /\ job[k].out.edit = board
                                /\ job[k].out.version = version
    BY <1>1, <1>6, <2>6
  <2> QED BY <2>4, <2>5, <2>6
<1> QED BY <1>7, <1>8, <1>9, <1>10, <1>11, <1>13, <1>14, <1>15 DEF IInv

-----------------------------------------------------------------------------
(* The theorems *)

LEMMA NextIInv == IInv /\ [Next]_vars => IInv'
<1> SUFFICES ASSUME IInv, [Next]_vars PROVE IInv'
  OBVIOUS
<1>1. CASE ShowSheet
  BY <1>1, ShowSheetStep
<1>2. ASSUME NEW h \in Handlers, Arrive(h) \/ Enter(h) PROVE IInv'
  BY <1>2, ArriveStep, EnterStep, RefusedStep
<1>3. ASSUME NEW h \in Handlers, Proceed(h) PROVE IInv'
  BY <1>3, LoadStep, SendStep, CommitStep, SendingStep, EditBoardStep DEF Proceed, Execute
<1>4. ASSUME NEW h \in Handlers, Fail(h) PROVE IInv'
  BY <1>4, SendFailsStep, RollbackStep, SendingStep DEF Fail
<1>5. CASE UNCHANGED vars
  <2>1. /\ UNCHANGED ledger /\ due' = due /\ open' = open /\ board' = board
        /\ version' = version /\ lock' = lock /\ stage' = stage /\ job' = job
        /\ boards' = boards /\ sheet' = sheet /\ pinned' = pinned
        /\ recorded' = recorded /\ begun' = begun /\ faults' = faults
        /\ mishaps' = mishaps
    BY <1>5 DEF vars, ledger, chat
  <2>2. \A k \in Handlers : /\ OpenAfter(k)' = OpenAfter(k)
                            /\ VersionAfter(k)' = VersionAfter(k)
    BY <2>1, SameAfter
  <2>3. TypeOK'
    BY <2>1, SameTypes DEF IInv, TypeOK, Locked
  <2>4. NeverOverpaid' /\ PinsRecorded' /\ JobsTidy' /\ VersionsPast' /\ BoardCatchesUp'
    BY <2>1 DEF IInv, NeverOverpaid, PinsRecorded, JobsTidy, Working, VersionsPast,
                BoardCatchesUp
  <2>5. (Calm => BoardSound)' /\ (Clean => BoardOnce)'
    <3>1. \A k \in Handlers : (Bound(k)' <=> Bound(k)) /\ (Minting(k)' <=> Minting(k))
      BY <2>1 DEF Bound, Minting
    <3>2. (Calm => BoardSound)'
      BY <2>1, <2>2, <3>1 DEF IInv, Calm, BoardSound, Boardless, Messages, Working
    <3>3. (Clean => BoardOnce)'
      BY <2>1, <2>2, <3>1 DEF IInv, Clean, BoardOnce
    <3> QED BY <3>2, <3>3
  <2> QED BY <2>3, <2>4, <2>5 DEF IInv
<1> QED BY <1>1, <1>2, <1>3, <1>4, <1>5 DEF Next

\* The inductive invariant holds throughout.
THEOREM BoardInvariant == Spec => []IInv
<1> QED BY InitIInv, NextIInv, PTL DEF Spec

\* Every state of the ledger, its handlers and its messages has its type, and the
\* lock is held by the handlers that work under it and by no other.
THEOREM BoardTypeCorrect == Spec => []TypeOK
<1>1. IInv => TypeOK
  BY DEF IInv
<1> QED BY <1>1, BoardInvariant, PTL

\* A debt is settled once, from however many buttons: _current_suggested compares
\* the amount of the button with what is suggested under the lock.
THEOREM NobodyOverpays == Spec => []NeverOverpaid
<1>1. IInv => NeverOverpaid
  BY DEF IInv
<1> QED BY <1>1, BoardInvariant, PTL

\* However writes, taps and reads interleave, sync_board creates a second board only
\* after a creation that failed, or for a read whose row was loaded before the first
\* board was recorded and whose balances were read after it.
THEOREM LedgerHasOneBoard == Spec => []OneBoard
<1>1. IInv => OneBoard
  <2>1. IInv => Len(boards) \in Nat
    BY LenProperties DEF IInv, TypeOK
  <2> QED BY <2>1 DEF IInv, Clean, BoardOnce, OneBoard
<1> QED BY <1>1, BoardInvariant, PTL

\* sync_board creates a board for an archived ledger only after a creation that
\* failed, whatever was under way when the ledger was archived.
THEOREM ArchivedGetsNoBoard == Spec => []NoBoardOnceArchived
<1>1. IInv => NoBoardOnceArchived
  BY DEF IInv, Calm, BoardSound, NoBoardOnceArchived
<1> QED BY <1>1, BoardInvariant, PTL

\* A board is pinned only once its ledger's row names it, whatever fails.
THEOREM OnlyBoardsArePinned == Spec => []PinnedWasRecorded
<1>1. IInv => PinnedWasRecorded
  BY DEF IInv, PinsRecorded, PinnedWasRecorded
<1> QED BY <1>1, BoardInvariant, PTL

\* Nothing that is owed is left off the board, unless one of the mishaps the
\* property names occurs.
THEOREM BoardNeverForgotten == Spec => []BoardCatchesUp
<1>1. IInv => BoardCatchesUp
  BY DEF IInv
<1> QED BY <1>1, BoardInvariant, PTL
=============================================================================
