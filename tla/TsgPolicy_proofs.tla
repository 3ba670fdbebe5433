--------------------------- MODULE TsgPolicy_proofs ---------------------------
(***************************************************************************)
(* Proofs about TsgPolicy, for any set of TSGs, any number of groups, any  *)
(* timeslices and interleave levels and any set of failing steps.          *)
(***************************************************************************)
EXTENDS TsgPolicy, FiniteSetTheorems, TLAPS

-----------------------------------------------------------------------------
(* Types of the constants, of the initial records and of their updates.    *)

(* The values a client or a policy asks for, the defaults and zero fit     *)
(* their fields.                                                           *)
LEMMA Constants ==
  /\ 0 \in GrpIDs /\ 0 \in U64 /\ 1 \in U64
  /\ LEVEL_MEDIUM \in U64 /\ DefaultTimeslice \in U64 /\ MinTimeslice \in U64
  /\ \A v \in Timeslices \cup Interleaves : v \in U64
  /\ U64 \subseteq Int /\ GrpIDs \subseteq Int
  /\ NoTsg \notin Tsg
  BY TsgAssumption, MaxU64Assumption DEF GrpIDs, U64, LEVEL_MEDIUM

(* The records a constructor starts with (kchangrpapiConstruct_IMPL).      *)
LEMMA Records ==
  /\ new_tsg \in TsgRecord
  /\ no_object \in GspRecord
  /\ no_call \in CallRecord
<1>1. new_tsg \in TsgRecord
  BY Constants DEF new_tsg, TsgRecord, Steps, Locked
<1>2. no_object \in GspRecord
  BY Constants DEF no_object, GspRecord
<1>3. no_request(0) \in Request
  BY Constants DEF no_request, Request
<1>4. no_call \in CallRecord
  BY Constants, <1>3 DEF no_call, CallRecord
<1> QED BY <1>1, <1>2, <1>4

(* Changing one field of a TSG's record keeps its type.                    *)
LEMMA TsgUpdate ==
  ASSUME NEW r \in TsgRecord
  PROVE  /\ \A x \in Steps : [r EXCEPT !.pc = x] \in TsgRecord
         /\ \A x \in GrpIDs : [r EXCEPT !.grpID = x] \in TsgRecord
         /\ \A x \in U64 : [r EXCEPT !.timesliceUs = x] \in TsgRecord
         /\ \A x \in U64 : [r EXCEPT !.interleave = x] \in TsgRecord
         /\ \A x \in SUBSET Flags : [r EXCEPT !.flags = x] \in TsgRecord
         /\ \A x \in 0 .. 2 : [r EXCEPT !.binds = x] \in TsgRecord
  BY DEF TsgRecord

(* Changing the fields that an action changes together.                    *)
LEMMA TsgUpdates ==
  ASSUME NEW r \in TsgRecord, NEW x \in Steps, NEW id \in GrpIDs, NEW ts \in U64, NEW il \in U64,
         NEW f \in SUBSET Flags, NEW b \in 0 .. 2
  PROVE  /\ [r EXCEPT !.pc = x, !.flags = f] \in TsgRecord
         /\ [r EXCEPT !.pc = x, !.grpID = id] \in TsgRecord
         /\ [r EXCEPT !.pc = x, !.timesliceUs = ts] \in TsgRecord
         /\ [r EXCEPT !.pc = x, !.binds = b] \in TsgRecord
         /\ [r EXCEPT !.pc = x, !.timesliceUs = ts, !.interleave = il, !.flags = f] \in TsgRecord
         /\ [r EXCEPT !.pc = x, !.grpID = id, !.timesliceUs = ts, !.interleave = il,
                      !.flags = f] \in TsgRecord
<1> DEFINE p == [r EXCEPT !.pc = x]
<1>1. p \in TsgRecord
  BY TsgUpdate
<1>2. /\ [p EXCEPT !.flags = f] \in TsgRecord
      /\ [p EXCEPT !.grpID = id] \in TsgRecord
      /\ [p EXCEPT !.timesliceUs = ts] \in TsgRecord
      /\ [p EXCEPT !.binds = b] \in TsgRecord
  BY <1>1, TsgUpdate, Zenon
<1>3. [[[p EXCEPT !.timesliceUs = ts] EXCEPT !.interleave = il] EXCEPT !.flags = f] \in TsgRecord
  BY <1>2, TsgUpdate, Zenon
<1>4. [[[[p EXCEPT !.grpID = id] EXCEPT !.timesliceUs = ts] EXCEPT !.interleave = il]
         EXCEPT !.flags = f] \in TsgRecord
  BY <1>2, TsgUpdate, Zenon
<1>5. /\ [r EXCEPT !.pc = x, !.flags = f] = [p EXCEPT !.flags = f]
      /\ [r EXCEPT !.pc = x, !.grpID = id] = [p EXCEPT !.grpID = id]
      /\ [r EXCEPT !.pc = x, !.timesliceUs = ts] = [p EXCEPT !.timesliceUs = ts]
      /\ [r EXCEPT !.pc = x, !.binds = b] = [p EXCEPT !.binds = b]
  OBVIOUS
<1>6. [r EXCEPT !.pc = x, !.timesliceUs = ts, !.interleave = il, !.flags = f]
        = [[[p EXCEPT !.timesliceUs = ts] EXCEPT !.interleave = il] EXCEPT !.flags = f]
  OBVIOUS
<1>7. [r EXCEPT !.pc = x, !.grpID = id, !.timesliceUs = ts, !.interleave = il, !.flags = f]
        = [[[[p EXCEPT !.grpID = id] EXCEPT !.timesliceUs = ts] EXCEPT !.interleave = il]
             EXCEPT !.flags = f]
  OBVIOUS
<1> HIDE DEF p
<1> QED BY <1>2, <1>3, <1>4, <1>5, <1>6, <1>7

(* The same for a decision context.                                        *)
LEMMA CallUpdate ==
  ASSUME NEW c \in CallRecord
  PROVE  /\ \A x \in BOOLEAN : [c EXCEPT !.policy = x] \in CallRecord
         /\ \A x \in BOOLEAN : [c EXCEPT !.allow = x] \in CallRecord
         /\ \A x \in U64 : [c EXCEPT !.params = x] \in CallRecord
         /\ \A x \in Request : [c EXCEPT !.timeslice_request = x] \in CallRecord
         /\ \A x \in Request : [c EXCEPT !.interleave_request = x] \in CallRecord
         /\ \A x \in SUBSET U64 : [c EXCEPT !.timeslices = x] \in CallRecord
         /\ \A x \in SUBSET U64 : [c EXCEPT !.interleaves = x] \in CallRecord
  BY DEF CallRecord

(* A decision context after a kfunc.                                       *)
LEMMA CallUpdates ==
  ASSUME NEW c \in CallRecord, NEW q \in Request, NEW S \in SUBSET U64
  PROVE  /\ [c EXCEPT !.timeslice_request = q, !.timeslices = S] \in CallRecord
         /\ [c EXCEPT !.interleave_request = q, !.interleaves = S] \in CallRecord
<1>1. /\ [c EXCEPT !.timeslice_request = q] \in CallRecord
      /\ [c EXCEPT !.interleave_request = q] \in CallRecord
  BY CallUpdate
<1>2. /\ [[c EXCEPT !.timeslice_request = q] EXCEPT !.timeslices = S] \in CallRecord
      /\ [[c EXCEPT !.interleave_request = q] EXCEPT !.interleaves = S] \in CallRecord
  BY <1>1, CallUpdate, Zenon
<1>3. /\ [c EXCEPT !.timeslice_request = q, !.timeslices = S]
           = [[c EXCEPT !.timeslice_request = q] EXCEPT !.timeslices = S]
      /\ [c EXCEPT !.interleave_request = q, !.interleaves = S]
           = [[c EXCEPT !.interleave_request = q] EXCEPT !.interleaves = S]
  OBVIOUS
<1> QED BY <1>2, <1>3, Zenon

(* A decision context at the start of a control.                           *)
LEMMA CallStart ==
  ASSUME NEW v \in U64, NEW p \in BOOLEAN
  PROVE  [no_call EXCEPT !.params = v, !.policy = p] \in CallRecord
<1>1. [[no_call EXCEPT !.params = v] EXCEPT !.policy = p] \in CallRecord
  BY Records, CallUpdate, Zenon
<1>2. [no_call EXCEPT !.params = v, !.policy = p]
        = [[no_call EXCEPT !.params = v] EXCEPT !.policy = p]
  OBVIOUS
<1> QED BY <1>1, <1>2, Zenon

(* What a kfunc writes is a request again (nv_gpu_transition_record_u64).  *)
LEMMA Recorded ==
  ASSUME NEW request \in Request, NEW v \in U64
  PROVE  record_u64(request, v) \in Request
  BY DEF record_u64, Request

(* What the validators pass on to the bookkeeping fits its field           *)
(* (nv_gpu_transition_validate_scheduler, nv_gpu_timeslice_control_validate). *)
LEMMA SchedulerValues ==
  ASSUME NEW expected, NEW observed, NEW ts \in U64, NEW il \in U64, NEW minimum,
         NEW tq \in Request, NEW iq \in Request
  PROVE  /\ validate_scheduler(expected, observed, ts, il, minimum, tq, iq).timeslice \in U64
         /\ validate_scheduler(expected, observed, ts, il, minimum, tq, iq).interleave \in U64
<1>1. tq.value \in U64 /\ iq.value \in U64
  BY DEF Request
<1> QED BY <1>1 DEF validate_scheduler

LEMMA ControlValue ==
  ASSUME NEW expected, NEW observed, NEW minimum, NEW q \in Request,
         expected.requested_timeslice_us \in U64
  PROVE  timeslice_control_validate(expected, observed, minimum, q).effective \in U64
<1>1. q.value \in U64
  BY DEF Request
<1> QED BY <1>1 DEF timeslice_control_validate

(* The fields of typed records.                                            *)
LEMMA TsgFields ==
  ASSUME NEW r \in TsgRecord
  PROVE  /\ r.pc \in Steps /\ r.grpID \in GrpIDs /\ r.timesliceUs \in U64
         /\ r.interleave \in U64 /\ r.flags \in SUBSET Flags /\ r.binds \in 0 .. 2
  BY DEF TsgRecord

LEMMA CallFields ==
  ASSUME NEW c \in CallRecord
  PROVE  /\ c.policy \in BOOLEAN /\ c.allow \in BOOLEAN /\ c.params \in U64
         /\ c.timeslice_request \in Request /\ c.interleave_request \in Request
         /\ c.timeslices \in SUBSET U64 /\ c.interleaves \in SUBSET U64
  BY DEF CallRecord

(* A step that changes one TSG's record and takes, keeps or releases the   *)
(* GPU lock accordingly keeps the types and the lock discipline.           *)
LEMMA OneTsg ==
  ASSUME TypeOK, NEW t \in Tsg, NEW r \in TsgRecord,
         tsg' = [tsg EXCEPT ![t] = r],
         \/ lock' = t /\ r.pc \in Locked /\ lock \in {t, NoTsg}
         \/ lock' = NoTsg /\ lock \in {t, NoTsg} /\ r.pc \notin Locked
         \/ lock' = lock /\ (r.pc \in Locked <=> tsg[t].pc \in Locked)
  PROVE  /\ tsg' \in [Tsg -> TsgRecord]
         /\ lock' \in Tsg \cup {NoTsg}
         /\ \A s \in Tsg : tsg'[s].pc \in Locked <=> lock' = s
<1>1. tsg \in [Tsg -> TsgRecord] /\ lock \in Tsg \cup {NoTsg}
  BY DEF TypeOK
<1>2. \A s \in Tsg : tsg[s].pc \in Locked <=> lock = s
  BY DEF TypeOK
<1>3. tsg' \in [Tsg -> TsgRecord]
  BY <1>1
<1>4. \A s \in Tsg : tsg'[s] = IF s = t THEN r ELSE tsg[s]
  BY <1>1
<1> HIDE DEF TypeOK
<1> QED BY <1>1, <1>2, <1>3, <1>4, Constants

(* A step that only moves a TSG to another point of its operation.         *)
LEMMA Goto ==
  ASSUME TypeOK, NEW t \in Tsg, NEW x \in Steps,
         goto(t, x),
         \/ lock' = t /\ x \in Locked /\ lock \in {t, NoTsg}
         \/ lock' = NoTsg /\ lock \in {t, NoTsg} /\ x \notin Locked
         \/ lock' = lock /\ (x \in Locked <=> tsg[t].pc \in Locked)
  PROVE  /\ tsg' \in [Tsg -> TsgRecord]
         /\ lock' \in Tsg \cup {NoTsg}
         /\ \A s \in Tsg : tsg'[s].pc \in Locked <=> lock' = s
<1>1. tsg[t] \in TsgRecord
  BY DEF TypeOK
<1>2. [tsg[t] EXCEPT !.pc = x] \in TsgRecord
  BY <1>1, TsgUpdate
<1>3. [tsg[t] EXCEPT !.pc = x].pc = x
  BY <1>1 DEF TsgRecord
<1>4. tsg' = [tsg EXCEPT ![t] = [tsg[t] EXCEPT !.pc = x]]
  BY DEF goto, becomes
<1> QED BY <1>2, <1>3, <1>4, OneTsg

-----------------------------------------------------------------------------
(* Every variable keeps its type, and the GPU lock is held by exactly the  *)
(* TSG whose operation is at a step that needs it: the constructor gives   *)
(* it up only around the reservation of context buffers and takes it again *)
(* for the cleanup.                                                        *)
THEOREM TypeCorrect == Spec => []TypeOK
<1>1. Init => TypeOK
  <2> SUFFICES ASSUME Init PROVE TypeOK
    OBVIOUS
  <2>1. \A t \in Tsg : tsg[t].pc \notin Locked /\ lock # t
    BY Constants DEF Init, new_tsg, Locked
  <2> QED BY <2>1, Records DEF Init, TypeOK
<1>2. TypeOK /\ [Next]_vars => TypeOK'
  <2> SUFFICES ASSUME TypeOK, [Next]_vars PROVE TypeOK'
    OBVIOUS
  <2>0. \A t \in Tsg : tsg[t] \in TsgRecord /\ gsp[t] \in GspRecord
    BY DEF TypeOK
  <2>1. CASE UNCHANGED vars
    BY <2>1 DEF vars, TypeOK
  <2>2. CASE Register
    BY <2>2 DEF Register, TypeOK
  <2>3. CASE Unregister
    BY <2>3 DEF Unregister, TypeOK
  <2>4. ASSUME NEW t \in Tsg, EarlyFails(t) PROVE TypeOK'
    <3>1. /\ tsg' \in [Tsg -> TsgRecord]
          /\ lock' \in Tsg \cup {NoTsg}
          /\ \A s \in Tsg : tsg'[s].pc \in Locked <=> lock' = s
      BY <2>4, Goto DEF EarlyFails, at, Steps, Locked, TypeOK
    <3> QED BY <2>4, <3>1, Records DEF EarlyFails, TypeOK
  <2>5. ASSUME NEW t \in Tsg, LocalFails(t) PROVE TypeOK'
    <3>1. /\ tsg' \in [Tsg -> TsgRecord]
          /\ lock' \in Tsg \cup {NoTsg}
          /\ \A s \in Tsg : tsg'[s].pc \in Locked <=> lock' = s
      BY <2>5, Goto DEF LocalFails, at, Steps, Locked, TypeOK
    <3> QED BY <2>5, <3>1, Records DEF LocalFails, TypeOK
  <2>6. ASSUME NEW t \in Tsg, ReplayTimeslice(t) PROVE TypeOK'
    <3>1. /\ tsg' \in [Tsg -> TsgRecord]
          /\ lock' \in Tsg \cup {NoTsg}
          /\ \A s \in Tsg : tsg'[s].pc \in Locked <=> lock' = s
      BY <2>6, Goto DEF ReplayTimeslice, at, Steps, Locked, TypeOK
    <3>2. gsp' \in [Tsg -> GspRecord]
      BY <2>6, <2>0, TsgFields DEF ReplayTimeslice, TypeOK, GspRecord
    <3> QED BY <2>6, <3>1, <3>2 DEF ReplayTimeslice, TypeOK
  <2>7. ASSUME NEW t \in Tsg, ReplayInterleave(t) PROVE TypeOK'
    <3>1. /\ tsg' \in [Tsg -> TsgRecord]
          /\ lock' \in Tsg \cup {NoTsg}
          /\ \A s \in Tsg : tsg'[s].pc \in Locked <=> lock' = s
      BY <2>7, Goto DEF ReplayInterleave, at, Steps, Locked, TypeOK
    <3>2. gsp' \in [Tsg -> GspRecord]
      BY <2>7, <2>0, TsgFields DEF ReplayInterleave, TypeOK, GspRecord
    <3> QED BY <2>7, <3>1, <3>2 DEF ReplayInterleave, TypeOK
  <2>8. ASSUME NEW t \in Tsg, ReplayFails(t) PROVE TypeOK'
    <3>1. /\ tsg' \in [Tsg -> TsgRecord]
          /\ lock' \in Tsg \cup {NoTsg}
          /\ \A s \in Tsg : tsg'[s].pc \in Locked <=> lock' = s
      BY <2>8, Goto DEF ReplayFails, at, Steps, Locked, TypeOK
    <3> QED BY <2>8, <3>1, Records DEF ReplayFails, TypeOK
  <2>9. ASSUME NEW t \in Tsg, Promote(t) PROVE TypeOK'
    <3>1. /\ tsg' \in [Tsg -> TsgRecord]
          /\ lock' \in Tsg \cup {NoTsg}
          /\ \A s \in Tsg : tsg'[s].pc \in Locked <=> lock' = s
      BY <2>9, Goto DEF Promote, at, Steps, Locked, TypeOK
    <3> QED BY <2>9, <3>1, Records DEF Promote, TypeOK
  <2>10. ASSUME NEW t \in Tsg, PromoteFails(t) PROVE TypeOK'
    <3>1. /\ tsg' \in [Tsg -> TsgRecord]
          /\ lock' \in Tsg \cup {NoTsg}
          /\ \A s \in Tsg : tsg'[s].pc \in Locked <=> lock' = s
      BY <2>10, Goto DEF PromoteFails, at, Steps, Locked, TypeOK
    <3> QED BY <2>10, <3>1, Records DEF PromoteFails, TypeOK
  <2>11. ASSUME NEW t \in Tsg, Reserve(t) PROVE TypeOK'
    <3>1. /\ tsg' \in [Tsg -> TsgRecord]
          /\ lock' \in Tsg \cup {NoTsg}
          /\ \A s \in Tsg : tsg'[s].pc \in Locked <=> lock' = s
      BY <2>11, Goto DEF Reserve, at, Steps, Locked, TypeOK
    <3> QED BY <2>11, <3>1, Records DEF Reserve, TypeOK
  <2>12. ASSUME NEW t \in Tsg, ReserveFails(t) PROVE TypeOK'
    <3>1. /\ tsg' \in [Tsg -> TsgRecord]
          /\ lock' \in Tsg \cup {NoTsg}
          /\ \A s \in Tsg : tsg'[s].pc \in Locked <=> lock' = s
      BY <2>12, Goto DEF ReserveFails, at, Steps, Locked, TypeOK
    <3> QED BY <2>12, <3>1, Records DEF ReserveFails, TypeOK
  <2>13. ASSUME NEW t \in Tsg, Relock(t) PROVE TypeOK'
    <3>1. /\ tsg' \in [Tsg -> TsgRecord]
          /\ lock' \in Tsg \cup {NoTsg}
          /\ \A s \in Tsg : tsg'[s].pc \in Locked <=> lock' = s
      BY <2>13, Goto DEF Relock, at, Steps, Locked, TypeOK
    <3> QED BY <2>13, <3>1, Records DEF Relock, TypeOK
  <2>14. ASSUME NEW t \in Tsg, SetTimesliceFails(t) PROVE TypeOK'
    <3>1. /\ tsg' \in [Tsg -> TsgRecord]
          /\ lock' \in Tsg \cup {NoTsg}
          /\ \A s \in Tsg : tsg'[s].pc \in Locked <=> lock' = s
      BY <2>14, Goto DEF SetTimesliceFails, at, Steps, Locked, TypeOK
    <3> QED BY <2>14, <3>1, Records DEF SetTimesliceFails, TypeOK
  <2>15. ASSUME NEW t \in Tsg, ScheduleFails(t) PROVE TypeOK'
    <3>1. /\ tsg' \in [Tsg -> TsgRecord]
          /\ lock' \in Tsg \cup {NoTsg}
          /\ \A s \in Tsg : tsg'[s].pc \in Locked <=> lock' = s
      BY <2>15, Goto DEF ScheduleFails, at, Steps, Locked, TypeOK
    <3> QED BY <2>15, <3>1, Records DEF ScheduleFails, TypeOK
  <2>16. ASSUME NEW t \in Tsg, StartConstruct(t) PROVE TypeOK'
    <3> DEFINE r == [new_tsg EXCEPT !.pc = "share"]
    <3>2. tsg' = [tsg EXCEPT ![t] = r]
      BY <2>16, Zenon DEF StartConstruct, becomes
    <3>3. r \in TsgRecord
      BY <2>0, Constants, Records, TsgFields, TsgUpdate DEF Steps, Locked
    <3>4. r.pc = "share"
      BY <2>0, Records DEF TsgRecord, new_tsg
    <3> HIDE DEF r
    <3>5. /\ tsg' \in [Tsg -> TsgRecord]
          /\ lock' \in Tsg \cup {NoTsg}
          /\ \A s \in Tsg : tsg'[s].pc \in Locked <=> lock' = s
      BY <2>16, <3>2, <3>3, <3>4, OneTsg DEF StartConstruct, at, TypeOK, Locked
    <3> QED BY <2>16, <3>5, Records DEF StartConstruct, TypeOK
  <2>17. ASSUME NEW t \in Tsg, AllocFails(t) PROVE TypeOK'
    <3> DEFINE f == tsg[t].flags \cup {"bRpcFree"}
    <3> DEFINE r == [tsg[t] EXCEPT !.pc = "failed", !.flags = f]
    <3>1. f \in SUBSET Flags
      BY <2>0, TsgFields DEF Flags, when
    <3>2. tsg' = [tsg EXCEPT ![t] = r]
      BY <2>17, ZenonT(40) DEF AllocFails, becomes
    <3> HIDE DEF f
    <3>3. r \in TsgRecord
      BY <2>0, Constants, Records, TsgFields, <3>1, TsgUpdates, ZenonT(40) DEF Steps, Locked
    <3>4. r.pc = "failed"
      BY <2>0, Records DEF TsgRecord
    <3> HIDE DEF r
    <3>5. /\ tsg' \in [Tsg -> TsgRecord]
          /\ lock' \in Tsg \cup {NoTsg}
          /\ \A s \in Tsg : tsg'[s].pc \in Locked <=> lock' = s
      BY <2>17, <3>2, <3>3, <3>4, OneTsg DEF AllocFails, at, TypeOK, Locked
    <3> QED BY <2>17, <3>5, Records DEF AllocFails, TypeOK
  <2>18. ASSUME NEW t \in Tsg, RollbackFails(t) PROVE TypeOK'
    <3> DEFINE f == tsg[t].flags \cup {"rollback_failed"}
    <3> DEFINE r == [tsg[t] EXCEPT !.pc = "teardown", !.flags = f]
    <3>1. f \in SUBSET Flags
      BY <2>0, TsgFields DEF Flags, when
    <3>2. tsg' = [tsg EXCEPT ![t] = r]
      BY <2>18, Zenon DEF RollbackFails, becomes
    <3> HIDE DEF f
    <3>3. r \in TsgRecord
      BY <2>0, Constants, Records, TsgFields, <3>1, TsgUpdates, ZenonT(40) DEF Steps, Locked
    <3>4. r.pc = "teardown"
      BY <2>0, Records DEF TsgRecord
    <3> HIDE DEF r
    <3>5. /\ tsg' \in [Tsg -> TsgRecord]
          /\ lock' \in Tsg \cup {NoTsg}
          /\ \A s \in Tsg : tsg'[s].pc \in Locked <=> lock' = s
      BY <2>18, <3>2, <3>3, <3>4, OneTsg DEF RollbackFails, at, TypeOK, Locked
    <3> QED BY <2>18, <3>5, Records DEF RollbackFails, TypeOK
  <2>19. ASSUME NEW t \in Tsg, StartFree(t) PROVE TypeOK'
    <3> DEFINE f == tsg[t].flags \ {"allocated"}
    <3> DEFINE r == [tsg[t] EXCEPT !.pc = "teardown", !.flags = f]
    <3>1. f \in SUBSET Flags
      BY <2>0, TsgFields DEF Flags, when
    <3>2. tsg' = [tsg EXCEPT ![t] = r]
      BY <2>19, Zenon DEF StartFree, becomes
    <3> HIDE DEF f
    <3>3. r \in TsgRecord
      BY <2>0, Constants, Records, TsgFields, <3>1, TsgUpdates, ZenonT(40) DEF Steps, Locked
    <3>4. r.pc = "teardown"
      BY <2>0, Records DEF TsgRecord
    <3> HIDE DEF r
    <3>5. /\ tsg' \in [Tsg -> TsgRecord]
          /\ lock' \in Tsg \cup {NoTsg}
          /\ \A s \in Tsg : tsg'[s].pc \in Locked <=> lock' = s
      BY <2>19, <3>2, <3>3, <3>4, OneTsg DEF StartFree, at, TypeOK, Locked
    <3>6. gsp' \in [Tsg -> GspRecord]
      BY <2>19, Records, Constants DEF StartFree, TypeOK, GspRecord
    <3> QED BY <2>19, <3>5, <3>6 DEF StartFree, TypeOK
  <2>20. ASSUME NEW t \in Tsg, FreeFails(t) PROVE TypeOK'
    <3> DEFINE f == tsg[t].flags \ {"allocated"}
    <3> DEFINE r == [tsg[t] EXCEPT !.pc = "teardown", !.flags = f]
    <3>1. f \in SUBSET Flags
      BY <2>0, TsgFields DEF Flags, when
    <3>2. tsg' = [tsg EXCEPT ![t] = r]
      BY <2>20, Zenon DEF FreeFails, becomes
    <3> HIDE DEF f
    <3>3. r \in TsgRecord
      BY <2>0, Constants, Records, TsgFields, <3>1, TsgUpdates DEF Steps, Locked
    <3>4. r.pc = "teardown"
      BY <2>0, Records DEF TsgRecord
    <3> HIDE DEF r
    <3>5. /\ tsg' \in [Tsg -> TsgRecord]
          /\ lock' \in Tsg \cup {NoTsg}
          /\ \A s \in Tsg : tsg'[s].pc \in Locked <=> lock' = s
      BY <2>20, <3>2, <3>3, <3>4, OneTsg DEF FreeFails, at, TypeOK, Locked
    <3> QED BY <2>20, <3>5, Records DEF FreeFails, TypeOK
  <2>21. ASSUME NEW t \in Tsg, AllocObject(t) PROVE TypeOK'
    <3> DEFINE f == tsg[t].flags \cup {"allocated", "bRpcFree"} \cup
            when(policy_applied(t), "bPolicyRemoteAllocated")
    <3> DEFINE r == [tsg[t] EXCEPT !.pc = "timeslice", !.flags = f]
    <3>1. f \in SUBSET Flags
      BY <2>0, TsgFields DEF Flags, when
    <3>2. tsg' = [tsg EXCEPT ![t] = r]
      BY <2>21, Zenon DEF AllocObject, becomes
    <3> HIDE DEF f
    <3>3. r \in TsgRecord
      BY <2>0, Constants, Records, TsgFields, <3>1, TsgUpdates DEF Steps, Locked
    <3>4. r.pc = "timeslice"
      BY <2>0, Records DEF TsgRecord
    <3> HIDE DEF r
    <3>5. /\ tsg' \in [Tsg -> TsgRecord]
          /\ lock' \in Tsg \cup {NoTsg}
          /\ \A s \in Tsg : tsg'[s].pc \in Locked <=> lock' = s
      BY <2>21, <3>2, <3>3, <3>4, OneTsg DEF AllocObject, at, TypeOK, Locked
    <3>6. gsp' \in [Tsg -> GspRecord]
      BY <2>21, Records, Constants DEF AllocObject, TypeOK, GspRecord
    <3> QED BY <2>21, <3>5, <3>6 DEF AllocObject, TypeOK
  <2>22. ASSUME NEW t \in Tsg, Rollback(t) PROVE TypeOK'
    <3> DEFINE f == tsg[t].flags \ when(flag(t, "bPolicyRemoteAllocated"), "bRpcFree")
    <3> DEFINE r == [tsg[t] EXCEPT !.pc = "teardown", !.flags = f]
    <3>1. f \in SUBSET Flags
      BY <2>0, TsgFields DEF Flags, when
    <3>2. tsg' = [tsg EXCEPT ![t] = r]
      BY <2>22, Zenon DEF Rollback, becomes
    <3> HIDE DEF f
    <3>3. r \in TsgRecord
      BY <2>0, Constants, Records, TsgFields, <3>1, TsgUpdates DEF Steps, Locked
    <3>4. r.pc = "teardown"
      BY <2>0, Records DEF TsgRecord
    <3> HIDE DEF r
    <3>5. /\ tsg' \in [Tsg -> TsgRecord]
          /\ lock' \in Tsg \cup {NoTsg}
          /\ \A s \in Tsg : tsg'[s].pc \in Locked <=> lock' = s
      BY <2>22, <3>2, <3>3, <3>4, OneTsg DEF Rollback, at, TypeOK, Locked
    <3>6. gsp' \in [Tsg -> GspRecord]
      BY <2>22, Records, Constants DEF Rollback, TypeOK, GspRecord
    <3> QED BY <2>22, <3>5, <3>6 DEF Rollback, TypeOK
  <2>23. ASSUME NEW t \in Tsg, RelockFails(t) PROVE TypeOK'
    <3> DEFINE f == tsg[t].flags \ {"scheduled"}
    <3> DEFINE r == [new_tsg EXCEPT !.flags = f]
    <3>1. f \in SUBSET Flags
      BY <2>0, TsgFields DEF Flags, when
    <3>2. tsg' = [tsg EXCEPT ![t] = r]
      BY <2>23, Zenon DEF RelockFails, becomes, gone
    <3> HIDE DEF f
    <3>3. r \in TsgRecord
      BY <2>0, Constants, Records, TsgFields, <3>1, TsgUpdate DEF Steps, Locked
    <3>4. r.pc = "none"
      BY <2>0, Records DEF TsgRecord, new_tsg
    <3> HIDE DEF r
    <3>5. /\ tsg' \in [Tsg -> TsgRecord]
          /\ lock' \in Tsg \cup {NoTsg}
          /\ \A s \in Tsg : tsg'[s].pc \in Locked <=> lock' = s
      BY <2>23, <3>2, <3>3, <3>4, OneTsg DEF RelockFails, at, TypeOK, Locked
    <3> QED BY <2>23, <3>5, Records DEF RelockFails, TypeOK
  <2>24. ASSUME NEW t \in Tsg, Teardown(t) PROVE TypeOK'
    <3> DEFINE f == tsg[t].flags \ {"scheduled"}
    <3> DEFINE r == [new_tsg EXCEPT !.flags = f]
    <3>1. f \in SUBSET Flags
      BY <2>0, TsgFields DEF Flags, when
    <3>2. tsg' = [tsg EXCEPT ![t] = r]
      BY <2>24, Zenon DEF Teardown, becomes, gone
    <3> HIDE DEF f
    <3>3. r \in TsgRecord
      BY <2>0, Constants, Records, TsgFields, <3>1, TsgUpdate DEF Steps, Locked
    <3>4. r.pc = "none"
      BY <2>0, Records DEF TsgRecord, new_tsg
    <3> HIDE DEF r
    <3>5. /\ tsg' \in [Tsg -> TsgRecord]
          /\ lock' \in Tsg \cup {NoTsg}
          /\ \A s \in Tsg : tsg'[s].pc \in Locked <=> lock' = s
      BY <2>24, <3>2, <3>3, <3>4, OneTsg DEF Teardown, at, TypeOK, Locked
    <3>6. ids' \subseteq GrpIDs /\ known' \subseteq GrpIDs
      BY <2>24 DEF Teardown, TypeOK
    <3> QED BY <2>24, <3>5, <3>6, Records DEF Teardown, TypeOK
  <2>25. ASSUME NEW t \in Tsg, ScheduleReturn(t) PROVE TypeOK'
    <3> DEFINE f == (tsg[t].flags \ {"scheduled"}) \cup when(call.params = 1, "scheduled")
    <3> DEFINE r == [tsg[t] EXCEPT !.pc = "live", !.flags = f]
    <3>1. f \in SUBSET Flags
      BY <2>0, TsgFields DEF Flags, when
    <3>2. tsg' = [tsg EXCEPT ![t] = r]
      BY <2>25, Zenon DEF ScheduleReturn, becomes
    <3> HIDE DEF f
    <3>3. r \in TsgRecord
      BY <2>0, Constants, Records, TsgFields, <3>1, TsgUpdates DEF Steps, Locked
    <3>4. r.pc = "live"
      BY <2>0, Records DEF TsgRecord
    <3> HIDE DEF r
    <3>5. /\ tsg' \in [Tsg -> TsgRecord]
          /\ lock' \in Tsg \cup {NoTsg}
          /\ \A s \in Tsg : tsg'[s].pc \in Locked <=> lock' = s
      BY <2>25, <3>2, <3>3, <3>4, OneTsg DEF ScheduleReturn, at, TypeOK, Locked
    <3> QED BY <2>25, <3>5, Records DEF ScheduleReturn, TypeOK
  <2>26. ASSUME NEW t \in Tsg, NEW v \in Timeslices, SetTimeslice(t, v) PROVE TypeOK'
    <3> DEFINE q == record_u64(call.timeslice_request, v)
               S == asked(call.timeslices, v)
    <3>1. v \in U64 /\ call \in CallRecord
      BY Constants DEF TypeOK
    <3>2. call' = [call EXCEPT !.timeslice_request = q, !.timeslices = S]
      BY <2>26, Zenon DEF SetTimeslice
    <3>3. q \in Request
      BY <3>1, CallFields, Recorded
    <3>4. S \in SUBSET U64
      BY <3>1, CallFields DEF asked
    <3> HIDE DEF q, S
    <3>5. call' \in CallRecord
      BY <3>1, <3>2, <3>3, <3>4, CallUpdates
    <3> QED BY <2>26, <3>5 DEF SetTimeslice, TypeOK
  <2>27. ASSUME NEW t \in Tsg, NEW v \in Interleaves, SetInterleave(t, v) PROVE TypeOK'
    <3> DEFINE q == record_u64(call.interleave_request, v)
               S == asked(call.interleaves, v)
    <3>1. v \in U64 /\ call \in CallRecord
      BY Constants DEF TypeOK
    <3>2. call' = [call EXCEPT !.interleave_request = q, !.interleaves = S]
      BY <2>27, Zenon DEF SetInterleave, record_u32
    <3>3. q \in Request
      BY <3>1, CallFields, Recorded
    <3>4. S \in SUBSET U64
      BY <3>1, CallFields DEF asked
    <3> HIDE DEF q, S
    <3>5. call' \in CallRecord
      BY <3>1, <3>2, <3>3, <3>4, CallUpdates
    <3> QED BY <2>27, <3>5 DEF SetInterleave, TypeOK
  <2>28. ASSUME NEW t \in Tsg, NEW v \in Timeslices, OverrideTimeslice(t, v) PROVE TypeOK'
    <3> DEFINE q == record_u64(call.timeslice_request, v)
               S == asked(call.timeslices, v)
    <3>1. v \in U64 /\ call \in CallRecord
      BY Constants DEF TypeOK
    <3>2. call' = [call EXCEPT !.timeslice_request = q, !.timeslices = S]
      BY <2>28, Zenon DEF OverrideTimeslice
    <3>3. q \in Request
      BY <3>1, CallFields, Recorded
    <3>4. S \in SUBSET U64
      BY <3>1, CallFields DEF asked
    <3> HIDE DEF q, S
    <3>5. call' \in CallRecord
      BY <3>1, <3>2, <3>3, <3>4, CallUpdates
    <3> QED BY <2>28, <3>5 DEF OverrideTimeslice, TypeOK
  <2>29. ASSUME NEW t \in Tsg, RejectBind(t) PROVE TypeOK'
    <3>1. call \in CallRecord
      BY DEF TypeOK
    <3>2. call' \in CallRecord
      BY <2>29, <3>1, CallUpdate, Zenon DEF RejectBind
    <3> QED BY <2>29, <3>2 DEF RejectBind, TypeOK
  <2>30. ASSUME NEW t \in Tsg, InitFails(t) PROVE TypeOK'
    <3>1. PICK id \in GrpIDs : becomes(t, [tsg[t] EXCEPT !.pc = "failed", !.grpID = id])
      BY <2>30 DEF InitFails
    <3> DEFINE r == [tsg[t] EXCEPT !.pc = "failed", !.grpID = id]
    <3>2. tsg' = [tsg EXCEPT ![t] = r]
      BY <3>1, SMTT(40) DEF becomes
    <3>3. r \in TsgRecord
      BY <2>0, Constants, TsgFields, TsgUpdates, ZenonT(40) DEF Steps, Locked
    <3>4. r.pc = "failed"
      BY <2>0 DEF TsgRecord
    <3> HIDE DEF r
    <3>5. /\ tsg' \in [Tsg -> TsgRecord]
          /\ lock' \in Tsg \cup {NoTsg}
          /\ \A s \in Tsg : tsg'[s].pc \in Locked <=> lock' = s
      BY <2>30, <3>2, <3>3, <3>4, OneTsg DEF InitFails, at, TypeOK, Locked
    <3> QED BY <2>30, <3>5 DEF InitFails, TypeOK
  <2>31. ASSUME NEW t \in Tsg, TaskInit(t) PROVE TypeOK'
    <3> DEFINE f == tsg[t].flags \cup {"bTsgAllocated"}
               r(id) == [tsg[t] EXCEPT !.pc = "on_task_init", !.grpID = id,
                                       !.timesliceUs = DefaultTimeslice,
                                       !.interleave = LEVEL_MEDIUM, !.flags = f]
    <3>1. PICK id \in GrpIDs : ids' = ids \cup {id} /\ known' = known \cup {id} /\ becomes(t, r(id))
      BY <2>31 DEF TaskInit
    <3>2. tsg' = [tsg EXCEPT ![t] = r(id)]
      BY <3>1 DEF becomes
    <3>3. f \in SUBSET Flags
      BY <2>0, TsgFields DEF Flags
    <3> HIDE DEF f
    <3>4. r(id) \in TsgRecord
      BY <2>0, <3>3, Constants, TsgFields, TsgUpdates, ZenonT(40) DEF Steps, Locked
    <3>5. r(id).pc = "on_task_init"
      BY <2>0 DEF TsgRecord
    <3> HIDE DEF r
    <3>6. /\ tsg' \in [Tsg -> TsgRecord]
          /\ lock' \in Tsg \cup {NoTsg}
          /\ \A s \in Tsg : tsg'[s].pc \in Locked <=> lock' = s
      BY <2>31, <3>2, <3>4, <3>5, OneTsg DEF TaskInit, at, TypeOK, Locked
    <3>7. call' \in CallRecord
      BY <2>31, Records, CallUpdate DEF TaskInit, TypeOK
    <3> QED BY <2>31, <3>1, <3>6, <3>7 DEF TaskInit, TypeOK
  <2>32. ASSUME NEW t \in Tsg, TaskInitReturn(t) PROVE TypeOK'
    <3> DEFINE snapshot == [tsg_id |-> tsg[t].grpID, runlist_id |-> 0, phase |-> 1]
               validation == validate_scheduler(snapshot, snapshot, tsg[t].timesliceUs,
                                 tsg[t].interleave, MinTimeslice,
                                 call.timeslice_request, call.interleave_request)
               ts == validation.timeslice
               il == validation.interleave
               f == tsg[t].flags \cup
                      (when(validation.timeslice_result = "APPLY", "bPolicyTimeslice")
                         \cup when(validation.interleave_result = "APPLY", "bPolicyInterleave"))
               r == [tsg[t] EXCEPT !.pc = "alloc", !.timesliceUs = ts, !.interleave = il,
                                   !.flags = f]
    <3>1. tsg' = [tsg EXCEPT ![t] = r]
      BY <2>32, Zenon DEF TaskInitReturn, becomes
    <3>2. ts \in U64 /\ il \in U64
      BY <2>0, TsgFields, CallFields, SchedulerValues DEF TypeOK
    <3> HIDE DEF validation
    <3>3. f \in SUBSET Flags
      BY <2>0, TsgFields DEF Flags, when
    <3> HIDE DEF ts, il, f
    <3>4. r \in TsgRecord
      BY <2>0, <3>2, <3>3, Constants, TsgFields, TsgUpdates, ZenonT(40) DEF Steps, Locked
    <3>5. r.pc = "alloc"
      BY <2>0 DEF TsgRecord
    <3> HIDE DEF r
    <3>6. /\ tsg' \in [Tsg -> TsgRecord]
          /\ lock' \in Tsg \cup {NoTsg}
          /\ \A s \in Tsg : tsg'[s].pc \in Locked <=> lock' = s
      BY <2>32, <3>1, <3>4, <3>5, OneTsg DEF TaskInitReturn, at, TypeOK, Locked
    <3> QED BY <2>32, <3>6 DEF TaskInitReturn, TypeOK
  <2>33. ASSUME NEW t \in Tsg, NEW v \in Timeslices, StartSetTimeslice(t, v) PROVE TypeOK'
    <3> DEFINE eligible == timeslice_control_eligible(v, MinTimeslice)
               x == IF eligible THEN "on_timeslice_control" ELSE "set_timeslice"
               p == eligible /\ registered
    <3>1. /\ goto(t, x) /\ lock = NoTsg /\ lock' = t
          /\ call' = [no_call EXCEPT !.params = v, !.policy = p]
      BY <2>33, Zenon DEF StartSetTimeslice
    <3>2. p \in BOOLEAN
      BY DEF timeslice_control_eligible, TypeOK
    <3>3. x \in Locked /\ x \in Steps
      BY DEF Steps, Locked
    <3> HIDE DEF eligible, p, x
    <3>4. /\ tsg' \in [Tsg -> TsgRecord]
          /\ lock' \in Tsg \cup {NoTsg}
          /\ \A s \in Tsg : tsg'[s].pc \in Locked <=> lock' = s
      BY <3>1, <3>3, Goto
    <3>5. call' \in CallRecord
      BY <3>1, <3>2, Constants, CallStart
    <3> QED BY <2>33, <3>4, <3>5 DEF StartSetTimeslice, TypeOK
  <2>34. ASSUME NEW t \in Tsg, TimesliceControlReturn(t) PROVE TypeOK'
    <3> DEFINE ctx == [tsg_id |-> tsg[t].grpID, requested_timeslice_us |-> call.params,
                       hclient |-> 1, htsg |-> 1, phase |-> TIMESLICE_CONTROL_PHASE]
               validated == timeslice_control_validate(ctx, ctx, MinTimeslice,
                                                       call.timeslice_request)
    <3>1. \/ goto(t, "live") /\ lock' = NoTsg /\ call' = no_call
          \/ /\ goto(t, "set_timeslice") /\ lock' = lock
             /\ call' = [call EXCEPT !.params = validated.effective]
      BY <2>34, Zenon DEF TimesliceControlReturn
    <3>2. validated.effective \in U64
      <4>1. ctx.requested_timeslice_us \in U64 /\ call.timeslice_request \in Request
        BY CallFields DEF TypeOK
      <4> HIDE DEF ctx
      <4> QED BY <4>1, ControlValue
    <3> HIDE DEF validated
    <3>3. /\ tsg' \in [Tsg -> TsgRecord]
          /\ lock' \in Tsg \cup {NoTsg}
          /\ \A s \in Tsg : tsg'[s].pc \in Locked <=> lock' = s
      BY <2>34, <3>1, Goto DEF TimesliceControlReturn, at, Steps, Locked, TypeOK
    <3>4. call' \in CallRecord
      BY <3>1, <3>2, Records, CallUpdate DEF TypeOK
    <3> QED BY <2>34, <3>3, <3>4 DEF TimesliceControlReturn, TypeOK
  <2>35. ASSUME NEW t \in Tsg, SetTimesliceRpc(t) PROVE TypeOK'
    <3> DEFINE v == call.params
               r == [tsg[t] EXCEPT !.pc = "live", !.timesliceUs = v]
    <3>1. tsg' = [tsg EXCEPT ![t] = r]
      BY <2>35 DEF SetTimesliceRpc, becomes
    <3>2. v \in U64
      BY CallFields DEF TypeOK
    <3>3. gsp' \in [Tsg -> GspRecord]
      BY <2>35, <3>2 DEF SetTimesliceRpc, TypeOK, GspRecord
    <3> HIDE DEF v
    <3>4. r \in TsgRecord
      BY <2>0, <3>2, Constants, TsgFields, TsgUpdates, ZenonT(40) DEF Steps, Locked
    <3>5. r.pc = "live"
      BY <2>0 DEF TsgRecord
    <3> HIDE DEF r
    <3>6. /\ tsg' \in [Tsg -> TsgRecord]
          /\ lock' \in Tsg \cup {NoTsg}
          /\ \A s \in Tsg : tsg'[s].pc \in Locked <=> lock' = s
      BY <2>35, <3>1, <3>4, <3>5, OneTsg DEF SetTimesliceRpc, at, TypeOK, Locked
    <3> QED BY <2>35, <3>3, <3>6, Records DEF SetTimesliceRpc, TypeOK
  <2>36. ASSUME NEW t \in Tsg, NEW v \in Interleaves, SetInterleaveLevel(t, v) PROVE TypeOK'
    <3> DEFINE r == [tsg[t] EXCEPT !.interleave = v]
    <3>1. tsg' = [tsg EXCEPT ![t] = r]
      BY <2>36 DEF SetInterleaveLevel, becomes
    <3>2. v \in U64
      BY Constants
    <3>3. gsp' \in [Tsg -> GspRecord]
      BY <2>36, <3>2 DEF SetInterleaveLevel, TypeOK, GspRecord
    <3>4. r \in TsgRecord
      BY <2>0, <3>2, TsgUpdate
    <3>5. r.pc = tsg[t].pc
      BY <2>0 DEF TsgRecord
    <3> HIDE DEF r
    <3>6. /\ tsg' \in [Tsg -> TsgRecord]
          /\ lock' \in Tsg \cup {NoTsg}
          /\ \A s \in Tsg : tsg'[s].pc \in Locked <=> lock' = s
      BY <2>36, <3>1, <3>4, <3>5, OneTsg DEF SetInterleaveLevel, at, TypeOK, Locked
    <3> QED BY <2>36, <3>3, <3>6 DEF SetInterleaveLevel, TypeOK
  <2>37. ASSUME NEW t \in Tsg, NEW enable \in {0, 1}, StartSchedule(t, enable) PROVE TypeOK'
    <3> DEFINE b == IF tsg[t].binds < 2 THEN tsg[t].binds + 1 ELSE tsg[t].binds
               r == [tsg[t] EXCEPT !.pc = "on_bind", !.binds = b]
    <3>1. tsg' = [tsg EXCEPT ![t] = r]
      BY <2>37, Zenon DEF StartSchedule, becomes
    <3>2. b \in 0 .. 2
      BY <2>0, TsgFields
    <3> HIDE DEF b
    <3>3. r \in TsgRecord
      BY <2>0, <3>2, Constants, TsgFields, TsgUpdates DEF Steps, Locked
    <3>4. r.pc = "on_bind"
      BY <2>0 DEF TsgRecord
    <3> HIDE DEF r
    <3>5. /\ tsg' \in [Tsg -> TsgRecord]
          /\ lock' \in Tsg \cup {NoTsg}
          /\ \A s \in Tsg : tsg'[s].pc \in Locked <=> lock' = s
      BY <2>37, <3>1, <3>3, <3>4, OneTsg DEF StartSchedule, at, TypeOK, Locked
    <3>6. enable \in U64 /\ registered \in BOOLEAN
      BY Constants DEF TypeOK
    <3>7. call' \in CallRecord
      BY <2>37, <3>6, CallStart DEF StartSchedule
    <3> QED BY <2>37, <3>5, <3>7 DEF StartSchedule, TypeOK
  <2> QED
    BY <2>1, <2>2, <2>3, <2>4, <2>5, <2>6, <2>7, <2>8, <2>9, <2>10, <2>11, <2>12, <2>13, <2>14,
         <2>15, <2>16, <2>17, <2>18, <2>19, <2>20, <2>21, <2>22, <2>23, <2>24, <2>25, <2>26, <2>27,
         <2>28, <2>29, <2>30, <2>31, <2>32, <2>33, <2>34, <2>35, <2>36, <2>37
    DEF Next, Construct, Control, Kfunc
<1> QED BY <1>1, <1>2, PTL DEF Spec

-----------------------------------------------------------------------------
(* What the GSP holds at every step of the operation on a TSG: the         *)
(* inductive invariant behind PolicyReachesGsp and RollbackComplete.  It   *)
(* relates the record r of a TSG to the remote object g.                   *)

has(r, name) == name \in r.flags

Constructed == {"promote", "reserve", "live", "on_timeslice_control", "set_timeslice", "on_bind"}

(* Until its replay, a value differs from the default only if the policy   *)
(* set it; the remote object has the defaults until the replay and the     *)
(* values of the bookkeeping after it.                                     *)
Synced(r, g) ==
  /\ r.pc = "on_task_init" => r.timesliceUs = DefaultTimeslice /\ r.interleave = LEVEL_MEDIUM
  /\ r.pc \in {"alloc", "timeslice"} =>
       has(r, "bPolicyTimeslice") \/ r.timesliceUs = DefaultTimeslice
  /\ r.pc \in {"alloc", "timeslice", "interleave"} =>
       has(r, "bPolicyInterleave") \/ r.interleave = LEVEL_MEDIUM
  /\ r.pc = "timeslice" => g.timesliceUs = DefaultTimeslice
  /\ r.pc \in {"timeslice", "interleave"} => g.interleave = LEVEL_MEDIUM
  /\ r.pc \in {"timeslice", "interleave"} \cup Constructed => g.exists
  /\ r.pc \in {"interleave"} \cup Constructed => g.timesliceUs = r.timesliceUs
  /\ r.pc \in Constructed => g.interleave = r.interleave

(* A constructor that has allocated the remote object of a TSG with a      *)
(* policy value knows it; its rollback frees the object.                   *)
Compensated(r, g) ==
  LET owes == /\ has(r, "allocated")
              /\ has(r, "bPolicyTimeslice") \/ has(r, "bPolicyInterleave")
  IN  /\ r.pc \in {"share", "on_task_init", "alloc"} => ~has(r, "allocated")
      /\ r.pc \in {"timeslice", "interleave", "promote", "reserve", "relock", "failed"} =>
           (owes => has(r, "bPolicyRemoteAllocated"))
      /\ r.pc = "teardown" \/ (r.pc = "none" /\ "relock" \notin Faults) =>
           (owes /\ ~has(r, "rollback_failed") => ~g.exists)

Consistent(r, g) == Synced(r, g) /\ Compensated(r, g)

ConsistentInv == \A t \in Tsg : Consistent(tsg[t], gsp[t])

(* A value that is not applied is the native one                           *)
(* (nv_gpu_transition_validate_scheduler).                                 *)
LEMMA SchedulerNative ==
  ASSUME NEW expected, NEW observed, NEW ts, NEW il, NEW minimum, NEW tq, NEW iq
  PROVE  LET v == validate_scheduler(expected, observed, ts, il, minimum, tq, iq)
         IN  /\ v.timeslice_result = "APPLY" \/ v.timeslice = ts
             /\ v.interleave_result = "APPLY" \/ v.interleave = il
  BY DEF validate_scheduler

(* Every step of kchangrpapiConstruct_IMPL, of the controls and of the     *)
(* free keeps the bookkeeping and the remote object consistent.            *)
LEMMA ConsistentStep ==
  ASSUME TypeOK, ConsistentInv, [Next]_vars
  PROVE  ConsistentInv'
<1>0. /\ \A t \in Tsg : /\ tsg[t] \in TsgRecord /\ gsp[t] \in GspRecord
                        /\ Consistent(tsg[t], gsp[t])
      /\ tsg \in [Tsg -> TsgRecord] /\ gsp \in [Tsg -> GspRecord]
  BY DEF TypeOK, ConsistentInv
<1>1. CASE UNCHANGED <<tsg, gsp>>
  BY <1>1 DEF ConsistentInv
<1>2. ASSUME NEW t \in Tsg, StartConstruct(t) PROVE ConsistentInv'
  <2>1. Consistent(tsg'[t], gsp'[t])
    BY <1>0, <1>2
        DEF Consistent, Synced, Compensated, has, Constructed, StartConstruct, becomes, new_tsg,
            at, TsgRecord, GspRecord
  <2>2. \A s \in Tsg \ {t} : tsg'[s] = tsg[s] /\ gsp'[s] = gsp[s]
    BY <1>0, <1>2 DEF StartConstruct, becomes
  <2> QED BY <1>0, <2>1, <2>2 DEF ConsistentInv
<1>3. ASSUME NEW t \in Tsg, EarlyFails(t) PROVE ConsistentInv'
  <2>1. Consistent(tsg'[t], gsp'[t])
    BY <1>0, <1>3
        DEF Consistent, Synced, Compensated, has, Constructed, EarlyFails, goto, becomes, at,
            TsgRecord, GspRecord
  <2>2. \A s \in Tsg \ {t} : tsg'[s] = tsg[s] /\ gsp'[s] = gsp[s]
    BY <1>0, <1>3 DEF EarlyFails, goto, becomes
  <2> QED BY <1>0, <2>1, <2>2 DEF ConsistentInv
<1>4. ASSUME NEW t \in Tsg, InitFails(t) PROVE ConsistentInv'
  <2>1. Consistent(tsg'[t], gsp'[t])
    BY <1>0, <1>4
        DEF Consistent, Synced, Compensated, has, Constructed, InitFails, becomes, at,
            TsgRecord, GspRecord
  <2>2. \A s \in Tsg \ {t} : tsg'[s] = tsg[s] /\ gsp'[s] = gsp[s]
    BY <1>0, <1>4 DEF InitFails, becomes
  <2> QED BY <1>0, <2>1, <2>2 DEF ConsistentInv
<1>5. ASSUME NEW t \in Tsg, TaskInit(t) PROVE ConsistentInv'
  <2>1. Consistent(tsg'[t], gsp'[t])
    BY <1>0, <1>5
        DEF Consistent, Synced, Compensated, has, Constructed, TaskInit, becomes, at, TsgRecord,
            GspRecord
  <2>2. \A s \in Tsg \ {t} : tsg'[s] = tsg[s] /\ gsp'[s] = gsp[s]
    BY <1>0, <1>5 DEF TaskInit, becomes
  <2> QED BY <1>0, <2>1, <2>2 DEF ConsistentInv
<1>6. ASSUME NEW t \in Tsg, TaskInitReturn(t) PROVE ConsistentInv'
  <2> DEFINE snapshot == [tsg_id |-> tsg[t].grpID, runlist_id |-> 0, phase |-> 1]
             validation == validate_scheduler(snapshot, snapshot, tsg[t].timesliceUs,
                               tsg[t].interleave, MinTimeslice,
                               call.timeslice_request, call.interleave_request)
             ts == validation.timeslice
             il == validation.interleave
             f == tsg[t].flags \cup
                    (when(validation.timeslice_result = "APPLY", "bPolicyTimeslice")
                       \cup when(validation.interleave_result = "APPLY", "bPolicyInterleave"))
             r == [tsg[t] EXCEPT !.pc = "alloc", !.timesliceUs = ts, !.interleave = il,
                                 !.flags = f]
  <2>1. /\ tsg' = [tsg EXCEPT ![t] = r] /\ gsp' = gsp
        /\ tsg[t].pc = "on_task_init"
    BY <1>6, Zenon DEF TaskInitReturn, becomes, at
  <2>2. /\ validation.timeslice_result = "APPLY" \/ ts = tsg[t].timesliceUs
        /\ validation.interleave_result = "APPLY" \/ il = tsg[t].interleave
    BY SchedulerNative
  <2> HIDE DEF validation
  <2>3. /\ "bPolicyTimeslice" \in f \/ ts = tsg[t].timesliceUs
        /\ "bPolicyInterleave" \in f \/ il = tsg[t].interleave
        /\ "allocated" \in f <=> "allocated" \in tsg[t].flags
    BY <2>2 DEF when
  <2> HIDE DEF ts, il, f
  <2>4. Consistent(tsg'[t], gsp'[t])
    BY <1>0, <2>1, <2>3 DEF Consistent, Synced, Compensated, has, Constructed, TsgRecord
  <2>5. \A s \in Tsg \ {t} : tsg'[s] = tsg[s] /\ gsp'[s] = gsp[s]
    BY <1>0, <2>1
  <2> QED BY <1>0, <2>4, <2>5 DEF ConsistentInv
<1>7. ASSUME NEW t \in Tsg, LocalFails(t) PROVE ConsistentInv'
  <2>1. Consistent(tsg'[t], gsp'[t])
    BY <1>0, <1>7
        DEF Consistent, Synced, Compensated, has, Constructed, LocalFails, goto, becomes, at,
            TsgRecord, GspRecord
  <2>2. \A s \in Tsg \ {t} : tsg'[s] = tsg[s] /\ gsp'[s] = gsp[s]
    BY <1>0, <1>7 DEF LocalFails, goto, becomes
  <2> QED BY <1>0, <2>1, <2>2 DEF ConsistentInv
<1>8. ASSUME NEW t \in Tsg, AllocObject(t) PROVE ConsistentInv'
  <2>1. Consistent(tsg'[t], gsp'[t])
    BY <1>0, <1>8
        DEF Consistent, Synced, Compensated, has, Constructed, AllocObject, becomes, at, when,
            policy_applied, flag, TsgRecord, GspRecord
  <2>2. \A s \in Tsg \ {t} : tsg'[s] = tsg[s] /\ gsp'[s] = gsp[s]
    BY <1>0, <1>8 DEF AllocObject, becomes
  <2> QED BY <1>0, <2>1, <2>2 DEF ConsistentInv
<1>9. ASSUME NEW t \in Tsg, AllocFails(t) PROVE ConsistentInv'
  <2>1. Consistent(tsg'[t], gsp'[t])
    BY <1>0, <1>9
        DEF Consistent, Synced, Compensated, has, Constructed, AllocFails, becomes, at,
            TsgRecord, GspRecord
  <2>2. \A s \in Tsg \ {t} : tsg'[s] = tsg[s] /\ gsp'[s] = gsp[s]
    BY <1>0, <1>9 DEF AllocFails, becomes
  <2> QED BY <1>0, <2>1, <2>2 DEF ConsistentInv
<1>10. ASSUME NEW t \in Tsg, ReplayTimeslice(t) PROVE ConsistentInv'
  <2>1. Consistent(tsg'[t], gsp'[t])
    BY <1>0, <1>10
        DEF Consistent, Synced, Compensated, has, Constructed, ReplayTimeslice, goto, becomes,
            at, flag, TsgRecord, GspRecord
  <2>2. \A s \in Tsg \ {t} : tsg'[s] = tsg[s] /\ gsp'[s] = gsp[s]
    BY <1>0, <1>10 DEF ReplayTimeslice, goto, becomes
  <2> QED BY <1>0, <2>1, <2>2 DEF ConsistentInv
<1>11. ASSUME NEW t \in Tsg, ReplayInterleave(t) PROVE ConsistentInv'
  <2>1. Consistent(tsg'[t], gsp'[t])
    BY <1>0, <1>11
        DEF Consistent, Synced, Compensated, has, Constructed, ReplayInterleave, goto, becomes,
            at, flag, TsgRecord, GspRecord
  <2>2. \A s \in Tsg \ {t} : tsg'[s] = tsg[s] /\ gsp'[s] = gsp[s]
    BY <1>0, <1>11 DEF ReplayInterleave, goto, becomes
  <2> QED BY <1>0, <2>1, <2>2 DEF ConsistentInv
<1>12. ASSUME NEW t \in Tsg, ReplayFails(t) PROVE ConsistentInv'
  <2>1. Consistent(tsg'[t], gsp'[t])
    BY <1>0, <1>12
        DEF Consistent, Synced, Compensated, has, Constructed, ReplayFails, goto, becomes, at,
            flag, TsgRecord, GspRecord
  <2>2. \A s \in Tsg \ {t} : tsg'[s] = tsg[s] /\ gsp'[s] = gsp[s]
    BY <1>0, <1>12 DEF ReplayFails, goto, becomes
  <2> QED BY <1>0, <2>1, <2>2 DEF ConsistentInv
<1>13. ASSUME NEW t \in Tsg, Promote(t) PROVE ConsistentInv'
  <2>1. Consistent(tsg'[t], gsp'[t])
    BY <1>0, <1>13
        DEF Consistent, Synced, Compensated, has, Constructed, Promote, goto, becomes, at,
            TsgRecord, GspRecord
  <2>2. \A s \in Tsg \ {t} : tsg'[s] = tsg[s] /\ gsp'[s] = gsp[s]
    BY <1>0, <1>13 DEF Promote, goto, becomes
  <2> QED BY <1>0, <2>1, <2>2 DEF ConsistentInv
<1>14. ASSUME NEW t \in Tsg, PromoteFails(t) PROVE ConsistentInv'
  <2>1. Consistent(tsg'[t], gsp'[t])
    BY <1>0, <1>14
        DEF Consistent, Synced, Compensated, has, Constructed, PromoteFails, goto, becomes, at,
            TsgRecord, GspRecord
  <2>2. \A s \in Tsg \ {t} : tsg'[s] = tsg[s] /\ gsp'[s] = gsp[s]
    BY <1>0, <1>14 DEF PromoteFails, goto, becomes
  <2> QED BY <1>0, <2>1, <2>2 DEF ConsistentInv
<1>15. ASSUME NEW t \in Tsg, Reserve(t) PROVE ConsistentInv'
  <2>1. Consistent(tsg'[t], gsp'[t])
    BY <1>0, <1>15
        DEF Consistent, Synced, Compensated, has, Constructed, Reserve, goto, becomes, at,
            TsgRecord, GspRecord
  <2>2. \A s \in Tsg \ {t} : tsg'[s] = tsg[s] /\ gsp'[s] = gsp[s]
    BY <1>0, <1>15 DEF Reserve, goto, becomes
  <2> QED BY <1>0, <2>1, <2>2 DEF ConsistentInv
<1>16. ASSUME NEW t \in Tsg, ReserveFails(t) PROVE ConsistentInv'
  <2>1. Consistent(tsg'[t], gsp'[t])
    BY <1>0, <1>16
        DEF Consistent, Synced, Compensated, has, Constructed, ReserveFails, goto, becomes, at,
            TsgRecord, GspRecord
  <2>2. \A s \in Tsg \ {t} : tsg'[s] = tsg[s] /\ gsp'[s] = gsp[s]
    BY <1>0, <1>16 DEF ReserveFails, goto, becomes
  <2> QED BY <1>0, <2>1, <2>2 DEF ConsistentInv
<1>17. ASSUME NEW t \in Tsg, Relock(t) PROVE ConsistentInv'
  <2>1. Consistent(tsg'[t], gsp'[t])
    BY <1>0, <1>17
        DEF Consistent, Synced, Compensated, has, Constructed, Relock, goto, becomes, at,
            TsgRecord, GspRecord
  <2>2. \A s \in Tsg \ {t} : tsg'[s] = tsg[s] /\ gsp'[s] = gsp[s]
    BY <1>0, <1>17 DEF Relock, goto, becomes
  <2> QED BY <1>0, <2>1, <2>2 DEF ConsistentInv
<1>18. ASSUME NEW t \in Tsg, RelockFails(t) PROVE ConsistentInv'
  <2>1. Consistent(tsg'[t], gsp'[t])
    BY <1>0, <1>18
        DEF Consistent, Synced, Compensated, has, Constructed, RelockFails, gone, becomes,
            new_tsg, at, may_fail, TsgRecord, GspRecord
  <2>2. \A s \in Tsg \ {t} : tsg'[s] = tsg[s] /\ gsp'[s] = gsp[s]
    BY <1>0, <1>18 DEF RelockFails, gone, becomes
  <2> QED BY <1>0, <2>1, <2>2 DEF ConsistentInv
<1>19. ASSUME NEW t \in Tsg, Rollback(t) PROVE ConsistentInv'
  <2>1. Consistent(tsg'[t], gsp'[t])
    BY <1>0, <1>19
        DEF Consistent, Synced, Compensated, has, Constructed, Rollback, becomes, at, flag,
            when, no_object, TsgRecord, GspRecord
  <2>2. \A s \in Tsg \ {t} : tsg'[s] = tsg[s] /\ gsp'[s] = gsp[s]
    BY <1>0, <1>19 DEF Rollback, becomes
  <2> QED BY <1>0, <2>1, <2>2 DEF ConsistentInv
<1>20. ASSUME NEW t \in Tsg, RollbackFails(t) PROVE ConsistentInv'
  <2>1. Consistent(tsg'[t], gsp'[t])
    BY <1>0, <1>20
        DEF Consistent, Synced, Compensated, has, Constructed, RollbackFails, becomes, at, flag,
            TsgRecord, GspRecord
  <2>2. \A s \in Tsg \ {t} : tsg'[s] = tsg[s] /\ gsp'[s] = gsp[s]
    BY <1>0, <1>20 DEF RollbackFails, becomes
  <2> QED BY <1>0, <2>1, <2>2 DEF ConsistentInv
<1>21. ASSUME NEW t \in Tsg, Teardown(t) PROVE ConsistentInv'
  <2>1. Consistent(tsg'[t], gsp'[t])
    BY <1>0, <1>21
        DEF Consistent, Synced, Compensated, has, Constructed, Teardown, gone, becomes, new_tsg,
            at, flag, TsgRecord, GspRecord
  <2>2. \A s \in Tsg \ {t} : tsg'[s] = tsg[s] /\ gsp'[s] = gsp[s]
    BY <1>0, <1>21 DEF Teardown, gone, becomes
  <2> QED BY <1>0, <2>1, <2>2 DEF ConsistentInv
<1>22. ASSUME NEW t \in Tsg, NEW v \in Timeslices, StartSetTimeslice(t, v) PROVE ConsistentInv'
  <2>1. Consistent(tsg'[t], gsp'[t])
    BY <1>0, <1>22
        DEF Consistent, Synced, Compensated, has, Constructed, StartSetTimeslice, goto, becomes,
            at, TsgRecord, GspRecord
  <2>2. \A s \in Tsg \ {t} : tsg'[s] = tsg[s] /\ gsp'[s] = gsp[s]
    BY <1>0, <1>22 DEF StartSetTimeslice, goto, becomes
  <2> QED BY <1>0, <2>1, <2>2 DEF ConsistentInv
<1>23. ASSUME NEW t \in Tsg, TimesliceControlReturn(t) PROVE ConsistentInv'
  <2>1. Consistent(tsg'[t], gsp'[t])
    BY <1>0, <1>23
        DEF Consistent, Synced, Compensated, has, Constructed, TimesliceControlReturn, goto,
            becomes, at, TsgRecord, GspRecord
  <2>2. \A s \in Tsg \ {t} : tsg'[s] = tsg[s] /\ gsp'[s] = gsp[s]
    BY <1>0, <1>23 DEF TimesliceControlReturn, goto, becomes
  <2> QED BY <1>0, <2>1, <2>2 DEF ConsistentInv
<1>24. ASSUME NEW t \in Tsg, SetTimesliceRpc(t) PROVE ConsistentInv'
  <2>1. Consistent(tsg'[t], gsp'[t])
    BY <1>0, <1>24
        DEF Consistent, Synced, Compensated, has, Constructed, SetTimesliceRpc, becomes, at,
            TsgRecord, GspRecord
  <2>2. \A s \in Tsg \ {t} : tsg'[s] = tsg[s] /\ gsp'[s] = gsp[s]
    BY <1>0, <1>24 DEF SetTimesliceRpc, becomes
  <2> QED BY <1>0, <2>1, <2>2 DEF ConsistentInv
<1>25. ASSUME NEW t \in Tsg, SetTimesliceFails(t) PROVE ConsistentInv'
  <2>1. Consistent(tsg'[t], gsp'[t])
    BY <1>0, <1>25
        DEF Consistent, Synced, Compensated, has, Constructed, SetTimesliceFails, goto, becomes,
            at, TsgRecord, GspRecord
  <2>2. \A s \in Tsg \ {t} : tsg'[s] = tsg[s] /\ gsp'[s] = gsp[s]
    BY <1>0, <1>25 DEF SetTimesliceFails, goto, becomes
  <2> QED BY <1>0, <2>1, <2>2 DEF ConsistentInv
<1>26. ASSUME NEW t \in Tsg, NEW v \in Interleaves, SetInterleaveLevel(t, v) PROVE ConsistentInv'
  <2>1. Consistent(tsg'[t], gsp'[t])
    BY <1>0, <1>26
        DEF Consistent, Synced, Compensated, has, Constructed, SetInterleaveLevel, becomes, at,
            TsgRecord, GspRecord
  <2>2. \A s \in Tsg \ {t} : tsg'[s] = tsg[s] /\ gsp'[s] = gsp[s]
    BY <1>0, <1>26 DEF SetInterleaveLevel, becomes
  <2> QED BY <1>0, <2>1, <2>2 DEF ConsistentInv
<1>27. ASSUME NEW t \in Tsg, NEW enable \in {0, 1}, StartSchedule(t, enable) PROVE ConsistentInv'
  <2>1. Consistent(tsg'[t], gsp'[t])
    BY <1>0, <1>27
        DEF Consistent, Synced, Compensated, has, Constructed, StartSchedule, becomes, at,
            TsgRecord, GspRecord
  <2>2. \A s \in Tsg \ {t} : tsg'[s] = tsg[s] /\ gsp'[s] = gsp[s]
    BY <1>0, <1>27 DEF StartSchedule, becomes
  <2> QED BY <1>0, <2>1, <2>2 DEF ConsistentInv
<1>28. ASSUME NEW t \in Tsg, ScheduleReturn(t) PROVE ConsistentInv'
  <2>1. Consistent(tsg'[t], gsp'[t])
    BY <1>0, <1>28
        DEF Consistent, Synced, Compensated, has, Constructed, ScheduleReturn, becomes, at,
            when, TsgRecord, GspRecord
  <2>2. \A s \in Tsg \ {t} : tsg'[s] = tsg[s] /\ gsp'[s] = gsp[s]
    BY <1>0, <1>28 DEF ScheduleReturn, becomes
  <2> QED BY <1>0, <2>1, <2>2 DEF ConsistentInv
<1>29. ASSUME NEW t \in Tsg, ScheduleFails(t) PROVE ConsistentInv'
  <2>1. Consistent(tsg'[t], gsp'[t])
    BY <1>0, <1>29
        DEF Consistent, Synced, Compensated, has, Constructed, ScheduleFails, goto, becomes, at,
            TsgRecord, GspRecord
  <2>2. \A s \in Tsg \ {t} : tsg'[s] = tsg[s] /\ gsp'[s] = gsp[s]
    BY <1>0, <1>29 DEF ScheduleFails, goto, becomes
  <2> QED BY <1>0, <2>1, <2>2 DEF ConsistentInv
<1>30. ASSUME NEW t \in Tsg, StartFree(t) PROVE ConsistentInv'
  <2>1. Consistent(tsg'[t], gsp'[t])
    BY <1>0, <1>30
        DEF Consistent, Synced, Compensated, has, Constructed, StartFree, becomes, at, flag,
            no_object, TsgRecord, GspRecord
  <2>2. \A s \in Tsg \ {t} : tsg'[s] = tsg[s] /\ gsp'[s] = gsp[s]
    BY <1>0, <1>30 DEF StartFree, becomes
  <2> QED BY <1>0, <2>1, <2>2 DEF ConsistentInv
<1>31. ASSUME NEW t \in Tsg, FreeFails(t) PROVE ConsistentInv'
  <2>1. Consistent(tsg'[t], gsp'[t])
    BY <1>0, <1>31
        DEF Consistent, Synced, Compensated, has, Constructed, FreeFails, becomes, at,
            TsgRecord, GspRecord
  <2>2. \A s \in Tsg \ {t} : tsg'[s] = tsg[s] /\ gsp'[s] = gsp[s]
    BY <1>0, <1>31 DEF FreeFails, becomes
  <2> QED BY <1>0, <2>1, <2>2 DEF ConsistentInv
<1> QED
  BY <1>1, <1>2, <1>3, <1>4, <1>5, <1>6, <1>7, <1>8, <1>9, <1>10, <1>11, <1>12, <1>13, <1>14,
       <1>15, <1>16, <1>17, <1>18, <1>19, <1>20, <1>21, <1>22, <1>23, <1>24, <1>25, <1>26, <1>27,
       <1>28, <1>29, <1>30, <1>31
  DEF Next, Construct, Control, Kfunc, Register, Unregister, SetTimeslice, SetInterleave,
      OverrideTimeslice, RejectBind, vars

LEMMA ConsistentAlways == Spec => [](TypeOK /\ ConsistentInv)
<1>1. Init => ConsistentInv
  <2> SUFFICES ASSUME Init, NEW t \in Tsg PROVE Consistent(tsg[t], gsp[t])
    BY DEF ConsistentInv
  <2>1. tsg[t] = new_tsg /\ gsp[t] = no_object
    BY DEF Init
  <2> QED BY <2>1 DEF Consistent, Synced, Compensated, has, Constructed, new_tsg, no_object
<1>2. TypeOK /\ ConsistentInv /\ [Next]_vars => ConsistentInv'
  BY ConsistentStep
<1> QED BY <1>1, <1>2, TypeCorrect, PTL DEF Spec

(* A constructed TSG that no control is changing has, on the GSP, the      *)
(* timeslice and interleave level of the CPU side bookkeeping, whichever   *)
(* steps fail and whatever the policy asks for (the replay of              *)
(* kchangrpapiConstruct_IMPL, the setters of the controls).                *)
THEOREM PolicyReplayed == Spec => []PolicyReachesGsp
<1>1. TypeOK /\ ConsistentInv => PolicyReachesGsp
  <2> SUFFICES ASSUME TypeOK, ConsistentInv, NEW t \in Tsg, at(t, "live")
               PROVE  gsp[t] = [exists |-> TRUE, timesliceUs |-> tsg[t].timesliceUs,
                                interleave |-> tsg[t].interleave]
    BY DEF PolicyReachesGsp
  <2>1. gsp[t] \in GspRecord /\ Synced(tsg[t], gsp[t])
    BY DEF TypeOK, ConsistentInv, Consistent
  <2>2. /\ gsp[t].exists
        /\ gsp[t].timesliceUs = tsg[t].timesliceUs
        /\ gsp[t].interleave = tsg[t].interleave
    BY <2>1 DEF Synced, Constructed, at
  <2> QED BY <2>1, <2>2 DEF GspRecord
<1> QED BY <1>1, ConsistentAlways, PTL

(* When the lock can always be taken again for the cleanup, a constructor  *)
(* that fails after it applied a policy value leaves no object on the GSP, *)
(* unless the compensating RPC failed (the failed label of                 *)
(* kchangrpapiConstruct_IMPL).                                             *)
THEOREM RollbackSound ==
  ASSUME "relock" \notin Faults
  PROVE  Spec => []RollbackComplete
<1>1. ConsistentInv => RollbackComplete
  BY DEF ConsistentInv, Consistent, Compensated, has, RollbackComplete, at, flag, policy_applied
<1> QED BY <1>1, ConsistentAlways, PTL

-----------------------------------------------------------------------------
(* What the policy asked for and what was decided.                         *)

(* A request remembers the first value and whether a second one differed   *)
(* (nv_gpu_transition_record_u64); S holds the first two different values. *)
Latched(q, S) ==
  \/ S = {} /\ q = no_request(0)
  \/ \E v \in S : S = {v} /\ q = [attempted |-> TRUE, conflict |-> FALSE, value |-> v]
  \/ \E v, w \in S : /\ v # w /\ S = {v, w}
                    /\ q = [attempted |-> TRUE, conflict |-> TRUE, value |-> v]

Requests(c) ==
  /\ Latched(c.timeslice_request, c.timeslices)
  /\ Latched(c.interleave_request, c.interleaves)

(* A constructor calls the policy with the defaults and decides both       *)
(* values on its return; a control decides the value it sends.             *)
Defaults(r) ==
  /\ r.timesliceUs = DefaultTimeslice /\ r.interleave = LEVEL_MEDIUM
  /\ r.flags = {"bTsgAllocated"}

DecidedTimeslice(r, c) ==
  \/ r.timesliceUs = DefaultTimeslice /\ ~has(r, "bPolicyTimeslice")
  \/ /\ has(r, "bPolicyTimeslice")
     /\ decided(c.timeslices, r.timesliceUs, r.timesliceUs >= MinTimeslice)

DecidedInterleave(r, c) ==
  \/ r.interleave = LEVEL_MEDIUM /\ ~has(r, "bPolicyInterleave")
  \/ /\ has(r, "bPolicyInterleave")
     /\ decided(c.interleaves, r.interleave, r.interleave <= 2)

DecidedParams(c) ==
  c.timeslices # {} =>
    decided(c.timeslices, c.params, timeslice_control_eligible(c.params, MinTimeslice))

Decided(r, c) ==
  /\ r.pc = "share" => r.flags = {}
  /\ r.pc = "on_task_init" => Defaults(r)
  /\ r.pc = "alloc" => DecidedTimeslice(r, c) /\ DecidedInterleave(r, c)
  /\ r.pc = "set_timeslice" => DecidedParams(c)

DomainInv == Requests(call) /\ \A t \in Tsg : Decided(tsg[t], call)

(* The steps at which Decided says something.                              *)
Deciding == {"share", "on_task_init", "alloc", "set_timeslice"}

(* A context without a callback has no requests.                           *)
LEMMA NoRequests ==
  /\ Requests(no_call)
  /\ \A p \in BOOLEAN : Requests([no_call EXCEPT !.policy = p])
  /\ \A v \in U64, p \in BOOLEAN : Requests([no_call EXCEPT !.params = v, !.policy = p])
  BY DEF Requests, Latched, no_call

(* Recording a value keeps the request and the history together.           *)
LEMMA LatchedRecord ==
  ASSUME NEW q \in Request, NEW S, Latched(q, S), NEW v \in U64
  PROVE  Latched(record_u64(q, v), asked(S, v))
<1>1. CASE S = {} /\ q = no_request(0)
  <2>1. asked(S, v) = {v}
    BY <1>1, FS_EmptySet DEF asked
  <2>2. record_u64(q, v) = [attempted |-> TRUE, conflict |-> FALSE, value |-> v]
    BY <1>1 DEF record_u64, no_request
  <2> QED BY <2>1, <2>2 DEF Latched
<1>2. ASSUME NEW u \in S, S = {u},
             q = [attempted |-> TRUE, conflict |-> FALSE, value |-> u]
      PROVE  Latched(record_u64(q, v), asked(S, v))
  <2>1. asked(S, v) = {u, v}
    BY <1>2, FS_Singleton DEF asked
  <2>2. record_u64(q, v) = [attempted |-> TRUE, conflict |-> v # u, value |-> u]
    BY <1>2 DEF record_u64
  <2>3. CASE v = u
    BY <2>1, <2>2, <2>3 DEF Latched
  <2>4. CASE v # u
    BY <2>1, <2>2, <2>4 DEF Latched
  <2> QED BY <2>3, <2>4
<1>3. ASSUME NEW u \in S, NEW x \in S, u # x, S = {u, x},
             q = [attempted |-> TRUE, conflict |-> TRUE, value |-> u]
      PROVE  Latched(record_u64(q, v), asked(S, v))
  <2>1. Cardinality({u}) = 1 /\ IsFiniteSet({u}) /\ x \notin {u}
    BY <1>3, FS_Singleton
  <2>2. Cardinality({u} \cup {x}) = 2
    BY <2>1, FS_AddElement
  <2>3. {u} \cup {x} = S
    BY <1>3
  <2>4. asked(S, v) = S
    BY <2>2, <2>3 DEF asked
  <2>5. record_u64(q, v) = q
    BY <1>3 DEF record_u64
  <2> QED BY <2>4, <2>5
<1> QED BY <1>1, <1>2, <1>3 DEF Latched

(* What is applied is the one value asked for, within its bound.           *)
LEMMA AppliedRequest ==
  ASSUME NEW q, NEW S, Latched(q, S), NEW legal \in BOOLEAN,
         request_result(q, legal) = "APPLY"
  PROVE  S = {q.value} /\ legal
  BY DEF Latched, request_result, no_request

(* A callback that asked for something has attempted a request.            *)
LEMMA AttemptedRequest ==
  ASSUME NEW q, NEW S, Latched(q, S), S # {}
  PROVE  q.attempted
  BY DEF Latched

(* A step of the lock holder, or one that leaves the decision context      *)
(* alone, concerns no other TSG.                                           *)
LEMMA DomainUpdate ==
  ASSUME TypeOK, DomainInv, NEW t \in Tsg, NEW r, tsg' = [tsg EXCEPT ![t] = r],
         call' = call \/ lock \in {t, NoTsg},
         Requests(call'), Decided(r, call')
  PROVE  DomainInv'
<1>1. tsg \in [Tsg -> TsgRecord] /\ \A s \in Tsg : tsg[s].pc \in Locked <=> lock = s
  BY DEF TypeOK
<1>2. tsg'[t] = r /\ \A s \in Tsg \ {t} : tsg'[s] = tsg[s]
  BY <1>1
<1>3. ASSUME NEW s \in Tsg \ {t} PROVE Decided(tsg[s], call')
  <2>1. Decided(tsg[s], call)
    BY DEF DomainInv
  <2>2. CASE call' = call
    BY <2>1, <2>2
  <2>3. CASE lock \in {t, NoTsg}
    <3>1. tsg[s].pc \notin Locked
      BY <1>1, <2>3, Constants
    <3> QED BY <3>1 DEF Decided, Locked
  <2> QED BY <2>2, <2>3
<1>4. \A s \in Tsg : Decided(tsg'[s], call')
  BY <1>2, <1>3
<1> QED BY <1>4 DEF DomainInv

(* A step to a point where nothing is decided.                             *)
LEMMA NothingDecided ==
  ASSUME TypeOK, DomainInv, NEW t \in Tsg, NEW r, tsg' = [tsg EXCEPT ![t] = r],
         r.pc \notin Deciding,
         call' = call \/ (call' = no_call /\ lock \in {t, NoTsg})
  PROVE  DomainInv'
<1>1. Requests(call')
  BY NoRequests DEF DomainInv
<1>2. Decided(r, call')
  BY DEF Decided, Deciding
<1> QED BY <1>1, <1>2, DomainUpdate

(* Every step decides only what the policy asked for, or the default.      *)
LEMMA DomainStep ==
  ASSUME TypeOK, DomainInv, [Next]_vars
  PROVE  DomainInv'
<1>0. /\ \A t \in Tsg : tsg[t] \in TsgRecord /\ Decided(tsg[t], call)
      /\ \A t \in Tsg : tsg[t].pc \in Locked => lock = t
      /\ tsg \in [Tsg -> TsgRecord] /\ call \in CallRecord
      /\ Requests(call) /\ registered \in BOOLEAN
  BY DEF TypeOK, DomainInv
<1>1. CASE UNCHANGED <<tsg, call>>
  BY <1>1 DEF DomainInv
<1>2. ASSUME NEW t \in Tsg, StartConstruct(t) PROVE DomainInv'
  <2> DEFINE r == [new_tsg EXCEPT !.pc = "share"]
  <2>1. tsg' = [tsg EXCEPT ![t] = r] /\ lock = NoTsg /\ call' = no_call
    BY <1>2 DEF StartConstruct, becomes
  <2>2. r.pc = "share" /\ r.flags = {}
    BY DEF new_tsg
  <2>3. Decided(r, call')
    BY <2>2 DEF Decided
  <2> HIDE DEF r
  <2> QED BY <2>1, <2>3, NoRequests, DomainUpdate
<1>3. ASSUME NEW t \in Tsg, TaskInit(t) PROVE DomainInv'
  <2>1. PICK id \in GrpIDs :
          becomes(t, [tsg[t] EXCEPT !.pc = "on_task_init", !.grpID = id,
                                    !.timesliceUs = DefaultTimeslice,
                                    !.interleave = LEVEL_MEDIUM,
                                    !.flags = @ \cup {"bTsgAllocated"}])
    BY <1>3 DEF TaskInit
  <2> DEFINE r == [tsg[t] EXCEPT !.pc = "on_task_init", !.grpID = id,
                                 !.timesliceUs = DefaultTimeslice, !.interleave = LEVEL_MEDIUM,
                                 !.flags = tsg[t].flags \cup {"bTsgAllocated"}]
  <2>2. tsg' = [tsg EXCEPT ![t] = r]
    BY <2>1 DEF becomes
  <2>3. tsg[t].pc = "share" /\ call' = [no_call EXCEPT !.policy = registered]
    BY <1>3 DEF TaskInit, at
  <2>4. tsg[t].flags = {} /\ lock = t
    BY <1>0, <2>3 DEF Decided, Locked
  <2>5. r.pc = "on_task_init" /\ Defaults(r)
    BY <1>0, <2>4 DEF Defaults, TsgRecord
  <2>6. Decided(r, call')
    BY <2>5 DEF Decided
  <2>7. Requests(call')
    BY <1>0, <2>3, NoRequests
  <2> HIDE DEF r
  <2> QED BY <2>2, <2>4, <2>6, <2>7, DomainUpdate
<1>4. ASSUME NEW t \in Tsg, TaskInitReturn(t) PROVE DomainInv'
  <2> DEFINE snapshot == [tsg_id |-> tsg[t].grpID, runlist_id |-> 0, phase |-> 1]
             validation == validate_scheduler(snapshot, snapshot, tsg[t].timesliceUs,
                               tsg[t].interleave, MinTimeslice,
                               call.timeslice_request, call.interleave_request)
             ts == validation.timeslice
             il == validation.interleave
             f == tsg[t].flags \cup
                    (when(validation.timeslice_result = "APPLY", "bPolicyTimeslice")
                       \cup when(validation.interleave_result = "APPLY", "bPolicyInterleave"))
             r == [tsg[t] EXCEPT !.pc = "alloc", !.timesliceUs = ts, !.interleave = il,
                                 !.flags = f]
             tq == call.timeslice_request
             iq == call.interleave_request
  <2>1. /\ tsg' = [tsg EXCEPT ![t] = r] /\ call' = call
        /\ tsg[t].pc = "on_task_init"
    BY <1>4, Zenon DEF TaskInitReturn, becomes, at
  <2>2. Defaults(tsg[t])
    BY <1>0, <2>1 DEF Decided
  <2>3. /\ validation.timeslice_result = request_result(tq, tq.value >= MinTimeslice)
        /\ validation.interleave_result = request_result(iq, iq.value <= 2)
        /\ ts = IF validation.timeslice_result = "APPLY" THEN tq.value ELSE tsg[t].timesliceUs
        /\ il = IF validation.interleave_result = "APPLY" THEN iq.value ELSE tsg[t].interleave
    BY DEF validate_scheduler, validate_snapshot
  <2> HIDE DEF validation
  <2>4. /\ has([flags |-> f], "bPolicyTimeslice") <=> validation.timeslice_result = "APPLY"
        /\ has([flags |-> f], "bPolicyInterleave") <=> validation.interleave_result = "APPLY"
    BY <2>2 DEF when, Defaults, has
  <2>5. r.pc = "alloc" /\ r.timesliceUs = ts /\ r.interleave = il /\ r.flags = f
    BY <1>0 DEF TsgRecord
  <2> HIDE DEF ts, il, f, r
  <2>6. DecidedTimeslice(r, call)
    <3>1. CASE validation.timeslice_result = "APPLY"
      <4>0. /\ Latched(tq, call.timeslices) /\ (tq.value >= MinTimeslice) \in BOOLEAN
            /\ request_result(tq, tq.value >= MinTimeslice) = "APPLY"
        BY <1>0, <2>3, <3>1 DEF Requests
      <4>1. call.timeslices = {tq.value} /\ tq.value >= MinTimeslice
        BY <4>0, AppliedRequest, Zenon
      <4> QED BY <2>3, <2>4, <2>5, <3>1, <4>1 DEF DecidedTimeslice, decided, has
    <3>2. CASE validation.timeslice_result # "APPLY"
      BY <2>2, <2>3, <2>4, <2>5, <3>2 DEF DecidedTimeslice, Defaults, has
    <3> QED BY <3>1, <3>2
  <2>7. DecidedInterleave(r, call)
    <3>1. CASE validation.interleave_result = "APPLY"
      <4>0. /\ Latched(iq, call.interleaves) /\ (iq.value <= 2) \in BOOLEAN
            /\ request_result(iq, iq.value <= 2) = "APPLY"
        BY <1>0, <2>3, <3>1 DEF Requests
      <4>1. call.interleaves = {iq.value} /\ iq.value <= 2
        BY <4>0, AppliedRequest, Zenon
      <4> QED BY <2>3, <2>4, <2>5, <3>1, <4>1 DEF DecidedInterleave, decided, has
    <3>2. CASE validation.interleave_result # "APPLY"
      BY <2>2, <2>3, <2>4, <2>5, <3>2 DEF DecidedInterleave, Defaults, has
    <3> QED BY <3>1, <3>2
  <2>8. Decided(r, call)
    BY <2>5, <2>6, <2>7 DEF Decided
  <2> QED BY <1>0, <2>1, <2>8, DomainUpdate
<1>5. ASSUME NEW t \in Tsg, NEW v \in Timeslices, StartSetTimeslice(t, v) PROVE DomainInv'
  <2> DEFINE eligible == timeslice_control_eligible(v, MinTimeslice)
             x == IF eligible THEN "on_timeslice_control" ELSE "set_timeslice"
             r == [tsg[t] EXCEPT !.pc = x]
             p == eligible /\ registered
  <2>1. /\ tsg' = [tsg EXCEPT ![t] = r] /\ lock = NoTsg
        /\ call' = [no_call EXCEPT !.params = v, !.policy = p]
    BY <1>5, Zenon DEF StartSetTimeslice, goto, becomes
  <2>2. v \in U64 /\ p \in BOOLEAN
    BY <1>0, Constants
  <2>3. call'.timeslices = {}
    BY <2>1 DEF no_call
  <2>4. r.pc \in {"on_timeslice_control", "set_timeslice"}
    BY <1>0 DEF TsgRecord
  <2>5. Decided(r, call')
    BY <2>3, <2>4 DEF Decided, DecidedParams
  <2> HIDE DEF r, p
  <2> QED BY <2>1, <2>2, <2>5, NoRequests, DomainUpdate
<1>6. ASSUME NEW t \in Tsg, TimesliceControlReturn(t) PROVE DomainInv'
  <2> DEFINE ctx == [tsg_id |-> tsg[t].grpID, requested_timeslice_us |-> call.params,
                     hclient |-> 1, htsg |-> 1, phase |-> TIMESLICE_CONTROL_PHASE]
             q == call.timeslice_request
             validated == timeslice_control_validate(ctx, ctx, MinTimeslice, q)
             legal == /\ timeslice_control_eligible(call.params, MinTimeslice)
                      /\ timeslice_control_eligible(q.value, MinTimeslice)
  <2>1. lock = t
    BY <1>0, <1>6 DEF TimesliceControlReturn, at, Locked
  <2>2. CASE q.attempted /\ validated.result # "APPLY"
    <3>1. tsg' = [tsg EXCEPT ![t] = [tsg[t] EXCEPT !.pc = "live"]] /\ call' = no_call
      BY <1>6, <2>2, Zenon DEF TimesliceControlReturn, goto, becomes
    <3>2. [tsg[t] EXCEPT !.pc = "live"].pc \notin Deciding
      BY <1>0 DEF TsgRecord, Deciding
    <3> QED BY <2>1, <3>1, <3>2, NothingDecided
  <2>3. CASE ~(q.attempted /\ validated.result # "APPLY")
    <3> DEFINE r == [tsg[t] EXCEPT !.pc = "set_timeslice"]
               c == [call EXCEPT !.params = validated.effective]
    <3>1. tsg' = [tsg EXCEPT ![t] = r] /\ call' = c
      BY <1>6, <2>3, Zenon DEF TimesliceControlReturn, goto, becomes
    <3>a. /\ [ctx EXCEPT !.phase = ctx.phase] = ctx /\ ctx.requested_timeslice_us = call.params
          /\ ctx.hclient = 1 /\ ctx.htsg = 1 /\ ctx.phase = TIMESLICE_CONTROL_PHASE
      OBVIOUS
    <3> HIDE DEF ctx
    <3>2. /\ validated.result = request_result(q, legal)
          /\ validated.effective = IF validated.result = "APPLY" THEN q.value ELSE call.params
      BY <3>a DEF timeslice_control_validate, TIMESLICE_CONTROL_PHASE, request_result
    <3> HIDE DEF validated
    <3>3. /\ c.timeslice_request = q /\ c.timeslices = call.timeslices
          /\ c.interleave_request = call.interleave_request
          /\ c.interleaves = call.interleaves /\ c.params = validated.effective
      BY <1>0 DEF CallRecord
    <3>4. Requests(c)
      BY <1>0, <3>3 DEF Requests
    <3>5. DecidedParams(c)
      <4> SUFFICES ASSUME call.timeslices # {}
                   PROVE  /\ call.timeslices = {validated.effective}
                          /\ timeslice_control_eligible(validated.effective, MinTimeslice)
        BY <3>3 DEF DecidedParams, decided
      <4>1. validated.result = "APPLY"
        BY <1>0, <2>3, AttemptedRequest DEF Requests
      <4>2. legal \in BOOLEAN
        BY DEF timeslice_control_eligible
      <4>3. call.timeslices = {q.value} /\ legal
        BY <1>0, <3>2, <4>1, <4>2, AppliedRequest, Zenon DEF Requests
      <4> QED BY <3>2, <4>1, <4>3
    <3>6. r.pc = "set_timeslice"
      BY <1>0 DEF TsgRecord
    <3>7. Decided(r, c)
      BY <3>5, <3>6 DEF Decided
    <3> HIDE DEF r, c
    <3> QED BY <2>1, <3>1, <3>4, <3>7, DomainUpdate
  <2> QED BY <2>2, <2>3
<1>7. ASSUME NEW t \in Tsg, NEW v \in Timeslices, SetTimeslice(t, v) PROVE DomainInv'
  <2>1. /\ tsg[t].pc = "on_task_init" /\ tsg' = tsg
        /\ call' = [call EXCEPT !.timeslice_request = record_u64(call.timeslice_request, v),
                                !.timeslices = asked(call.timeslices, v)]
    BY <1>7 DEF SetTimeslice, at
  <2>2. /\ call'.timeslice_request = record_u64(call.timeslice_request, v)
        /\ call'.timeslices = asked(call.timeslices, v)
        /\ call'.interleave_request = call.interleave_request /\ call'.interleaves = call.interleaves
    BY <1>0, <2>1 DEF CallRecord
  <2>3. Requests(call')
    <3>1. v \in U64 /\ call.timeslice_request \in Request /\ Requests(call)
      BY <1>0, Constants, CallFields
    <3>2. Latched(call'.timeslice_request, call'.timeslices)
      BY <2>2, <3>1, LatchedRecord, Zenon DEF Requests
    <3> QED BY <2>2, <3>1, <3>2 DEF Requests
  <2>4. Decided(tsg[t], call')
    BY <1>0, <2>1 DEF Decided
  <2>5. tsg' = [tsg EXCEPT ![t] = tsg[t]] /\ lock = t
    BY <1>0, <2>1 DEF Locked
  <2> QED BY <2>3, <2>4, <2>5, DomainUpdate
<1>8. ASSUME NEW t \in Tsg, NEW v \in Interleaves, SetInterleave(t, v) PROVE DomainInv'
  <2>1. /\ tsg[t].pc = "on_task_init" /\ tsg' = tsg
        /\ call' = [call EXCEPT !.interleave_request = record_u64(call.interleave_request, v),
                                !.interleaves = asked(call.interleaves, v)]
    BY <1>8 DEF SetInterleave, at, record_u32
  <2>2. /\ call'.interleave_request = record_u64(call.interleave_request, v)
        /\ call'.interleaves = asked(call.interleaves, v)
        /\ call'.timeslice_request = call.timeslice_request /\ call'.timeslices = call.timeslices
    BY <1>0, <2>1 DEF CallRecord
  <2>3. Requests(call')
    <3>1. v \in U64 /\ call.interleave_request \in Request /\ Requests(call)
      BY <1>0, Constants, CallFields
    <3>2. Latched(call'.interleave_request, call'.interleaves)
      BY <2>2, <3>1, LatchedRecord, Zenon DEF Requests
    <3> QED BY <2>2, <3>1, <3>2 DEF Requests
  <2>4. Decided(tsg[t], call')
    BY <1>0, <2>1 DEF Decided
  <2>5. tsg' = [tsg EXCEPT ![t] = tsg[t]] /\ lock = t
    BY <1>0, <2>1 DEF Locked
  <2> QED BY <2>3, <2>4, <2>5, DomainUpdate
<1>9. ASSUME NEW t \in Tsg, NEW v \in Timeslices, OverrideTimeslice(t, v) PROVE DomainInv'
  <2>1. /\ tsg[t].pc = "on_timeslice_control" /\ tsg' = tsg
        /\ call' = [call EXCEPT !.timeslice_request = record_u64(call.timeslice_request, v),
                                !.timeslices = asked(call.timeslices, v)]
    BY <1>9 DEF OverrideTimeslice, at
  <2>2. /\ call'.timeslice_request = record_u64(call.timeslice_request, v)
        /\ call'.timeslices = asked(call.timeslices, v)
        /\ call'.interleave_request = call.interleave_request /\ call'.interleaves = call.interleaves
    BY <1>0, <2>1 DEF CallRecord
  <2>3. Requests(call')
    <3>1. v \in U64 /\ call.timeslice_request \in Request /\ Requests(call)
      BY <1>0, Constants, CallFields
    <3>2. Latched(call'.timeslice_request, call'.timeslices)
      BY <2>2, <3>1, LatchedRecord, Zenon DEF Requests
    <3> QED BY <2>2, <3>1, <3>2 DEF Requests
  <2>4. Decided(tsg[t], call')
    BY <1>0, <2>1 DEF Decided
  <2>5. tsg' = [tsg EXCEPT ![t] = tsg[t]] /\ lock = t
    BY <1>0, <2>1 DEF Locked
  <2> QED BY <2>3, <2>4, <2>5, DomainUpdate
<1>10. ASSUME NEW t \in Tsg, RejectBind(t) PROVE DomainInv'
  <2>1. tsg[t].pc = "on_bind" /\ tsg' = tsg /\ call' = [call EXCEPT !.allow = FALSE]
    BY <1>10 DEF RejectBind, at
  <2>2. Requests(call')
    BY <1>0, <2>1 DEF Requests, CallRecord
  <2>3. Decided(tsg[t], call')
    BY <1>0, <2>1 DEF Decided
  <2>4. tsg' = [tsg EXCEPT ![t] = tsg[t]] /\ lock = t
    BY <1>0, <2>1 DEF Locked
  <2> QED BY <2>2, <2>3, <2>4, DomainUpdate
<1>11. ASSUME NEW t \in Tsg, EarlyFails(t) PROVE DomainInv'
  <2>1. \E r : tsg' = [tsg EXCEPT ![t] = r] /\ r.pc \notin Deciding /\ call' = call
    BY <1>0, <1>11 DEF EarlyFails, goto, becomes, at, TsgRecord, Deciding
  <2> QED BY <2>1, NothingDecided
<1>12. ASSUME NEW t \in Tsg, LocalFails(t) PROVE DomainInv'
  <2>1. \E r : tsg' = [tsg EXCEPT ![t] = r] /\ r.pc \notin Deciding /\ call' = call
    BY <1>0, <1>12 DEF LocalFails, goto, becomes, at, TsgRecord, Deciding
  <2> QED BY <2>1, NothingDecided
<1>13. ASSUME NEW t \in Tsg, ReplayTimeslice(t) PROVE DomainInv'
  <2>1. \E r : tsg' = [tsg EXCEPT ![t] = r] /\ r.pc \notin Deciding /\ call' = call
    BY <1>0, <1>13 DEF ReplayTimeslice, goto, becomes, at, TsgRecord, Deciding
  <2> QED BY <2>1, NothingDecided
<1>14. ASSUME NEW t \in Tsg, ReplayInterleave(t) PROVE DomainInv'
  <2>1. \E r : tsg' = [tsg EXCEPT ![t] = r] /\ r.pc \notin Deciding /\ call' = call
    BY <1>0, <1>14 DEF ReplayInterleave, goto, becomes, at, TsgRecord, Deciding
  <2> QED BY <2>1, NothingDecided
<1>15. ASSUME NEW t \in Tsg, ReplayFails(t) PROVE DomainInv'
  <2>1. \E r : tsg' = [tsg EXCEPT ![t] = r] /\ r.pc \notin Deciding /\ call' = call
    BY <1>0, <1>15 DEF ReplayFails, goto, becomes, at, TsgRecord, Deciding
  <2> QED BY <2>1, NothingDecided
<1>16. ASSUME NEW t \in Tsg, Promote(t) PROVE DomainInv'
  <2>1. \E r : tsg' = [tsg EXCEPT ![t] = r] /\ r.pc \notin Deciding /\ call' = no_call /\ lock \in {t, NoTsg}
    BY <1>0, <1>16 DEF Promote, goto, becomes, at, TsgRecord, Deciding, Locked
  <2> QED BY <2>1, NothingDecided
<1>17. ASSUME NEW t \in Tsg, PromoteFails(t) PROVE DomainInv'
  <2>1. \E r : tsg' = [tsg EXCEPT ![t] = r] /\ r.pc \notin Deciding /\ call' = call
    BY <1>0, <1>17 DEF PromoteFails, goto, becomes, at, TsgRecord, Deciding
  <2> QED BY <2>1, NothingDecided
<1>18. ASSUME NEW t \in Tsg, Reserve(t) PROVE DomainInv'
  <2>1. \E r : tsg' = [tsg EXCEPT ![t] = r] /\ r.pc \notin Deciding /\ call' = call
    BY <1>0, <1>18 DEF Reserve, goto, becomes, at, TsgRecord, Deciding
  <2> QED BY <2>1, NothingDecided
<1>19. ASSUME NEW t \in Tsg, ReserveFails(t) PROVE DomainInv'
  <2>1. \E r : tsg' = [tsg EXCEPT ![t] = r] /\ r.pc \notin Deciding /\ call' = call
    BY <1>0, <1>19 DEF ReserveFails, goto, becomes, at, TsgRecord, Deciding
  <2> QED BY <2>1, NothingDecided
<1>20. ASSUME NEW t \in Tsg, Relock(t) PROVE DomainInv'
  <2>1. \E r : tsg' = [tsg EXCEPT ![t] = r] /\ r.pc \notin Deciding /\ call' = call
    BY <1>0, <1>20 DEF Relock, goto, becomes, at, TsgRecord, Deciding
  <2> QED BY <2>1, NothingDecided
<1>21. ASSUME NEW t \in Tsg, SetTimesliceFails(t) PROVE DomainInv'
  <2>1. \E r : tsg' = [tsg EXCEPT ![t] = r] /\ r.pc \notin Deciding /\ call' = no_call /\ lock \in {t, NoTsg}
    BY <1>0, <1>21 DEF SetTimesliceFails, goto, becomes, at, TsgRecord, Deciding, Locked
  <2> QED BY <2>1, NothingDecided
<1>22. ASSUME NEW t \in Tsg, ScheduleFails(t) PROVE DomainInv'
  <2>1. \E r : tsg' = [tsg EXCEPT ![t] = r] /\ r.pc \notin Deciding /\ call' = no_call /\ lock \in {t, NoTsg}
    BY <1>0, <1>22 DEF ScheduleFails, goto, becomes, at, TsgRecord, Deciding, Locked
  <2> QED BY <2>1, NothingDecided
<1>23. ASSUME NEW t \in Tsg, InitFails(t) PROVE DomainInv'
  <2>1. \E r : tsg' = [tsg EXCEPT ![t] = r] /\ r.pc \notin Deciding /\ call' = call
    BY <1>0, <1>23 DEF InitFails, becomes, at, TsgRecord, Deciding
  <2> QED BY <2>1, NothingDecided
<1>24. ASSUME NEW t \in Tsg, AllocObject(t) PROVE DomainInv'
  <2>1. \E r : tsg' = [tsg EXCEPT ![t] = r] /\ r.pc \notin Deciding /\ call' = call
    BY <1>0, <1>24 DEF AllocObject, becomes, at, TsgRecord, Deciding
  <2> QED BY <2>1, NothingDecided
<1>25. ASSUME NEW t \in Tsg, AllocFails(t) PROVE DomainInv'
  <2>1. \E r : tsg' = [tsg EXCEPT ![t] = r] /\ r.pc \notin Deciding /\ call' = call
    BY <1>0, <1>25 DEF AllocFails, becomes, at, TsgRecord, Deciding
  <2> QED BY <2>1, NothingDecided
<1>26. ASSUME NEW t \in Tsg, RelockFails(t) PROVE DomainInv'
  <2>1. \E r : tsg' = [tsg EXCEPT ![t] = r] /\ r.pc \notin Deciding /\ call' = call
    BY <1>0, <1>26 DEF RelockFails, gone, becomes, new_tsg, at, TsgRecord, Deciding
  <2> QED BY <2>1, NothingDecided
<1>27. ASSUME NEW t \in Tsg, Rollback(t) PROVE DomainInv'
  <2>1. \E r : tsg' = [tsg EXCEPT ![t] = r] /\ r.pc \notin Deciding /\ call' = call
    BY <1>0, <1>27 DEF Rollback, becomes, at, TsgRecord, Deciding
  <2> QED BY <2>1, NothingDecided
<1>28. ASSUME NEW t \in Tsg, RollbackFails(t) PROVE DomainInv'
  <2>1. \E r : tsg' = [tsg EXCEPT ![t] = r] /\ r.pc \notin Deciding /\ call' = call
    BY <1>0, <1>28 DEF RollbackFails, becomes, at, TsgRecord, Deciding
  <2> QED BY <2>1, NothingDecided
<1>29. ASSUME NEW t \in Tsg, Teardown(t) PROVE DomainInv'
  <2>1. \E r : tsg' = [tsg EXCEPT ![t] = r] /\ r.pc \notin Deciding /\ call' = no_call /\ lock \in {t, NoTsg}
    BY <1>0, <1>29 DEF Teardown, gone, becomes, new_tsg, at, TsgRecord, Deciding, Locked
  <2> QED BY <2>1, NothingDecided
<1>30. ASSUME NEW t \in Tsg, SetTimesliceRpc(t) PROVE DomainInv'
  <2>1. \E r : tsg' = [tsg EXCEPT ![t] = r] /\ r.pc \notin Deciding /\ call' = no_call /\ lock \in {t, NoTsg}
    BY <1>0, <1>30 DEF SetTimesliceRpc, becomes, at, TsgRecord, Deciding, Locked
  <2> QED BY <2>1, NothingDecided
<1>31. ASSUME NEW t \in Tsg, NEW enable \in {0, 1}, StartSchedule(t, enable) PROVE DomainInv'
  <2> DEFINE r == [tsg[t] EXCEPT !.pc = "on_bind",
                                 !.binds = IF tsg[t].binds < 2 THEN tsg[t].binds + 1
                                                               ELSE tsg[t].binds]
  <2>1. /\ tsg' = [tsg EXCEPT ![t] = r] /\ lock = NoTsg
        /\ call' = [no_call EXCEPT !.params = enable, !.policy = registered]
    BY <1>31, Zenon DEF StartSchedule, becomes
  <2>a. r.pc \notin Deciding
    BY <1>0 DEF TsgRecord, Deciding
  <2> HIDE DEF r
  <2>2. Requests(call')
    BY <1>0, <2>1, Constants, NoRequests
  <2>3. Decided(r, call')
    BY <2>a DEF Decided, Deciding
  <2> QED BY <2>1, <2>2, <2>3, DomainUpdate
<1>32. ASSUME NEW t \in Tsg, ScheduleReturn(t) PROVE DomainInv'
  <2>1. \E r : tsg' = [tsg EXCEPT ![t] = r] /\ r.pc \notin Deciding /\ call' = no_call /\ lock \in {t, NoTsg}
    BY <1>0, <1>32 DEF ScheduleReturn, becomes, at, TsgRecord, Deciding, Locked
  <2> QED BY <2>1, NothingDecided
<1>33. ASSUME NEW t \in Tsg, StartFree(t) PROVE DomainInv'
  <2>1. \E r : tsg' = [tsg EXCEPT ![t] = r] /\ r.pc \notin Deciding /\ call' = call
    BY <1>0, <1>33 DEF StartFree, becomes, at, TsgRecord, Deciding
  <2> QED BY <2>1, NothingDecided
<1>34. ASSUME NEW t \in Tsg, FreeFails(t) PROVE DomainInv'
  <2>1. \E r : tsg' = [tsg EXCEPT ![t] = r] /\ r.pc \notin Deciding /\ call' = call
    BY <1>0, <1>34 DEF FreeFails, becomes, at, TsgRecord, Deciding
  <2> QED BY <2>1, NothingDecided
<1>35. ASSUME NEW t \in Tsg, NEW v \in Interleaves, SetInterleaveLevel(t, v) PROVE DomainInv'
  <2>1. \E r : tsg' = [tsg EXCEPT ![t] = r] /\ r.pc \notin Deciding /\ call' = call
    BY <1>0, <1>35 DEF SetInterleaveLevel, becomes, at, TsgRecord, Deciding
  <2> QED BY <2>1, NothingDecided
<1> QED
  BY <1>1, <1>2, <1>3, <1>4, <1>5, <1>6, <1>7, <1>8, <1>9, <1>10, <1>11, <1>12, <1>13,
       <1>14, <1>15, <1>16, <1>17, <1>18, <1>19, <1>20, <1>21, <1>22, <1>23, <1>24, <1>25,
       <1>26, <1>27, <1>28, <1>29, <1>30, <1>31, <1>32, <1>33, <1>34, <1>35
  DEF Next, Construct, Control, Kfunc, Register, Unregister, vars

(* What the policy decides is what it asked for, in unanimous calls and    *)
(* within the bounds, each value on its own; otherwise the constructor     *)
(* keeps the default and a control sends the client's own value            *)
(* (nv_gpu_transition_validate_scheduler and                               *)
(* nv_gpu_timeslice_control_validate, as the constructor and the control   *)
(* use them).                                                              *)
THEOREM PolicyDecides == Spec => []PolicyWithinDomain
<1>1. Init => DomainInv
  <2> SUFFICES ASSUME Init PROVE DomainInv
    OBVIOUS
  <2>1. Requests(call)
    BY NoRequests DEF Init
  <2>2. \A t \in Tsg : tsg[t].pc = "none"
    BY DEF Init, new_tsg
  <2>3. \A t \in Tsg : Decided(tsg[t], call)
    BY <2>2 DEF Decided
  <2> QED BY <2>1, <2>3 DEF DomainInv
<1>2. TypeOK /\ DomainInv /\ [Next]_vars => DomainInv'
  BY DomainStep
<1>3. DomainInv => PolicyWithinDomain
  <2> SUFFICES ASSUME DomainInv, NEW t \in Tsg
               PROVE  /\ at(t, "alloc") => DecidedTimeslice(tsg[t], call)
                                            /\ DecidedInterleave(tsg[t], call)
                      /\ at(t, "set_timeslice") => DecidedParams(call)
    BY DEF PolicyWithinDomain, DecidedTimeslice, DecidedInterleave, DecidedParams, has, flag
  <2> QED BY DEF DomainInv, Decided, at
<1> QED BY <1>1, <1>2, <1>3, TypeCorrect, PTL DEF Spec

-----------------------------------------------------------------------------
(* The grpIDs in use and the tasks the policy knows.                       *)

(* The object has a grpID of its own, which its teardown gives back.       *)
Holding(r) == has(r, "bTsgAllocated") /\ r.pc # "none"

(* The steps of an object that has its grpID.                              *)
Busy == Steps \ {"none", "share", "failed", "teardown"}

(* A constructor that failed before it had a grpID does not name one that  *)
(* is in use when its group is destroyed (kchangrpDestruct).               *)
Tracked(r, used) ==
  /\ r.pc = "share" => r.flags = {}
  /\ r.pc \in Busy => has(r, "bTsgAllocated")
  /\ r.pc \in {"failed", "teardown"} /\ ~has(r, "bTsgAllocated") => r.grpID \notin used

Held == \A t \in Tsg : Holding(tsg[t]) => tsg[t].grpID \in ids /\ tsg[t].grpID \in known

HeldApart ==
  \A s, t \in Tsg :
    Holding(tsg[s]) /\ Holding(tsg[t]) /\ tsg[s].grpID = tsg[t].grpID => s = t

UsedHeld == \A id \in ids : \E t \in Tsg : Holding(tsg[t]) /\ tsg[t].grpID = id

KnownInv ==
  /\ Held
  /\ HeldApart
  /\ UsedHeld
  /\ \A t \in Tsg : Tracked(tsg[t], ids)

(* While one of at most MaxGroups objects has no grpID, one is free.       *)
LEMMA FreeGroup ==
  ASSUME TypeOK, KnownInv, IsFiniteSet(Tsg), Cardinality(Tsg) <= MaxGroups,
         NEW t \in Tsg, ~Holding(tsg[t])
  PROVE  ids # GrpIDs
<1> DEFINE holders == {s \in Tsg : Holding(tsg[s])}
           f == [s \in holders |-> tsg[s].grpID]
<1>1. IsFiniteSet(Tsg \ {t}) /\ Cardinality(Tsg \ {t}) = Cardinality(Tsg) - 1
  BY FS_RemoveElement
<1>2. holders \in SUBSET (Tsg \ {t})
  OBVIOUS
<1>3. IsFiniteSet(holders) /\ Cardinality(holders) <= Cardinality(Tsg \ {t})
  BY <1>1, <1>2, FS_Subset
<1>4. f \in Surjection(holders, ids)
  <2>1. \A s \in holders : tsg[s].grpID \in ids
    BY DEF KnownInv, Held
  <2>2. \A id \in ids : \E s \in holders : f[s] = id
    BY DEF KnownInv, UsedHeld
  <2> QED BY <2>1, <2>2 DEF Surjection
<1>5. IsFiniteSet(ids) /\ Cardinality(ids) <= Cardinality(holders)
  BY <1>3, <1>4, FS_Surjection
<1>6. Cardinality(GrpIDs) = MaxGroups
  BY FS_Interval, TsgAssumption DEF GrpIDs
<1>7. /\ Cardinality(Tsg) \in Nat /\ Cardinality(holders) \in Nat
      /\ Cardinality(ids) \in Nat /\ MaxGroups \in Nat
  BY <1>3, <1>5, FS_CardinalityType, TsgAssumption
<1> QED BY <1>1, <1>3, <1>5, <1>6, <1>7

(* A step that gives nobody a grpID and takes none away.                   *)
LEMMA KnownUpdate ==
  ASSUME TypeOK, KnownInv, NEW t \in Tsg, NEW r, tsg' = [tsg EXCEPT ![t] = r],
         ids' = ids, known' = known,
         Holding(r) <=> Holding(tsg[t]),
         Holding(r) => r.grpID = tsg[t].grpID,
         Tracked(r, ids)
  PROVE  KnownInv'
<1>1. tsg \in [Tsg -> TsgRecord]
  BY DEF TypeOK
<1>2. tsg'[t] = r /\ \A s \in Tsg \ {t} : tsg'[s] = tsg[s]
  BY <1>1
<1>3. \A s \in Tsg : /\ Holding(tsg'[s]) <=> Holding(tsg[s])
                     /\ Holding(tsg'[s]) => tsg'[s].grpID = tsg[s].grpID
  BY <1>2
<1>4. Held'
  BY <1>3 DEF KnownInv, Held
<1>5. HeldApart'
  BY <1>3 DEF KnownInv, HeldApart
<1>6. UsedHeld'
  BY <1>3 DEF KnownInv, UsedHeld
<1>7. \A s \in Tsg : Tracked(tsg'[s], ids')
  BY <1>2 DEF KnownInv
<1> QED BY <1>4, <1>5, <1>6, <1>7 DEF KnownInv

(* A step of an object whose operation goes on.                            *)
LEMMA KnownMove ==
  ASSUME TypeOK, KnownInv, NEW t \in Tsg, NEW r, tsg' = [tsg EXCEPT ![t] = r],
         ids' = ids, known' = known,
         r.grpID = tsg[t].grpID,
         has(r, "bTsgAllocated") <=> has(tsg[t], "bTsgAllocated"),
         tsg[t].pc \notin {"none", "share"}, r.pc \notin {"none", "share"},
         r.pc \in Busy => tsg[t].pc \in Busy
  PROVE  KnownInv'
<1>1. Holding(r) <=> Holding(tsg[t])
  BY DEF Holding
<1>2. Tracked(tsg[t], ids) /\ tsg[t].pc \in Steps
  BY TsgFields DEF KnownInv, TypeOK
<1>3. Tracked(r, ids)
  BY <1>2 DEF Tracked, Busy
<1> QED BY <1>1, <1>3, KnownUpdate

(* Every step keeps the holders of grpIDs known and apart, when neither    *)
(* the checks at the head of the constructor nor the lock of its cleanup   *)
(* fail and there are no more objects than grpIDs.                         *)
LEMMA KnownStep ==
  ASSUME "early" \notin Faults, "relock" \notin Faults,
         IsFiniteSet(Tsg), Cardinality(Tsg) <= MaxGroups,
         TypeOK, KnownInv, [Next]_vars
  PROVE  KnownInv'
<1>0. /\ \A t \in Tsg : tsg[t] \in TsgRecord /\ Tracked(tsg[t], ids)
      /\ tsg \in [Tsg -> TsgRecord]
  BY DEF TypeOK, KnownInv
<1>1. CASE UNCHANGED <<tsg, ids, known>>
  BY <1>1 DEF KnownInv, Held, HeldApart, UsedHeld
<1>2. ASSUME NEW t \in Tsg, StartConstruct(t) PROVE KnownInv'
  <2> DEFINE r == [new_tsg EXCEPT !.pc = "share"]
  <2>1. /\ tsg' = [tsg EXCEPT ![t] = r] /\ ids' = ids /\ known' = known
        /\ tsg[t].pc = "none"
    BY <1>2 DEF StartConstruct, becomes, at
  <2>2. r.pc = "share" /\ r.flags = {}
    BY DEF new_tsg
  <2>3. ~Holding(r) /\ ~Holding(tsg[t]) /\ Tracked(r, ids)
    BY <2>1, <2>2 DEF Holding, has, Tracked, Busy
  <2> HIDE DEF r
  <2> QED BY <2>1, <2>3, KnownUpdate
<1>3. ASSUME NEW t \in Tsg, EarlyFails(t) PROVE KnownInv'
  <2>1. tsg[t].pc = "share" /\ ids = GrpIDs
    BY <1>3 DEF EarlyFails, at, may_fail
  <2>2. ~Holding(tsg[t])
    BY <1>0, <2>1 DEF Tracked, Holding, has
  <2> QED BY <2>1, <2>2, FreeGroup
<1>4. ASSUME NEW t \in Tsg, InitFails(t) PROVE KnownInv'
  <2>1. PICK id \in GrpIDs :
          /\ id \notin ids
          /\ tsg' = [tsg EXCEPT ![t] = [tsg[t] EXCEPT !.pc = "failed", !.grpID = id]]
    BY <1>4 DEF InitFails, becomes, least_unused
  <2> DEFINE r == [tsg[t] EXCEPT !.pc = "failed", !.grpID = id]
  <2>2. tsg[t].pc = "share" /\ tsg[t].flags = {} /\ ids' = ids /\ known' = known
    BY <1>0, <1>4 DEF InitFails, at, Tracked
  <2>3. r.pc = "failed" /\ r.grpID = id /\ r.flags = {}
    BY <1>0, <2>2 DEF TsgRecord
  <2>4. ~Holding(r) /\ ~Holding(tsg[t])
    BY <2>2, <2>3 DEF Holding, has
  <2>5. Tracked(r, ids)
    BY <2>1, <2>3 DEF Tracked, Busy
  <2>6. tsg' = [tsg EXCEPT ![t] = r]
    BY <2>1
  <2> HIDE DEF r
  <2> QED BY <2>2, <2>4, <2>5, <2>6, KnownUpdate
<1>5. ASSUME NEW t \in Tsg, TaskInit(t) PROVE KnownInv'
  <2>1. PICK id \in GrpIDs :
          /\ id \notin ids /\ ids' = ids \cup {id} /\ known' = known \cup {id}
          /\ becomes(t, [tsg[t] EXCEPT !.pc = "on_task_init", !.grpID = id,
                                       !.timesliceUs = DefaultTimeslice,
                                       !.interleave = LEVEL_MEDIUM,
                                       !.flags = @ \cup {"bTsgAllocated"}])
    BY <1>5 DEF TaskInit, least_unused
  <2>2. tsg[t].pc = "share" /\ lock = t
    BY <1>5 DEF TaskInit, at, TypeOK, Locked
  <2>3. /\ tsg'[t].pc = "on_task_init" /\ tsg'[t].grpID = id
        /\ has(tsg'[t], "bTsgAllocated")
    BY <1>0, <2>1 DEF becomes, TsgRecord, has
  <2>4. \A s \in Tsg \ {t} : tsg'[s] = tsg[s]
    BY <1>0, <2>1 DEF becomes
  <2>5. ~Holding(tsg[t]) /\ Holding(tsg'[t])
    BY <1>0, <2>2, <2>3 DEF Holding, has, Tracked
  <2>6. Held'
    BY <2>1, <2>3, <2>4 DEF KnownInv, Held
  <2>7. HeldApart'
    <3> SUFFICES ASSUME NEW s \in Tsg, NEW u \in Tsg, Holding(tsg'[s]), Holding(tsg'[u]),
                        tsg'[s].grpID = tsg'[u].grpID
                 PROVE  s = u
      BY DEF HeldApart
    <3>1. \A x \in Tsg \ {t} : Holding(tsg'[x]) => tsg'[x].grpID # id
      BY <2>1, <2>4 DEF KnownInv, Held
    <3> QED BY <2>3, <2>4, <3>1 DEF KnownInv, HeldApart
  <2>8. UsedHeld'
    <3> SUFFICES ASSUME NEW x \in ids \cup {id}
                 PROVE  \E s \in Tsg : Holding(tsg'[s]) /\ tsg'[s].grpID = x
      BY <2>1 DEF UsedHeld
    <3>1. CASE x = id
      BY <2>3, <2>5, <3>1
    <3>2. CASE x \in ids
      <4>1. PICK s \in Tsg : Holding(tsg[s]) /\ tsg[s].grpID = x
        BY <3>2 DEF KnownInv, UsedHeld
      <4>2. s # t
        BY <2>5, <4>1
      <4> QED BY <2>4, <4>1, <4>2
    <3> QED BY <3>1, <3>2
  <2>9. \A s \in Tsg : Tracked(tsg'[s], ids')
    <3>1. Tracked(tsg'[t], ids')
      BY <2>3 DEF Tracked
    <3>2. ASSUME NEW s \in Tsg \ {t} PROVE Tracked(tsg'[s], ids')
      <4>1. tsg[s].pc \notin {"failed", "teardown"}
        BY <2>2 DEF TypeOK, Locked
      <4> QED BY <1>0, <2>4, <4>1 DEF Tracked
    <3> QED BY <3>1, <3>2
  <2> QED BY <2>6, <2>7, <2>8, <2>9 DEF KnownInv
<1>6. ASSUME NEW t \in Tsg, Teardown(t) PROVE KnownInv'
  <2> DEFINE id == tsg[t].grpID
  <2>1. /\ tsg[t].pc = "teardown" /\ known' = known \ {id}
        /\ ids' = ids \ (IF has(tsg[t], "bTsgAllocated") THEN {id} ELSE {})
    BY <1>6 DEF Teardown, at, flag, has
  <2>2. tsg'[t].pc = "none"
    BY <1>0, <1>6 DEF Teardown, gone, becomes, new_tsg
  <2>3. \A s \in Tsg \ {t} : tsg'[s] = tsg[s]
    BY <1>0, <1>6 DEF Teardown, gone, becomes
  <2>4. ids' = ids \ {id}
    BY <1>0, <2>1 DEF Tracked
  <2>5. \A s \in Tsg \ {t} : Holding(tsg[s]) => tsg[s].grpID # id
    <3>1. CASE has(tsg[t], "bTsgAllocated")
      BY <2>1, <3>1 DEF KnownInv, HeldApart, Holding
    <3>2. CASE ~has(tsg[t], "bTsgAllocated")
      BY <1>0, <2>1, <3>2 DEF KnownInv, Held, Tracked
    <3> QED BY <3>1, <3>2
  <2>6. ~Holding(tsg'[t])
    BY <2>2 DEF Holding
  <2> HIDE DEF id
  <2>7. Held'
    BY <2>1, <2>3, <2>4, <2>5, <2>6 DEF KnownInv, Held
  <2>8. HeldApart'
    BY <2>3, <2>6 DEF KnownInv, HeldApart
  <2>9. UsedHeld'
    <3> SUFFICES ASSUME NEW x \in ids, x # id
                 PROVE  \E s \in Tsg : Holding(tsg'[s]) /\ tsg'[s].grpID = x
      BY <2>4 DEF UsedHeld
    <3>1. PICK s \in Tsg : Holding(tsg[s]) /\ tsg[s].grpID = x
      BY DEF KnownInv, UsedHeld
    <3>2. s # t
      BY <3>1 DEF id
    <3> QED BY <2>3, <3>1, <3>2
  <2>10. \A s \in Tsg : Tracked(tsg'[s], ids')
    <3>1. Tracked(tsg'[t], ids')
      BY <2>2 DEF Tracked, Busy
    <3>2. \A s \in Tsg \ {t} : Tracked(tsg[s], ids')
      BY <1>0, <2>4 DEF Tracked
    <3> QED BY <2>3, <3>1, <3>2
  <2> QED BY <2>7, <2>8, <2>9, <2>10 DEF KnownInv
<1>7. ASSUME NEW t \in Tsg, RelockFails(t) PROVE KnownInv'
  BY <1>7 DEF RelockFails, may_fail
<1>8. ASSUME NEW t \in Tsg, TaskInitReturn(t) PROVE KnownInv'
  <2> DEFINE snapshot == [tsg_id |-> tsg[t].grpID, runlist_id |-> 0, phase |-> 1]
             validation == validate_scheduler(snapshot, snapshot, tsg[t].timesliceUs,
                               tsg[t].interleave, MinTimeslice,
                               call.timeslice_request, call.interleave_request)
             f == tsg[t].flags \cup
                    (when(validation.timeslice_result = "APPLY", "bPolicyTimeslice")
                       \cup when(validation.interleave_result = "APPLY", "bPolicyInterleave"))
             r == [tsg[t] EXCEPT !.pc = "alloc", !.timesliceUs = validation.timeslice,
                                 !.interleave = validation.interleave, !.flags = f]
  <2>1. /\ tsg[t].pc = "on_task_init" /\ ids' = ids /\ known' = known
        /\ tsg' = [tsg EXCEPT ![t] = r]
    BY <1>8, Zenon DEF TaskInitReturn, becomes, at
  <2> HIDE DEF validation
  <2>2. "bTsgAllocated" \in f <=> "bTsgAllocated" \in tsg[t].flags
    BY DEF when
  <2> HIDE DEF f
  <2>3. /\ r.grpID = tsg[t].grpID /\ r.pc = "alloc"
        /\ has(r, "bTsgAllocated") <=> has(tsg[t], "bTsgAllocated")
    BY <1>0, <2>2 DEF TsgRecord, has
  <2>4. tsg[t].pc \in Busy
    BY <2>1 DEF Busy, Steps, Locked
  <2> HIDE DEF r
  <2> QED BY <2>1, <2>3, <2>4, KnownMove
<1>9. ASSUME NEW t \in Tsg, LocalFails(t) PROVE KnownInv'
  <2>1. /\ ids' = ids /\ known' = known /\ tsg[t].pc \notin {"none", "share"}
        /\ tsg' = [tsg EXCEPT ![t] = tsg'[t]]
    BY <1>0, <1>9 DEF LocalFails, goto, becomes, at
  <2>2. /\ tsg'[t].grpID = tsg[t].grpID /\ tsg'[t].pc \notin {"none", "share"}
        /\ has(tsg'[t], "bTsgAllocated") <=> has(tsg[t], "bTsgAllocated")
        /\ tsg'[t].pc \in Busy => tsg[t].pc \in Busy
    BY <1>0, <1>9 DEF LocalFails, goto, becomes, at, has, TsgRecord, Busy, Steps, Locked
  <2> QED BY <2>1, <2>2, KnownMove
<1>10. ASSUME NEW t \in Tsg, AllocObject(t) PROVE KnownInv'
  <2>1. /\ ids' = ids /\ known' = known /\ tsg[t].pc \notin {"none", "share"}
        /\ tsg' = [tsg EXCEPT ![t] = tsg'[t]]
    BY <1>0, <1>10 DEF AllocObject, becomes, at
  <2>2. /\ tsg'[t].grpID = tsg[t].grpID /\ tsg'[t].pc \notin {"none", "share"}
        /\ has(tsg'[t], "bTsgAllocated") <=> has(tsg[t], "bTsgAllocated")
        /\ tsg'[t].pc \in Busy => tsg[t].pc \in Busy
    BY <1>0, <1>10 DEF AllocObject, becomes, at, has, when, TsgRecord, Busy, Steps, Locked
  <2> QED BY <2>1, <2>2, KnownMove
<1>11. ASSUME NEW t \in Tsg, AllocFails(t) PROVE KnownInv'
  <2>1. /\ ids' = ids /\ known' = known /\ tsg[t].pc \notin {"none", "share"}
        /\ tsg' = [tsg EXCEPT ![t] = tsg'[t]]
    BY <1>0, <1>11 DEF AllocFails, becomes, at
  <2>2. /\ tsg'[t].grpID = tsg[t].grpID /\ tsg'[t].pc \notin {"none", "share"}
        /\ has(tsg'[t], "bTsgAllocated") <=> has(tsg[t], "bTsgAllocated")
        /\ tsg'[t].pc \in Busy => tsg[t].pc \in Busy
    BY <1>0, <1>11 DEF AllocFails, becomes, at, has, TsgRecord, Busy, Steps, Locked
  <2> QED BY <2>1, <2>2, KnownMove
<1>12. ASSUME NEW t \in Tsg, ReplayTimeslice(t) PROVE KnownInv'
  <2>1. /\ ids' = ids /\ known' = known /\ tsg[t].pc \notin {"none", "share"}
        /\ tsg' = [tsg EXCEPT ![t] = tsg'[t]]
    BY <1>0, <1>12 DEF ReplayTimeslice, goto, becomes, at
  <2>2. /\ tsg'[t].grpID = tsg[t].grpID /\ tsg'[t].pc \notin {"none", "share"}
        /\ has(tsg'[t], "bTsgAllocated") <=> has(tsg[t], "bTsgAllocated")
        /\ tsg'[t].pc \in Busy => tsg[t].pc \in Busy
    BY <1>0, <1>12 DEF ReplayTimeslice, goto, becomes, at, has, TsgRecord, Busy, Steps, Locked
  <2> QED BY <2>1, <2>2, KnownMove
<1>13. ASSUME NEW t \in Tsg, ReplayInterleave(t) PROVE KnownInv'
  <2>1. /\ ids' = ids /\ known' = known /\ tsg[t].pc \notin {"none", "share"}
        /\ tsg' = [tsg EXCEPT ![t] = tsg'[t]]
    BY <1>0, <1>13 DEF ReplayInterleave, goto, becomes, at
  <2>2. /\ tsg'[t].grpID = tsg[t].grpID /\ tsg'[t].pc \notin {"none", "share"}
        /\ has(tsg'[t], "bTsgAllocated") <=> has(tsg[t], "bTsgAllocated")
        /\ tsg'[t].pc \in Busy => tsg[t].pc \in Busy
    BY <1>0, <1>13 DEF ReplayInterleave, goto, becomes, at, has, TsgRecord, Busy, Steps, Locked
  <2> QED BY <2>1, <2>2, KnownMove
<1>14. ASSUME NEW t \in Tsg, ReplayFails(t) PROVE KnownInv'
  <2>1. /\ ids' = ids /\ known' = known /\ tsg[t].pc \notin {"none", "share"}
        /\ tsg' = [tsg EXCEPT ![t] = tsg'[t]]
    BY <1>0, <1>14 DEF ReplayFails, goto, becomes, at
  <2>2. /\ tsg'[t].grpID = tsg[t].grpID /\ tsg'[t].pc \notin {"none", "share"}
        /\ has(tsg'[t], "bTsgAllocated") <=> has(tsg[t], "bTsgAllocated")
        /\ tsg'[t].pc \in Busy => tsg[t].pc \in Busy
    BY <1>0, <1>14 DEF ReplayFails, goto, becomes, at, has, TsgRecord, Busy, Steps, Locked
  <2> QED BY <2>1, <2>2, KnownMove
<1>15. ASSUME NEW t \in Tsg, Promote(t) PROVE KnownInv'
  <2>1. /\ ids' = ids /\ known' = known /\ tsg[t].pc \notin {"none", "share"}
        /\ tsg' = [tsg EXCEPT ![t] = tsg'[t]]
    BY <1>0, <1>15 DEF Promote, goto, becomes, at
  <2>2. /\ tsg'[t].grpID = tsg[t].grpID /\ tsg'[t].pc \notin {"none", "share"}
        /\ has(tsg'[t], "bTsgAllocated") <=> has(tsg[t], "bTsgAllocated")
        /\ tsg'[t].pc \in Busy => tsg[t].pc \in Busy
    BY <1>0, <1>15 DEF Promote, goto, becomes, at, has, TsgRecord, Busy, Steps, Locked
  <2> QED BY <2>1, <2>2, KnownMove
<1>16. ASSUME NEW t \in Tsg, PromoteFails(t) PROVE KnownInv'
  <2>1. /\ ids' = ids /\ known' = known /\ tsg[t].pc \notin {"none", "share"}
        /\ tsg' = [tsg EXCEPT ![t] = tsg'[t]]
    BY <1>0, <1>16 DEF PromoteFails, goto, becomes, at
  <2>2. /\ tsg'[t].grpID = tsg[t].grpID /\ tsg'[t].pc \notin {"none", "share"}
        /\ has(tsg'[t], "bTsgAllocated") <=> has(tsg[t], "bTsgAllocated")
        /\ tsg'[t].pc \in Busy => tsg[t].pc \in Busy
    BY <1>0, <1>16 DEF PromoteFails, goto, becomes, at, has, TsgRecord, Busy, Steps, Locked
  <2> QED BY <2>1, <2>2, KnownMove
<1>17. ASSUME NEW t \in Tsg, Reserve(t) PROVE KnownInv'
  <2>1. /\ ids' = ids /\ known' = known /\ tsg[t].pc \notin {"none", "share"}
        /\ tsg' = [tsg EXCEPT ![t] = tsg'[t]]
    BY <1>0, <1>17 DEF Reserve, goto, becomes, at
  <2>2. /\ tsg'[t].grpID = tsg[t].grpID /\ tsg'[t].pc \notin {"none", "share"}
        /\ has(tsg'[t], "bTsgAllocated") <=> has(tsg[t], "bTsgAllocated")
        /\ tsg'[t].pc \in Busy => tsg[t].pc \in Busy
    BY <1>0, <1>17 DEF Reserve, goto, becomes, at, has, TsgRecord, Busy, Steps, Locked
  <2> QED BY <2>1, <2>2, KnownMove
<1>18. ASSUME NEW t \in Tsg, ReserveFails(t) PROVE KnownInv'
  <2>1. /\ ids' = ids /\ known' = known /\ tsg[t].pc \notin {"none", "share"}
        /\ tsg' = [tsg EXCEPT ![t] = tsg'[t]]
    BY <1>0, <1>18 DEF ReserveFails, goto, becomes, at
  <2>2. /\ tsg'[t].grpID = tsg[t].grpID /\ tsg'[t].pc \notin {"none", "share"}
        /\ has(tsg'[t], "bTsgAllocated") <=> has(tsg[t], "bTsgAllocated")
        /\ tsg'[t].pc \in Busy => tsg[t].pc \in Busy
    BY <1>0, <1>18 DEF ReserveFails, goto, becomes, at, has, TsgRecord, Busy, Steps, Locked
  <2> QED BY <2>1, <2>2, KnownMove
<1>19. ASSUME NEW t \in Tsg, Relock(t) PROVE KnownInv'
  <2>1. /\ ids' = ids /\ known' = known /\ tsg[t].pc \notin {"none", "share"}
        /\ tsg' = [tsg EXCEPT ![t] = tsg'[t]]
    BY <1>0, <1>19 DEF Relock, goto, becomes, at
  <2>2. /\ tsg'[t].grpID = tsg[t].grpID /\ tsg'[t].pc \notin {"none", "share"}
        /\ has(tsg'[t], "bTsgAllocated") <=> has(tsg[t], "bTsgAllocated")
        /\ tsg'[t].pc \in Busy => tsg[t].pc \in Busy
    BY <1>0, <1>19 DEF Relock, goto, becomes, at, has, TsgRecord, Busy, Steps, Locked
  <2> QED BY <2>1, <2>2, KnownMove
<1>20. ASSUME NEW t \in Tsg, Rollback(t) PROVE KnownInv'
  <2>1. /\ ids' = ids /\ known' = known /\ tsg[t].pc \notin {"none", "share"}
        /\ tsg' = [tsg EXCEPT ![t] = tsg'[t]]
    BY <1>0, <1>20 DEF Rollback, becomes, at
  <2>2. /\ tsg'[t].grpID = tsg[t].grpID /\ tsg'[t].pc \notin {"none", "share"}
        /\ has(tsg'[t], "bTsgAllocated") <=> has(tsg[t], "bTsgAllocated")
        /\ tsg'[t].pc \in Busy => tsg[t].pc \in Busy
    BY <1>0, <1>20 DEF Rollback, becomes, at, has, when, TsgRecord, Busy, Steps, Locked
  <2> QED BY <2>1, <2>2, KnownMove
<1>21. ASSUME NEW t \in Tsg, RollbackFails(t) PROVE KnownInv'
  <2>1. /\ ids' = ids /\ known' = known /\ tsg[t].pc \notin {"none", "share"}
        /\ tsg' = [tsg EXCEPT ![t] = tsg'[t]]
    BY <1>0, <1>21 DEF RollbackFails, becomes, at
  <2>2. /\ tsg'[t].grpID = tsg[t].grpID /\ tsg'[t].pc \notin {"none", "share"}
        /\ has(tsg'[t], "bTsgAllocated") <=> has(tsg[t], "bTsgAllocated")
        /\ tsg'[t].pc \in Busy => tsg[t].pc \in Busy
    BY <1>0, <1>21 DEF RollbackFails, becomes, at, has, TsgRecord, Busy, Steps, Locked
  <2> QED BY <2>1, <2>2, KnownMove
<1>22. ASSUME NEW t \in Tsg, NEW v \in Timeslices, StartSetTimeslice(t, v) PROVE KnownInv'
  <2>1. /\ ids' = ids /\ known' = known /\ tsg[t].pc \notin {"none", "share"}
        /\ tsg' = [tsg EXCEPT ![t] = tsg'[t]]
    BY <1>0, <1>22 DEF StartSetTimeslice, goto, becomes, at
  <2>2. /\ tsg'[t].grpID = tsg[t].grpID /\ tsg'[t].pc \notin {"none", "share"}
        /\ has(tsg'[t], "bTsgAllocated") <=> has(tsg[t], "bTsgAllocated")
        /\ tsg'[t].pc \in Busy => tsg[t].pc \in Busy
    BY <1>0, <1>22 DEF StartSetTimeslice, goto, becomes, at, has, TsgRecord, Busy, Steps, Locked
  <2> QED BY <2>1, <2>2, KnownMove
<1>23. ASSUME NEW t \in Tsg, TimesliceControlReturn(t) PROVE KnownInv'
  <2>1. /\ ids' = ids /\ known' = known /\ tsg[t].pc \notin {"none", "share"}
        /\ tsg' = [tsg EXCEPT ![t] = tsg'[t]]
    BY <1>0, <1>23 DEF TimesliceControlReturn, goto, becomes, at
  <2>2. /\ tsg'[t].grpID = tsg[t].grpID /\ tsg'[t].pc \notin {"none", "share"}
        /\ has(tsg'[t], "bTsgAllocated") <=> has(tsg[t], "bTsgAllocated")
        /\ tsg'[t].pc \in Busy => tsg[t].pc \in Busy
    BY <1>0, <1>23 DEF TimesliceControlReturn, goto, becomes, at, has, TsgRecord, Busy, Steps, Locked
  <2> QED BY <2>1, <2>2, KnownMove
<1>24. ASSUME NEW t \in Tsg, SetTimesliceRpc(t) PROVE KnownInv'
  <2>1. /\ ids' = ids /\ known' = known /\ tsg[t].pc \notin {"none", "share"}
        /\ tsg' = [tsg EXCEPT ![t] = tsg'[t]]
    BY <1>0, <1>24 DEF SetTimesliceRpc, becomes, at
  <2>2. /\ tsg'[t].grpID = tsg[t].grpID /\ tsg'[t].pc \notin {"none", "share"}
        /\ has(tsg'[t], "bTsgAllocated") <=> has(tsg[t], "bTsgAllocated")
        /\ tsg'[t].pc \in Busy => tsg[t].pc \in Busy
    BY <1>0, <1>24 DEF SetTimesliceRpc, becomes, at, has, TsgRecord, Busy, Steps, Locked
  <2> QED BY <2>1, <2>2, KnownMove
<1>25. ASSUME NEW t \in Tsg, SetTimesliceFails(t) PROVE KnownInv'
  <2>1. /\ ids' = ids /\ known' = known /\ tsg[t].pc \notin {"none", "share"}
        /\ tsg' = [tsg EXCEPT ![t] = tsg'[t]]
    BY <1>0, <1>25 DEF SetTimesliceFails, goto, becomes, at
  <2>2. /\ tsg'[t].grpID = tsg[t].grpID /\ tsg'[t].pc \notin {"none", "share"}
        /\ has(tsg'[t], "bTsgAllocated") <=> has(tsg[t], "bTsgAllocated")
        /\ tsg'[t].pc \in Busy => tsg[t].pc \in Busy
    BY <1>0, <1>25 DEF SetTimesliceFails, goto, becomes, at, has, TsgRecord, Busy, Steps, Locked
  <2> QED BY <2>1, <2>2, KnownMove
<1>26. ASSUME NEW t \in Tsg, NEW v \in Interleaves, SetInterleaveLevel(t, v) PROVE KnownInv'
  <2>1. /\ ids' = ids /\ known' = known /\ tsg[t].pc \notin {"none", "share"}
        /\ tsg' = [tsg EXCEPT ![t] = tsg'[t]]
    BY <1>0, <1>26 DEF SetInterleaveLevel, becomes, at
  <2>2. /\ tsg'[t].grpID = tsg[t].grpID /\ tsg'[t].pc \notin {"none", "share"}
        /\ has(tsg'[t], "bTsgAllocated") <=> has(tsg[t], "bTsgAllocated")
        /\ tsg'[t].pc \in Busy => tsg[t].pc \in Busy
    BY <1>0, <1>26 DEF SetInterleaveLevel, becomes, at, has, TsgRecord, Busy, Steps, Locked
  <2> QED BY <2>1, <2>2, KnownMove
<1>27. ASSUME NEW t \in Tsg, NEW enable \in {0, 1}, StartSchedule(t, enable) PROVE KnownInv'
  <2>1. /\ ids' = ids /\ known' = known /\ tsg[t].pc \notin {"none", "share"}
        /\ tsg' = [tsg EXCEPT ![t] = tsg'[t]]
    BY <1>0, <1>27 DEF StartSchedule, becomes, at
  <2>2. /\ tsg'[t].grpID = tsg[t].grpID /\ tsg'[t].pc \notin {"none", "share"}
        /\ has(tsg'[t], "bTsgAllocated") <=> has(tsg[t], "bTsgAllocated")
        /\ tsg'[t].pc \in Busy => tsg[t].pc \in Busy
    BY <1>0, <1>27 DEF StartSchedule, becomes, at, has, TsgRecord, Busy, Steps, Locked
  <2> QED BY <2>1, <2>2, KnownMove
<1>28. ASSUME NEW t \in Tsg, ScheduleReturn(t) PROVE KnownInv'
  <2>1. /\ ids' = ids /\ known' = known /\ tsg[t].pc \notin {"none", "share"}
        /\ tsg' = [tsg EXCEPT ![t] = tsg'[t]]
    BY <1>0, <1>28 DEF ScheduleReturn, becomes, at
  <2>2. /\ tsg'[t].grpID = tsg[t].grpID /\ tsg'[t].pc \notin {"none", "share"}
        /\ has(tsg'[t], "bTsgAllocated") <=> has(tsg[t], "bTsgAllocated")
        /\ tsg'[t].pc \in Busy => tsg[t].pc \in Busy
    BY <1>0, <1>28 DEF ScheduleReturn, becomes, at, has, when, TsgRecord, Busy, Steps, Locked
  <2> QED BY <2>1, <2>2, KnownMove
<1>29. ASSUME NEW t \in Tsg, ScheduleFails(t) PROVE KnownInv'
  <2>1. /\ ids' = ids /\ known' = known /\ tsg[t].pc \notin {"none", "share"}
        /\ tsg' = [tsg EXCEPT ![t] = tsg'[t]]
    BY <1>0, <1>29 DEF ScheduleFails, goto, becomes, at
  <2>2. /\ tsg'[t].grpID = tsg[t].grpID /\ tsg'[t].pc \notin {"none", "share"}
        /\ has(tsg'[t], "bTsgAllocated") <=> has(tsg[t], "bTsgAllocated")
        /\ tsg'[t].pc \in Busy => tsg[t].pc \in Busy
    BY <1>0, <1>29 DEF ScheduleFails, goto, becomes, at, has, TsgRecord, Busy, Steps, Locked
  <2> QED BY <2>1, <2>2, KnownMove
<1>30. ASSUME NEW t \in Tsg, StartFree(t) PROVE KnownInv'
  <2>1. /\ ids' = ids /\ known' = known /\ tsg[t].pc \notin {"none", "share"}
        /\ tsg' = [tsg EXCEPT ![t] = tsg'[t]]
    BY <1>0, <1>30 DEF StartFree, becomes, at
  <2>2. /\ tsg'[t].grpID = tsg[t].grpID /\ tsg'[t].pc \notin {"none", "share"}
        /\ has(tsg'[t], "bTsgAllocated") <=> has(tsg[t], "bTsgAllocated")
        /\ tsg'[t].pc \in Busy => tsg[t].pc \in Busy
    BY <1>0, <1>30 DEF StartFree, becomes, at, has, TsgRecord, Busy, Steps, Locked
  <2> QED BY <2>1, <2>2, KnownMove
<1>31. ASSUME NEW t \in Tsg, FreeFails(t) PROVE KnownInv'
  <2>1. /\ ids' = ids /\ known' = known /\ tsg[t].pc \notin {"none", "share"}
        /\ tsg' = [tsg EXCEPT ![t] = tsg'[t]]
    BY <1>0, <1>31 DEF FreeFails, becomes, at
  <2>2. /\ tsg'[t].grpID = tsg[t].grpID /\ tsg'[t].pc \notin {"none", "share"}
        /\ has(tsg'[t], "bTsgAllocated") <=> has(tsg[t], "bTsgAllocated")
        /\ tsg'[t].pc \in Busy => tsg[t].pc \in Busy
    BY <1>0, <1>31 DEF FreeFails, becomes, at, has, TsgRecord, Busy, Steps, Locked
  <2> QED BY <2>1, <2>2, KnownMove
<1> QED
  BY <1>1, <1>2, <1>3, <1>4, <1>5, <1>6, <1>7, <1>8, <1>9, <1>10, <1>11, <1>12, <1>13,
       <1>14, <1>15, <1>16, <1>17, <1>18, <1>19, <1>20, <1>21, <1>22, <1>23, <1>24, <1>25,
       <1>26, <1>27, <1>28, <1>29, <1>30, <1>31
  DEF Next, Construct, Control, Kfunc, Register, Unregister, SetTimeslice, SetInterleave,
      OverrideTimeslice, RejectBind, vars

(* A policy that adds an entry for a grpID at task_init and removes it at  *)
(* task_destroy has an entry for every constructed TSG, though grpIDs are  *)
(* used again, any policy comes and goes and later steps fail - provided   *)
(* the checks at the head of kchangrpapiConstruct_IMPL let the call pass,  *)
(* the runlist has a grpID for every object and the lock can be taken      *)
(* again for the cleanup: without those, a failed constructor calls        *)
(* task_destroy with a grpID that is not its own.                          *)
THEOREM TasksKnown ==
  ASSUME "early" \notin Faults, "relock" \notin Faults,
         IsFiniteSet(Tsg), Cardinality(Tsg) <= MaxGroups
  PROVE  Spec => []LiveTasksKnown
<1>1. Init => KnownInv
  <2> SUFFICES ASSUME Init PROVE KnownInv
    OBVIOUS
  <2>1. \A t \in Tsg : tsg[t].pc = "none"
    BY DEF Init, new_tsg
  <2>2. ids = {}
    BY DEF Init
  <2> QED BY <2>1, <2>2 DEF KnownInv, Held, HeldApart, UsedHeld, Tracked, Holding, Busy
<1>2. TypeOK /\ KnownInv /\ [Next]_vars => KnownInv'
  BY KnownStep
<1>3. KnownInv => LiveTasksKnown
  <2> SUFFICES ASSUME KnownInv, NEW t \in Tsg, tsg[t].pc \in {"reserve", "live"}
               PROVE  tsg[t].grpID \in known
    BY DEF LiveTasksKnown
  <2>1. Holding(tsg[t])
    BY DEF KnownInv, Tracked, Holding, Busy, Steps
  <2> QED BY <2>1 DEF KnownInv, Held
<1> QED BY <1>1, <1>2, <1>3, TypeCorrect, PTL DEF Spec
=============================================================================
