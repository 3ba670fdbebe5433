------------------------------ MODULE TsgPolicy ------------------------------
(***************************************************************************)
(* The scheduling policy of a time-slice group (TSG) on a GSP client:      *)
(* kernel_channel_group_api.c with the hooks of nv-gpu-sched-hooks.c.      *)
(*                                                                         *)
(* The constructor of a TSG calls the policy with the native defaults,     *)
(* validates what it asked for, applies it to the CPU side bookkeeping,    *)
(* allocates the object on the GSP and replays the applied values there;   *)
(* any later step may fail and is then undone.  The controls that set the  *)
(* timeslice and schedule the TSG call the policy too.  All of it runs     *)
(* under the GPU lock except the reservation of context buffers at the end *)
(* of the constructor; policies come and go at any time.                   *)
(*                                                                         *)
(* A TSG object is named by its handle; one operation at a time runs on it *)
(* (the client lock).                                                      *)
(***************************************************************************)
EXTENDS TransitionValidator, FiniteSets

CONSTANTS
  Tsg, NoTsg,
  MaxGroups,         \* the grpIDs of the runlist are 0 .. MaxGroups - 1
  MinTimeslice,      \* kfifoRunlistGetMinTimeSlice
  DefaultTimeslice,  \* kfifoChannelGroupGetDefaultTimeslice
  Timeslices,        \* the timeslices clients and policies ask for
  Interleaves,       \* the interleave levels they ask for
  Faults             \* the steps that may fail, \subseteq FaultNames

FaultNames == {"early", "init", "local", "alloc", "replay", "promote", "reserve", "relock",
               "rollback", "control", "free"}

GrpIDs == 0 .. MaxGroups - 1

LEVEL_MEDIUM == 1

ASSUME TsgAssumption ==
  /\ NoTsg \notin Tsg
  /\ MaxGroups \in Nat \ {0}
  /\ MinTimeslice \in U64 /\ DefaultTimeslice \in U64 /\ MinTimeslice <= DefaultTimeslice
  /\ Timeslices \subseteq U64
  /\ Interleaves \subseteq U64
  /\ LEVEL_MEDIUM \in U64
  /\ Faults \subseteq FaultNames

VARIABLES
  registered,  \* nv_gpu_sched_bpf_ops # NULL
  lock,        \* the holder of the GPU lock
  tsg,         \* per handle: the bookkeeping, and the step of the operation on it
  gsp,         \* per handle: the object the GSP holds
  ids,         \* the grpIDs in use
  call,        \* the callback of the lock holder: the decision context
  known        \* history: grpIDs whose task_init has been seen and whose task_destroy has not

vars == <<registered, lock, tsg, gsp, ids, call, known>>

no_object == [exists |-> FALSE, timesliceUs |-> 0, interleave |-> 0]

no_call ==
  [policy |-> FALSE, timeslice_request |-> no_request(0), interleave_request |-> no_request(0),
   params |-> 0, allow |-> TRUE, timeslices |-> {}, interleaves |-> {}]

(* The locals and fields that are set: the constructor's bTsgAllocated ... *)
(* bPolicyRemoteAllocated, the resource's bRpcFree, whether the TSG is on  *)
(* the runlist, and two histories: this constructor created the remote     *)
(* object, and its rollback failed.                                        *)
Flags == {"bTsgAllocated", "bPolicyTimeslice", "bPolicyInterleave", "bPolicyRemoteAllocated",
          "bRpcFree", "scheduled", "allocated", "rollback_failed"}

(* binds is a history: the number of bind hooks of the TSG, up to two.     *)
new_tsg ==
  [pc |-> "none", grpID |-> 0, timesliceUs |-> 0, interleave |-> 0, flags |-> {}, binds |-> 0]

Init ==
  /\ registered = FALSE
  /\ lock = NoTsg
  /\ tsg = [t \in Tsg |-> new_tsg]
  /\ gsp = [t \in Tsg |-> no_object]
  /\ ids = {}
  /\ call = no_call
  /\ known = {}

at(t, pc) == tsg[t].pc = pc

becomes(t, r) == tsg' = [tsg EXCEPT ![t] = r]

goto(t, pc) == becomes(t, [tsg[t] EXCEPT !.pc = pc])

may_fail(fault) == fault \in Faults

flag(t, name) == name \in tsg[t].flags

when(condition, name) == IF condition THEN {name} ELSE {}

policy_applied(t) == flag(t, "bPolicyTimeslice") \/ flag(t, "bPolicyInterleave")

(* The object is gone; what the properties ask about its end is kept.      *)
gone(t) == becomes(t, [new_tsg EXCEPT !.flags = tsg[t].flags \ {"scheduled"}])

-----------------------------------------------------------------------------
(* The registration of a policy: nv_gpu_sched_ops_reg and _unreg.  The     *)
(* callback that runs when a policy goes away runs to its end.             *)

Register ==
  /\ ~registered
  /\ registered' = TRUE
  /\ UNCHANGED <<lock, tsg, gsp, ids, call, known>>

Unregister ==
  /\ registered
  /\ registered' = FALSE
  /\ UNCHANGED <<lock, tsg, gsp, ids, call, known>>

(* The kfuncs a callback calls.  The histories timeslices and interleaves  *)
(* keep the first two different values it asked for.                       *)
asked(values, v) == IF Cardinality(values) < 2 THEN values \cup {v} ELSE values

SetTimeslice(t, v) ==
  /\ at(t, "on_task_init")
  /\ call.policy
  /\ call' = [call EXCEPT !.timeslice_request = record_u64(@, v), !.timeslices = asked(@, v)]
  /\ UNCHANGED <<registered, lock, tsg, gsp, ids, known>>

SetInterleave(t, v) ==
  /\ at(t, "on_task_init")
  /\ call.policy
  /\ call' = [call EXCEPT !.interleave_request = record_u32(@, v), !.interleaves = asked(@, v)]
  /\ UNCHANGED <<registered, lock, tsg, gsp, ids, known>>

OverrideTimeslice(t, v) ==
  /\ at(t, "on_timeslice_control")
  /\ call.policy
  /\ call' = [call EXCEPT !.timeslice_request = record_u64(@, v), !.timeslices = asked(@, v)]
  /\ UNCHANGED <<registered, lock, tsg, gsp, ids, known>>

RejectBind(t) ==
  /\ at(t, "on_bind")
  /\ call.policy
  /\ call' = [call EXCEPT !.allow = FALSE]
  /\ UNCHANGED <<registered, lock, tsg, gsp, ids, known>>

-----------------------------------------------------------------------------
(* kchangrpapiConstruct_IMPL.                                              *)

StartConstruct(t) ==
  /\ at(t, "none")
  /\ lock = NoTsg
  /\ lock' = t
  /\ becomes(t, [new_tsg EXCEPT !.pc = "share"])
  /\ call' = no_call
  /\ UNCHANGED <<registered, gsp, ids, known>>

(* The class, the client, the engine or the VA space is refused, or        *)
(* kchangrpInit finds no free grpID: the group's grpID is still zero.      *)
EarlyFails(t) ==
  /\ at(t, "share")
  /\ may_fail("early") \/ ids = GrpIDs
  /\ goto(t, "failed")
  /\ UNCHANGED <<registered, lock, gsp, ids, call, known>>

(* kfifoChidMgrAllocChannelGroupHwID.                                      *)
least_unused(id) == id \notin ids /\ \A other \in GrpIDs \ ids : id <= other

(* kchangrpInit fails after it took a grpID, which it gives back.          *)
InitFails(t) ==
  /\ at(t, "share")
  /\ may_fail("init")
  /\ \E id \in GrpIDs :
       /\ least_unused(id)
       /\ becomes(t, [tsg[t] EXCEPT !.pc = "failed", !.grpID = id])
  /\ UNCHANGED <<registered, lock, gsp, ids, call, known>>

(* kchangrpInit, the default interleave level, and the call of the         *)
(* task_init hook.                                                         *)
TaskInit(t) ==
  /\ at(t, "share")
  /\ \E id \in GrpIDs :
       /\ least_unused(id)
       /\ ids' = ids \cup {id}
       /\ known' = known \cup {id}
       /\ becomes(t, [tsg[t] EXCEPT !.pc = "on_task_init", !.grpID = id,
                                    !.timesliceUs = DefaultTimeslice,
                                    !.interleave = LEVEL_MEDIUM,
                                    !.flags = @ \cup {"bTsgAllocated"}])
  /\ call' = [no_call EXCEPT !.policy = registered]
  /\ UNCHANGED <<registered, lock, gsp>>

(* Mutant: a rejected value is clamped to the minimum.                     *)
TaskInitReturn_Clamped(t) ==
  /\ at(t, "on_task_init")
  /\ LET v == call.timeslice_request.value
         attempted == call.timeslice_request.attempted
         clamped == IF v < MinTimeslice THEN MinTimeslice ELSE v
     IN  becomes(t, [tsg[t] EXCEPT !.pc = "alloc",
                                   !.timesliceUs = IF attempted THEN clamped ELSE @,
                                   !.flags = @ \cup when(attempted, "bPolicyTimeslice")])
  /\ UNCHANGED <<registered, lock, gsp, ids, call, known>>

(* The callback has returned: each value is validated on its own, applied  *)
(* to the bookkeeping, and remembered as the policy's.                     *)
TaskInitReturn(t) ==
  /\ at(t, "on_task_init")
  /\ LET snapshot == [tsg_id |-> tsg[t].grpID, runlist_id |-> 0, phase |-> 1]
         validation == validate_scheduler(snapshot, snapshot, tsg[t].timesliceUs,
                           tsg[t].interleave, MinTimeslice,
                           call.timeslice_request, call.interleave_request)
         applied == when(validation.timeslice_result = "APPLY", "bPolicyTimeslice")
                      \cup when(validation.interleave_result = "APPLY", "bPolicyInterleave")
     IN  becomes(t, [tsg[t] EXCEPT !.pc = "alloc", !.timesliceUs = validation.timeslice,
                                   !.interleave = validation.interleave, !.flags = @ \cup applied])
  /\ UNCHANGED <<registered, lock, gsp, ids, call, known>>

(* A setter that refuses the policy's value, the context buffers, the      *)
(* confidential compute set-up or the graphics context object.             *)
LocalFails(t) ==
  /\ at(t, "alloc")
  /\ may_fail("local")
  /\ goto(t, "failed")
  /\ UNCHANGED <<registered, lock, gsp, ids, call, known>>

(* Mutant: the allocation counts as the policy's only once the values have *)
(* been replayed.                                                          *)
AllocObject_NotYetRemote(t) ==
  /\ at(t, "alloc")
  /\ ~gsp[t].exists
  /\ gsp' = [gsp EXCEPT ![t] = [exists |-> TRUE, timesliceUs |-> DefaultTimeslice,
                                interleave |-> LEVEL_MEDIUM]]
  /\ becomes(t, [tsg[t] EXCEPT !.pc = "timeslice",
                               !.flags = @ \cup {"allocated", "bRpcFree"}])
  /\ UNCHANGED <<registered, lock, ids, call, known>>

(* NV_RM_RPC_ALLOC_OBJECT: the GSP creates the object with its defaults.   *)
AllocObject(t) ==
  /\ at(t, "alloc")
  /\ ~gsp[t].exists
  /\ gsp' = [gsp EXCEPT ![t] = [exists |-> TRUE, timesliceUs |-> DefaultTimeslice,
                                interleave |-> LEVEL_MEDIUM]]
  /\ becomes(t, [tsg[t] EXCEPT !.pc = "timeslice",
                               !.flags = @ \cup {"allocated", "bRpcFree"} \cup
                                   when(policy_applied(t), "bPolicyRemoteAllocated")])
  /\ UNCHANGED <<registered, lock, ids, call, known>>

(* The GSP refuses, for one because it still has an object of that handle. *)
AllocFails(t) ==
  /\ at(t, "alloc")
  /\ may_fail("alloc") \/ gsp[t].exists
  /\ becomes(t, [tsg[t] EXCEPT !.pc = "failed", !.flags = @ \cup {"bRpcFree"}])
  /\ UNCHANGED <<registered, lock, gsp, ids, call, known>>

(* Mutant: the interleave level is replayed only with a timeslice.         *)
ReplayInterleave_WithTimeslice(t) ==
  /\ at(t, "interleave")
  /\ gsp' = IF flag(t, "bPolicyTimeslice")
            THEN [gsp EXCEPT ![t].interleave = tsg[t].interleave] ELSE gsp
  /\ goto(t, "promote")
  /\ UNCHANGED <<registered, lock, ids, call, known>>

(* The replay of the values the policy set, each by an RPC of its own.     *)
ReplayTimeslice(t) ==
  /\ at(t, "timeslice")
  /\ gsp' = IF flag(t, "bPolicyTimeslice")
            THEN [gsp EXCEPT ![t].timesliceUs = tsg[t].timesliceUs] ELSE gsp
  /\ goto(t, "interleave")
  /\ UNCHANGED <<registered, lock, ids, call, known>>

ReplayInterleave(t) ==
  /\ at(t, "interleave")
  /\ gsp' = IF flag(t, "bPolicyInterleave")
            THEN [gsp EXCEPT ![t].interleave = tsg[t].interleave] ELSE gsp
  /\ goto(t, "promote")
  /\ UNCHANGED <<registered, lock, ids, call, known>>

ReplayFails(t) ==
  /\ may_fail("replay")
  /\ \/ at(t, "timeslice") /\ flag(t, "bPolicyTimeslice")
     \/ at(t, "interleave") /\ flag(t, "bPolicyInterleave")
  /\ goto(t, "failed")
  /\ UNCHANGED <<registered, lock, gsp, ids, call, known>>

(* Fault method buffers and the object list; then the lock is released and *)
(* context buffers are reserved.                                           *)
Promote(t) ==
  /\ at(t, "promote")
  /\ goto(t, "reserve")
  /\ lock' = NoTsg
  /\ call' = no_call
  /\ UNCHANGED <<registered, gsp, ids, known>>

PromoteFails(t) ==
  /\ at(t, "promote")
  /\ may_fail("promote")
  /\ goto(t, "failed")
  /\ UNCHANGED <<registered, lock, gsp, ids, call, known>>

Reserve(t) ==
  /\ at(t, "reserve")
  /\ goto(t, "live")
  /\ UNCHANGED <<registered, lock, gsp, ids, call, known>>

ReserveFails(t) ==
  /\ at(t, "reserve")
  /\ may_fail("reserve")
  /\ goto(t, "relock")
  /\ UNCHANGED <<registered, lock, gsp, ids, call, known>>

(* Mutant: the cleanup runs without the lock.                              *)
Relock_Unlocked(t) ==
  /\ at(t, "relock")
  /\ goto(t, "failed")
  /\ UNCHANGED <<registered, lock, gsp, ids, call, known>>

(* The lock is acquired again for the cleanup.                             *)
Relock(t) ==
  /\ at(t, "relock")
  /\ lock = NoTsg
  /\ lock' = t
  /\ goto(t, "failed")
  /\ UNCHANGED <<registered, gsp, ids, call, known>>

(* NV_ASSERT_OK_OR_RETURN: the constructor returns as it is.               *)
RelockFails(t) ==
  /\ at(t, "relock")
  /\ may_fail("relock")
  /\ gone(t)
  /\ UNCHANGED <<registered, lock, gsp, ids, call, known>>

(* The failed label: the remote object is freed if a policy value is the   *)
(* reason it would differ from a native one.                               *)
Rollback(t) ==
  /\ at(t, "failed")
  /\ becomes(t, [tsg[t] EXCEPT !.pc = "teardown",
                               !.flags = @ \ when(flag(t, "bPolicyRemoteAllocated"), "bRpcFree")])
  /\ gsp' = IF flag(t, "bPolicyRemoteAllocated") THEN [gsp EXCEPT ![t] = no_object] ELSE gsp
  /\ UNCHANGED <<registered, lock, ids, call, known>>

RollbackFails(t) ==
  /\ at(t, "failed")
  /\ flag(t, "bPolicyRemoteAllocated")
  /\ may_fail("rollback")
  /\ becomes(t, [tsg[t] EXCEPT !.pc = "teardown", !.flags = @ \cup {"rollback_failed"}])
  /\ UNCHANGED <<registered, lock, gsp, ids, call, known>>

(* Mutant: the group's share is freed, and its destructor calls the hook,  *)
(* after the lock has been released.                                       *)
Teardown_HookUnlocked(t) ==
  \/ /\ at(t, "teardown")
     /\ lock = t
     /\ ids' = ids \ (IF flag(t, "bTsgAllocated") THEN {tsg[t].grpID} ELSE {})
     /\ lock' = NoTsg
     /\ call' = no_call
     /\ UNCHANGED <<registered, tsg, gsp, known>>
  \/ /\ at(t, "teardown")
     /\ lock # t
     /\ known' = known \ {tsg[t].grpID}
     /\ gone(t)
     /\ UNCHANGED <<registered, lock, gsp, ids, call>>

(* kchangrpDestroy gives the grpID back; freeing the share runs            *)
(* kchangrpDestruct, which calls the task_destroy hook.                    *)
Teardown(t) ==
  /\ at(t, "teardown")
  /\ ids' = ids \ (IF flag(t, "bTsgAllocated") THEN {tsg[t].grpID} ELSE {})
  /\ known' = known \ {tsg[t].grpID}
  /\ lock' = NoTsg
  /\ call' = no_call
  /\ gone(t)
  /\ UNCHANGED <<registered, gsp>>

-----------------------------------------------------------------------------
(* Controls and the free of a constructed TSG.                             *)

(* kchangrpapiCtrlCmdSetTimeslice_IMPL: the policy sees only values within *)
(* its domain.                                                             *)
StartSetTimeslice(t, v) ==
  /\ at(t, "live")
  /\ lock = NoTsg
  /\ lock' = t
  /\ LET eligible == timeslice_control_eligible(v, MinTimeslice)
     IN  /\ call' = [no_call EXCEPT !.params = v, !.policy = eligible /\ registered]
         /\ goto(t, IF eligible THEN "on_timeslice_control" ELSE "set_timeslice")
  /\ UNCHANGED <<registered, gsp, ids, known>>

(* Any request that is not applied fails the client's control.             *)
TimesliceControlReturn(t) ==
  /\ at(t, "on_timeslice_control")
  /\ LET ctx == [tsg_id |-> tsg[t].grpID, requested_timeslice_us |-> call.params,
                 hclient |-> 1, htsg |-> 1, phase |-> TIMESLICE_CONTROL_PHASE]
         validated == timeslice_control_validate(ctx, ctx, MinTimeslice, call.timeslice_request)
     IN  IF call.timeslice_request.attempted /\ validated.result # "APPLY"
         THEN /\ goto(t, "live")
              /\ lock' = NoTsg
              /\ call' = no_call
         ELSE /\ goto(t, "set_timeslice")
              /\ lock' = lock
              /\ call' = [call EXCEPT !.params = validated.effective]
  /\ UNCHANGED <<registered, gsp, ids, known>>

(* The RPC; the GSP refuses a timeslice below the minimum.                 *)
SetTimesliceRpc(t) ==
  /\ at(t, "set_timeslice")
  /\ call.params >= MinTimeslice
  /\ gsp' = [gsp EXCEPT ![t].timesliceUs = call.params]
  /\ becomes(t, [tsg[t] EXCEPT !.pc = "live", !.timesliceUs = call.params])
  /\ lock' = NoTsg
  /\ call' = no_call
  /\ UNCHANGED <<registered, ids, known>>

SetTimesliceFails(t) ==
  /\ at(t, "set_timeslice")
  /\ may_fail("control") \/ call.params < MinTimeslice
  /\ goto(t, "live")
  /\ lock' = NoTsg
  /\ call' = no_call
  /\ UNCHANGED <<registered, gsp, ids, known>>

(* kchangrpapiCtrlCmdSetInterleaveLevel_IMPL: a failing RPC changes        *)
(* nothing, and the GSP refuses a level above 2.                           *)
SetInterleaveLevel(t, v) ==
  /\ at(t, "live")
  /\ lock = NoTsg
  /\ v <= 2
  /\ gsp' = [gsp EXCEPT ![t].interleave = v]
  /\ becomes(t, [tsg[t] EXCEPT !.interleave = v])
  /\ UNCHANGED <<registered, lock, ids, call, known>>

(* kchangrpapiCtrlCmdGpFifoSchedule_IMPL with bEnable = (enable = 1): the  *)
(* bind hook comes first, for a disable too.                               *)
StartSchedule(t, enable) ==
  /\ at(t, "live")
  /\ lock = NoTsg
  /\ lock' = t
  /\ becomes(t, [tsg[t] EXCEPT !.pc = "on_bind", !.binds = IF @ < 2 THEN @ + 1 ELSE @])
  /\ call' = [no_call EXCEPT !.params = enable, !.policy = registered]
  /\ UNCHANGED <<registered, gsp, ids, known>>

ScheduleReturn(t) ==
  /\ at(t, "on_bind")
  /\ call.allow
  /\ becomes(t, [tsg[t] EXCEPT !.pc = "live",
                               !.flags = (@ \ {"scheduled"})
                                          \cup when(call.params = 1, "scheduled")])
  /\ lock' = NoTsg
  /\ call' = no_call
  /\ UNCHANGED <<registered, gsp, ids, known>>

(* NV_ERR_BUSY_RETRY, or the RPC fails.                                    *)
ScheduleFails(t) ==
  /\ at(t, "on_bind")
  /\ ~call.allow \/ may_fail("control")
  /\ goto(t, "live")
  /\ lock' = NoTsg
  /\ call' = no_call
  /\ UNCHANGED <<registered, gsp, ids, known>>

(* clientFreeResource: the RPC of serverFreeResourceRpcUnderLock, then     *)
(* kchangrpapiDestruct_IMPL.                                               *)
StartFree(t) ==
  /\ at(t, "live")
  /\ lock = NoTsg
  /\ lock' = t
  /\ gsp' = IF flag(t, "bRpcFree") THEN [gsp EXCEPT ![t] = no_object] ELSE gsp
  /\ becomes(t, [tsg[t] EXCEPT !.pc = "teardown", !.flags = @ \ {"allocated"}])
  /\ UNCHANGED <<registered, ids, call, known>>

FreeFails(t) ==
  /\ at(t, "live")
  /\ lock = NoTsg
  /\ may_fail("free")
  /\ lock' = t
  /\ becomes(t, [tsg[t] EXCEPT !.pc = "teardown", !.flags = @ \ {"allocated"}])
  /\ UNCHANGED <<registered, gsp, ids, call, known>>

-----------------------------------------------------------------------------
Construct(t) ==
  \/ StartConstruct(t) \/ EarlyFails(t) \/ InitFails(t) \/ TaskInit(t) \/ TaskInitReturn(t)
  \/ LocalFails(t) \/ AllocObject(t) \/ AllocFails(t)
  \/ ReplayTimeslice(t) \/ ReplayInterleave(t) \/ ReplayFails(t)
  \/ Promote(t) \/ PromoteFails(t) \/ Reserve(t) \/ ReserveFails(t) \/ Relock(t) \/ RelockFails(t)
  \/ Rollback(t) \/ RollbackFails(t) \/ Teardown(t)

Control(t) ==
  \/ \E v \in Timeslices : StartSetTimeslice(t, v)
  \/ TimesliceControlReturn(t) \/ SetTimesliceRpc(t) \/ SetTimesliceFails(t)
  \/ \E v \in Interleaves : SetInterleaveLevel(t, v)
  \/ (\E enable \in {0, 1} : StartSchedule(t, enable)) \/ ScheduleReturn(t) \/ ScheduleFails(t)
  \/ StartFree(t) \/ FreeFails(t)

Kfunc(t) ==
  \/ \E v \in Timeslices : SetTimeslice(t, v) \/ OverrideTimeslice(t, v)
  \/ \E v \in Interleaves : SetInterleave(t, v)
  \/ RejectBind(t)

Next ==
  \/ Register \/ Unregister
  \/ \E t \in Tsg : Construct(t) \/ Control(t) \/ Kfunc(t)

Spec == Init /\ [][Next]_vars

-----------------------------------------------------------------------------
(* Properties.                                                             *)

(* The steps that run with the GPU lock held.                              *)
Locked == {"share", "on_task_init", "alloc", "timeslice", "interleave", "promote", "failed",
           "teardown", "on_timeslice_control", "set_timeslice", "on_bind"}

Steps == Locked \cup {"none", "reserve", "relock", "live"}

TsgRecord ==
  [pc : Steps, grpID : GrpIDs, timesliceUs : U64, interleave : U64,
   flags : SUBSET Flags, binds : 0 .. 2]

GspRecord == [exists : BOOLEAN, timesliceUs : U64, interleave : U64]

Request == [attempted : BOOLEAN, conflict : BOOLEAN, value : U64]

CallRecord ==
  [policy : BOOLEAN, timeslice_request : Request, interleave_request : Request,
   params : U64, allow : BOOLEAN, timeslices : SUBSET U64, interleaves : SUBSET U64]

TypeOK ==
  /\ registered \in BOOLEAN
  /\ lock \in Tsg \cup {NoTsg}
  /\ tsg \in [Tsg -> TsgRecord]
  /\ gsp \in [Tsg -> GspRecord]
  /\ ids \subseteq GrpIDs
  /\ call \in CallRecord
  /\ known \subseteq GrpIDs
  /\ \A t \in Tsg : tsg[t].pc \in Locked <=> lock = t

(* "The open GSP-client scheduling HAL setters update only CPU-side        *)
(* bookkeeping.  Replay validated policy decisions after the remote object *)
(* exists": a constructed TSG that no control is changing has, on the GSP, *)
(* the timeslice and interleave level of the CPU side bookkeeping, whoever *)
(* set them and whichever RPC has failed.                                  *)
PolicyReachesGsp ==
  \A t \in Tsg : at(t, "live") =>
    gsp[t] = [exists |-> TRUE, timesliceUs |-> tsg[t].timesliceUs, interleave |-> tsg[t].interleave]

(* "Compensate a successful remote allocation before local teardown": a    *)
(* constructor that fails after a policy value was applied leaves no       *)
(* object on the GSP, unless the compensating RPC itself failed.           *)
RollbackComplete ==
  \A t \in Tsg :
    /\ at(t, "none")
    /\ flag(t, "allocated") /\ policy_applied(t)
    /\ ~flag(t, "rollback_failed")
    => ~gsp[t].exists

(* What the policy decides is what it asked for, in unanimous calls and    *)
(* within the bounds, each value on its own; otherwise the constructor     *)
(* keeps the default and a control sends the client's own value, which is  *)
(* "never repaired by BPF" (nv_gpu_timeslice_control_eligible).            *)
decided(values, v, legal) == values = {v} /\ legal

PolicyWithinDomain ==
  \A t \in Tsg :
    /\ at(t, "alloc") =>
         /\ \/ tsg[t].timesliceUs = DefaultTimeslice /\ ~flag(t, "bPolicyTimeslice")
            \/ /\ flag(t, "bPolicyTimeslice")
               /\ decided(call.timeslices, tsg[t].timesliceUs, tsg[t].timesliceUs >= MinTimeslice)
         /\ \/ tsg[t].interleave = LEVEL_MEDIUM /\ ~flag(t, "bPolicyInterleave")
            \/ /\ flag(t, "bPolicyInterleave")
               /\ decided(call.interleaves, tsg[t].interleave, tsg[t].interleave <= 2)
    /\ at(t, "set_timeslice") /\ call.timeslices # {} =>
         decided(call.timeslices, call.params,
                 timeslice_control_eligible(call.params, MinTimeslice))

(* task_destroy is "useful for cleanup of BPF map entries associated with  *)
(* the TSG": a policy that adds an entry for the grpID at task_init and    *)
(* removes it at task_destroy has an entry for every TSG that exists,      *)
(* though grpIDs are used again.                                           *)
LiveTasksKnown ==
  \A t \in Tsg : tsg[t].pc \in {"reserve", "live"} => tsg[t].grpID \in known

-----------------------------------------------------------------------------
(* What the comments say and the code does not do.                         *)

(* The hook overview: "nv_gpu_sched_bind - TSG bind to hardware runlist    *)
(* (once per TSG)".                                                        *)
BindOnce == \A t \in Tsg : tsg[t].binds <= 1
=============================================================================
