-------------------------- MODULE GpreemptTransport --------------------------
(***************************************************************************)
(* The GPreempt transport (RmGPreemptTransport, escape.c): a process asks  *)
(* for the one GR channel group that one of its threads created, and sets  *)
(* the timeslice of a channel group by its handles.  The calls run beside  *)
(* processes that exit and whose numbers are used again, clients whose     *)
(* file descriptors other processes keep open, handles that are used       *)
(* again, and threads that write to the memory the call reads.             *)
(*                                                                         *)
(* The scan of the clients runs under the API lock and the GPU locks, and  *)
(* is one step; copying from and to user memory is done without them.  The *)
(* resource server is external.                                            *)
(***************************************************************************)
EXTENDS Naturals, FiniteSets, FiniteSetsExt

CONSTANTS
  Process, NoProcess,
  Pid,           \* the number of each process: several in turn may have the same
  Tid,           \* thread ids, client handles and object handles: numbers above 0
  Client, Object,
  Thread,        \* the threads that make the calls
  MaxChannels,   \* NV_GPREEMPT_MAX_CHANNELS
  MaxGroups,     \* bound: channel groups created
  Values,        \* the timeslices programs write
  Allowed,       \* the timeslices of nv_gpreempt_timeslice_allowed
  Faults         \* \subseteq FaultNames

FaultNames == {"copy_in", "pid", "lock", "control", "copy_out"}

ASSUME TransportAssumption ==
  /\ NoProcess \notin Process
  /\ Tid \cup Client \cup Object \subseteq Nat \ {0}
  /\ MaxChannels \in Nat \ {0} /\ MaxGroups \in Nat
  /\ Allowed \subseteq Values /\ Values \subseteq Nat \ {0}
  /\ Faults \subseteq FaultNames

SET_TIMESLICE_V1 == 1

Ref == Client \X Object

VARIABLES
  proc,     \* "new", "alive" or "dead"
  clients,  \* the RM clients: their pOsPidInfo, and whether they are user clients
  tsgs,     \* the KernelChannelGroupApi objects
  groups,   \* the channel groups created so far
  gsp,      \* IS_GSP_CLIENT
  memory,   \* the user memory a call reads its timeslice from
  call,     \* where each call is
  control,  \* history: the last timeslice a call gave to each group, and its process
  holders   \* history: the processes that created or duplicated each group

rm == <<clients, tsgs, groups, holders>>
vars == <<proc, rm, gsp, memory, call, control>>

no_client == [owner |-> NoProcess, user |-> FALSE]

no_tsg == [group |-> 0, creator |-> 0, gr |-> FALSE, channels |-> {}]

no_control == [value |-> 0, by |-> NoProcess]

(* hClient and hObject are the fields of pApi, list the channels copied to *)
(* the user, and seen a history: the groups the scan matched.              *)
idle ==
  [pc |-> "idle", p |-> NoProcess, flags |-> 0, requestedClient |-> 0, requestedObject |-> 0,
   op |-> "INVALID", timeslice |-> 0, status |-> "OK", hClient |-> 0, hObject |-> 0,
   selected |-> <<0, 0>>, channels |-> {}, list |-> {}, seen |-> {}]

Statuses == {"OK", "INVALID_ARGUMENT", "FAULT", "PERMISSIONS", "LOCK", "NOT_FOUND",
             "NOT_SUPPORTED", "INVALID_STATE", "BUFFER_TOO_SMALL", "CONTROL"}

TypeOK ==
  /\ proc \in [Process -> {"new", "alive", "dead"}]
  /\ clients \in [Client -> [owner : Process \cup {NoProcess}, user : BOOLEAN]]
  /\ tsgs \in [Ref -> [group : 0 .. MaxGroups, creator : Tid \cup {0}, gr : BOOLEAN,
                       channels : SUBSET (1 .. MaxChannels + 1)]]
  /\ groups \in 0 .. MaxGroups
  /\ gsp \in BOOLEAN
  /\ memory \in [Thread -> Values]
  /\ \A k \in Thread :
       /\ call[k].pc \in {"idle", "copy_in", "scan", "copy_out", "done"}
       /\ call[k].p \in Process \cup {NoProcess}
       /\ call[k].op \in {"INVALID", "QUERY", "SET_TIMESLICE"}
       /\ call[k].status \in Statuses
       /\ Cardinality(call[k].channels) <= MaxChannels
       /\ call[k].pc \in {"copy_in", "scan", "copy_out"} => proc[call[k].p] = "alive"
  /\ control \in [1 .. MaxGroups -> [value : Values \cup {0}, by : Process \cup {NoProcess}]]
  /\ holders \in [1 .. MaxGroups -> SUBSET Process]

Init ==
  /\ proc = [p \in Process |-> "new"]
  /\ clients = [c \in Client |-> no_client]
  /\ tsgs = [r \in Ref |-> no_tsg]
  /\ groups = 0
  /\ gsp \in BOOLEAN
  /\ memory \in [Thread -> Values]
  /\ call = [k \in Thread |-> idle]
  /\ control = [g \in 1 .. MaxGroups |-> no_control]
  /\ holders = [g \in 1 .. MaxGroups |-> {}]

-----------------------------------------------------------------------------
(* The resource server and the processes (external).                       *)

StartProcess(p) ==
  /\ proc[p] = "new"
  /\ \A q \in Process \ {p} : proc[q] = "alive" => Pid[q] # Pid[p]
  /\ proc' = [proc EXCEPT ![p] = "alive"]
  /\ UNCHANGED <<rm, gsp, memory, call, control>>

free_clients(cs) ==
  /\ clients' = [c \in Client |-> IF c \in cs THEN no_client ELSE clients[c]]
  /\ tsgs' = [r \in Ref |-> IF r[1] \in cs THEN no_tsg ELSE tsgs[r]]

(* The clients whose descriptor another process has are kept.              *)
Exit(p) ==
  /\ proc[p] = "alive"
  /\ \A k \in Thread : call[k].p # p
  /\ proc' = [proc EXCEPT ![p] = "dead"]
  /\ \E cs \in SUBSET {c \in Client : clients[c].owner = p} : free_clients(cs)
  /\ UNCHANGED <<groups, gsp, memory, call, control, holders>>

AllocClient(p, c) ==
  /\ proc[p] = "alive"
  /\ clients[c].owner = NoProcess
  /\ \E user \in BOOLEAN : clients' = [clients EXCEPT ![c] = [owner |-> p, user |-> user]]
  /\ UNCHANGED <<proc, tsgs, groups, holders, gsp, memory, call, control>>

FreeClient(c) ==
  /\ clients[c].owner # NoProcess
  /\ free_clients({c})
  /\ UNCHANGED <<proc, groups, gsp, memory, call, control, holders>>

free_ref(r) == clients[r[1]].owner # NoProcess /\ tsgs[r].group = 0

(* kchangrpapiConstruct records the thread that creates the object.        *)
AllocTsg(r, tid) ==
  /\ free_ref(r)
  /\ proc[clients[r[1]].owner] = "alive"
  /\ groups < MaxGroups
  /\ groups' = groups + 1
  /\ \E gr \in BOOLEAN :
       tsgs' = [tsgs EXCEPT ![r] = [group |-> groups + 1, creator |-> tid, gr |-> gr, channels |-> {}]]
  /\ holders' = [holders EXCEPT ![groups + 1] = {clients[r[1]].owner}]
  /\ UNCHANGED <<proc, clients, gsp, memory, call, control>>

(* The copy constructor: another object for the same group.                *)
DupTsg(r, from, tid) ==
  /\ free_ref(r)
  /\ proc[clients[r[1]].owner] = "alive"
  /\ tsgs[from].group # 0
  /\ tsgs' = [tsgs EXCEPT ![r] = [tsgs[from] EXCEPT !.creator = tid, !.channels = {}]]
  /\ holders' = [holders EXCEPT ![tsgs[from].group] = holders[tsgs[from].group] \cup {clients[r[1]].owner}]
  /\ UNCHANGED <<proc, clients, groups, gsp, memory, call, control>>

AllocChannel(r) ==
  /\ tsgs[r].group # 0
  /\ Cardinality(tsgs[r].channels) <= MaxChannels
  /\ LET next == Cardinality(tsgs[r].channels) + 1
     IN  tsgs' = [tsgs EXCEPT ![r].channels = tsgs[r].channels \cup {next}]
  /\ UNCHANGED <<proc, clients, groups, gsp, memory, call, control, holders>>

FreeTsg(r) ==
  /\ tsgs[r].group # 0
  /\ tsgs' = [tsgs EXCEPT ![r] = no_tsg]
  /\ UNCHANGED <<proc, clients, groups, gsp, memory, call, control, holders>>

(* Another thread of the process writes to the parameters.                 *)
UserWrite(k) ==
  /\ \E v \in Values \ {memory[k]} : memory' = [memory EXCEPT ![k] = v]
  /\ UNCHANGED <<proc, rm, gsp, call, control>>

-----------------------------------------------------------------------------
(* The call.                                                               *)

(* nv_gpreempt_operation; sized says that cmd and paramsSize fit.          *)
operation(flags, hClient, hObject, params, sized) ==
  IF hClient = 0 \/ ~params \/ ~sized THEN "INVALID"
  ELSE IF flags = 0 /\ hObject = 0 THEN "QUERY"
  ELSE IF flags = SET_TIMESLICE_V1 /\ hObject # 0 THEN "SET_TIMESLICE"
  ELSE "INVALID"

(* Mutant: the handles of a query are not cleared.                         *)
cleared_Not(flags, handle) == handle

(* The handles of a call without flags are cleared before anything fails.  *)
cleared(flags, handle) == IF flags = 0 THEN 0 ELSE handle

StartCall(k, p, flags, hClient, hObject) ==
  /\ call[k].pc = "idle"
  /\ proc[p] = "alive"
  /\ \E params, sized \in BOOLEAN :
       LET op == operation(flags, hClient, hObject, params, sized)
           pApi == [idle EXCEPT !.p = p, !.flags = flags,
                      !.hClient = cleared(flags, hClient), !.hObject = cleared(flags, hObject)]
       IN  call' = [call EXCEPT ![k] =
             IF op = "INVALID" THEN [pApi EXCEPT !.pc = "done", !.status = "INVALID_ARGUMENT"]
             ELSE [pApi EXCEPT !.pc = IF op = "QUERY" THEN "scan" ELSE "copy_in", !.op = op,
                     !.requestedClient = hClient, !.requestedObject = hObject]]
  /\ UNCHANGED <<proc, rm, gsp, memory, control>>

(* A call that ends: what is left of it is what it wrote to pApi.          *)
ends(k, status) ==
  call' = [call EXCEPT ![k] = [idle EXCEPT
             !.pc = "done", !.p = call[k].p, !.flags = call[k].flags, !.status = status,
             !.hClient = call[k].hClient, !.hObject = call[k].hObject]]

CopyIn(k) ==
  /\ call[k].pc = "copy_in"
  /\ \/ /\ memory[k] \in Allowed
        /\ call' = [call EXCEPT ![k] = [call[k] EXCEPT !.pc = "scan", !.timeslice = memory[k]]]
     \/ memory[k] \notin Allowed /\ ends(k, "INVALID_ARGUMENT")
     \/ "copy_in" \in Faults /\ ends(k, "FAULT")
  /\ UNCHANGED <<proc, rm, gsp, memory, control>>

(* osGetPidInfo and the two locks.                                         *)
LockFails(k) ==
  /\ call[k].pc = "scan"
  /\ \/ "pid" \in Faults /\ ends(k, "PERMISSIONS")
     \/ "lock" \in Faults /\ ends(k, "LOCK")
  /\ UNCHANGED <<proc, rm, gsp, memory, control>>

(* Mutant: processes are compared by number.                               *)
owned_user_ByNumber(p, c) ==
  clients[c].user /\ clients[c].owner # NoProcess /\ Pid[clients[c].owner] = Pid[p]

(* nv_gpreempt_owned_user: the retained pid objects are compared.          *)
owned_user(p, c) == clients[c].user /\ clients[c].owner = p

(* The GR objects of the caller's user clients.                            *)
owned_groups(p) == {r \in Ref : owned_user(p, r[1]) /\ tsgs[r].group # 0 /\ tsgs[r].gr}

(* Mutant: the parameters are read again.                                  *)
control_params_Fetched(k) == memory[k]

(* The timeslice that was checked is the one that is set.                  *)
control_params(k) == call[k].timeslice

ScanSet(k) ==
  LET r == <<call[k].requestedClient, call[k].requestedObject>>
  IN  /\ call[k].pc = "scan" /\ call[k].op = "SET_TIMESLICE"
      /\ \/ r \notin owned_groups(call[k].p) /\ ends(k, "NOT_FOUND") /\ UNCHANGED control
         \/ r \in owned_groups(call[k].p) /\ ~gsp /\ ends(k, "NOT_SUPPORTED") /\ UNCHANGED control
         \/ /\ r \in owned_groups(call[k].p) /\ gsp
            /\ control' = [control EXCEPT ![tsgs[r].group] =
                             [value |-> control_params(k), by |-> call[k].p]]
            /\ \/ ends(k, "OK")
               \/ "control" \in Faults /\ ends(k, "CONTROL")
      /\ UNCHANGED <<proc, rm, gsp, memory>>

(* Mutant: one channel more than the array holds.                          *)
query_status_OneMore(first, matches) ==
  IF Cardinality(tsgs[first].channels) > MaxChannels + 1 THEN "BUFFER_TOO_SMALL"
  ELSE IF matches # {first} THEN "INVALID_STATE"
  ELSE IF tsgs[first].channels = {} THEN "NOT_FOUND"
  ELSE "OK"

(* What the scan of a query comes to when it meets the group first before  *)
(* the other matches.                                                      *)
query_status(first, matches) ==
  IF Cardinality(tsgs[first].channels) > MaxChannels THEN "BUFFER_TOO_SMALL"
  ELSE IF matches # {first} THEN "INVALID_STATE"
  ELSE IF tsgs[first].channels = {} THEN "NOT_FOUND"
  ELSE "OK"

(* The call when the group first was selected, or rejected.                *)
answer(k, first, matches) ==
  LET status == query_status(first, matches)
  IN  [call[k] EXCEPT !.status = status,
         !.pc = IF status = "OK" THEN "copy_out" ELSE "done",
         !.selected = first,
         !.channels = {<<first, n>> : n \in {m \in tsgs[first].channels : status = "OK"}},
         !.seen = {<<r, tsgs[r].channels>> : r \in matches}]

ScanQuery(k) ==
  LET matches == {r \in owned_groups(call[k].p) : tsgs[r].creator = call[k].requestedClient}
  IN  /\ call[k].pc = "scan" /\ call[k].op = "QUERY"
      /\ \/ matches = {} /\ ends(k, "NOT_FOUND")
         \/ \E first \in matches : call' = [call EXCEPT ![k] = answer(k, first, matches)]
      /\ UNCHANGED <<proc, rm, gsp, memory, control>>

(* The channels are written in their order: a copy that fails has written  *)
(* the first ones, and the handles stay cleared.                           *)
CopyOut(k) ==
  /\ call[k].pc = "copy_out"
  /\ \/ call' = [call EXCEPT ![k] =
                   [call[k] EXCEPT !.pc = "done", !.list = call[k].channels,
                      !.hClient = call[k].selected[1], !.hObject = call[k].selected[2]]]
     \/ /\ "copy_out" \in Faults
        /\ \E written \in 0 .. MaxChannels :
             call' = [call EXCEPT ![k] =
                        [call[k] EXCEPT !.pc = "done", !.status = "FAULT",
                           !.list = {x \in call[k].channels : x[2] <= written}]]
  /\ UNCHANGED <<proc, rm, gsp, memory, control>>

Return(k) ==
  /\ call[k].pc = "done"
  /\ call' = [call EXCEPT ![k] = idle]
  /\ UNCHANGED <<proc, rm, gsp, memory, control>>

-----------------------------------------------------------------------------
Environment ==
  \/ \E p \in Process : StartProcess(p) \/ Exit(p)
  \/ \E c \in Client : FreeClient(c) \/ \E p \in Process : AllocClient(p, c)
  \/ \E r \in Ref : FreeTsg(r) \/ AllocChannel(r)
  \/ \E r, from \in Ref, tid \in Tid : AllocTsg(r, tid) \/ DupTsg(r, from, tid)
  \/ \E k \in Thread : UserWrite(k)

Call(k) ==
  \/ \E p \in Process, flags \in 0 .. 2, hClient \in Tid \cup Client \cup {0}, hObject \in Object \cup {0} :
       StartCall(k, p, flags, hClient, hObject)
  \/ CopyIn(k) \/ LockFails(k) \/ ScanSet(k) \/ ScanQuery(k) \/ CopyOut(k) \/ Return(k)

Next == Environment \/ \E k \in Thread : Call(k)

Spec == Init /\ [][Next]_vars

-----------------------------------------------------------------------------
(* Properties.                                                             *)

(* "Authorize by the actual retained Linux TGID object": only a process    *)
(* that created or duplicated a channel group sets its timeslice here, and *)
(* a process that got the number of a dead one never reaches the groups    *)
(* whose client outlived their owner.                                      *)
SetByHolder ==
  \A g \in 1 .. MaxGroups : control[g].by # NoProcess => control[g].by \in holders[g]

(* "The versioned write endpoint accepts only GPreempt's two timeslices",  *)
(* also when the parameters change in user memory during the call.         *)
OnlyTwoTimeslices == \A g \in 1 .. MaxGroups : control[g].value \in Allowed \cup {0}

(* A query that leaves handles behind succeeded, named the only group of   *)
(* the caller that the thread created when it looked, and gave all of its  *)
(* channels and no others.  Every other query leaves the handles cleared,  *)
(* and channels only if the copy of the answer failed: then they are some  *)
(* of those of the only group it matched.                                  *)
QueryWhole ==
  \A k \in Thread : call[k].pc = "done" /\ call[k].flags = 0 =>
    IF call[k].status = "OK"
    THEN LET r == <<call[k].hClient, call[k].hObject>>
         IN  \E channels \in (SUBSET (1 .. MaxChannels + 1)) \ {{}} :
               /\ call[k].seen = {<<r, channels>>}
               /\ call[k].list = {<<r, n>> : n \in channels}
    ELSE /\ call[k].hClient = 0 /\ call[k].hObject = 0
         /\ \A x \in call[k].list :
              /\ call[k].status = "FAULT"
              /\ \E channels \in SUBSET (1 .. MaxChannels + 1) :
                   call[k].seen = {<<x[1], channels>>} /\ x[2] \in channels
=============================================================================
