----------------------- MODULE GpreemptTransport_proofs -----------------------
(***************************************************************************)
(* Proofs about GpreemptTransport: for any processes, numbers, clients and *)
(* calls, a timeslice is set only by a holder of the channel group, and    *)
(* only to a value the endpoint allows; and a query returns one group      *)
(* whole or nothing.                                                       *)
(***************************************************************************)
EXTENDS GpreemptTransport, FiniteSetTheorems, TLAPS

(* The types the arguments need.                                           *)
Refs == Nat \X Nat

Channels == SUBSET Nat

Lists == SUBSET (Refs \X Nat)

Matches == SUBSET (Refs \X Channels)

TsgRecord == [group : 0 .. MaxGroups, creator : Nat, gr : BOOLEAN, channels : Channels]

CallRecord ==
  [pc : {"idle", "copy_in", "scan", "copy_out", "done"}, p : Process \cup {NoProcess},
   flags : 0 .. 2, requestedClient : Nat, requestedObject : Nat,
   op : {"INVALID", "QUERY", "SET_TIMESLICE"}, timeslice : Values \cup {0}, status : Statuses,
   hClient : Nat, hObject : Nat, selected : Refs, channels : Lists, list : Lists, seen : Matches]

Types ==
  /\ proc \in [Process -> {"new", "alive", "dead"}]
  /\ clients \in [Client -> [owner : Process \cup {NoProcess}, user : BOOLEAN]]
  /\ tsgs \in [Ref -> TsgRecord]
  /\ groups \in 0 .. MaxGroups
  /\ memory \in [Thread -> Values]
  /\ control \in [1 .. MaxGroups -> [value : Values \cup {0}, by : Process \cup {NoProcess}]]
  /\ holders \in [1 .. MaxGroups -> SUBSET Process]

CallTypes == call \in [Thread -> CallRecord]

(* The channels of an object can be counted.                               *)
Countable == \A r \in Ref : IsFiniteSet(tsgs[r].channels)

(* Groups are numbered as they are created, and nobody has controlled one  *)
(* before.                                                                 *)
Numbered ==
  /\ \A r \in Ref : tsgs[r].group <= groups
  /\ \A g \in 1 .. MaxGroups : control[g].by # NoProcess => g <= groups

(* An object belongs to a client, whose owner holds the group.             *)
Held ==
  \A r \in Ref : tsgs[r].group # 0 =>
    /\ clients[r[1]].owner # NoProcess
    /\ clients[r[1]].owner \in holders[tsgs[r].group]

(* A call that goes on to set a timeslice has checked it.                  *)
Checked ==
  \A k \in Thread : call[k].pc = "scan" /\ call[k].op = "SET_TIMESLICE" => call[k].timeslice \in Allowed

TransportInv ==
  /\ Types /\ CallTypes /\ Countable
  /\ Numbered /\ Held /\ Checked
  /\ SetByHolder /\ OnlyTwoTimeslices

(* A reference is a client and an object, both numbers.                    *)
LEMMA RefParts == \A r \in Ref : r[1] \in Client /\ r[2] \in Object /\ r \in Refs
  BY TransportAssumption DEF Ref, Refs

(* The empty values have these types.                                      *)
LEMMA EmptyTypes ==
  /\ no_tsg \in TsgRecord /\ no_tsg.group = 0 /\ no_tsg.channels = {} /\ {} \in Channels
  /\ <<0, 0>> \in Refs /\ {} \in Lists /\ {} \in Matches
<1>1. {} \in Channels /\ {} \in Lists /\ {} \in Matches /\ <<0, 0>> \in Refs
  BY DEF Channels, Lists, Matches, Refs
<1>2. no_tsg \in TsgRecord /\ no_tsg.group = 0 /\ no_tsg.channels = {}
  BY <1>1, TransportAssumption DEF no_tsg, TsgRecord
<1> QED BY <1>1, <1>2

(* So has the record of no call.                                           *)
LEMMA IdleTypes == idle \in CallRecord /\ idle.pc = "idle" /\ idle.op = "INVALID"
  BY EmptyTypes, TransportAssumption DEF idle, CallRecord, Statuses

(* Every initial state satisfies the invariant.                            *)
LEMMA TransportInit == Init => TransportInv
<1> SUFFICES ASSUME Init PROVE TransportInv
  OBVIOUS
<1> USE TransportAssumption DEF Init
<1>1. Types
  BY EmptyTypes DEF Types, no_client, no_control
<1>2. CallTypes
  BY IdleTypes DEF CallTypes
<1>3. Countable
  BY FS_EmptySet, EmptyTypes DEF Countable
<1>4. Numbered /\ SetByHolder /\ OnlyTwoTimeslices
  BY EmptyTypes DEF Numbered, SetByHolder, OnlyTwoTimeslices, no_control
<1>5. Held /\ Checked
  BY EmptyTypes, IdleTypes DEF Held, Checked
<1> QED BY <1>1, <1>2, <1>3, <1>4, <1>5 DEF TransportInv

-----------------------------------------------------------------------------
(* The processes and the resource server.                                  *)

(* What the calls have checked does not depend on them.                    *)
LEMMA EnvironmentCalls ==
  ASSUME TransportInv, Environment
  PROVE  call' = call /\ control' = control /\ CallTypes' /\ Checked' /\ OnlyTwoTimeslices'
<1>1. call' = call /\ control' = control
  BY DEF Environment, StartProcess, Exit, FreeClient, AllocClient, FreeTsg, AllocChannel, AllocTsg, DupTsg, UserWrite
<1> QED BY <1>1 DEF TransportInv, CallTypes, Checked, OnlyTwoTimeslices

(* Freeing clients takes their objects with them.                          *)
LEMMA FreeClientsStep ==
  ASSUME TransportInv, NEW cs \in SUBSET Client, free_clients(cs),
         groups' = groups, control' = control, holders' = holders, memory' = memory,
         proc' \in [Process -> {"new", "alive", "dead"}]
  PROVE  Types' /\ Countable' /\ Numbered' /\ Held' /\ SetByHolder'
<1> USE TransportAssumption DEF TransportInv
<1>1. Types'
  BY RefParts, EmptyTypes DEF Types, free_clients, no_client
<1>2. Countable'
  BY FS_EmptySet, EmptyTypes DEF Countable, free_clients
<1>3. Numbered' /\ SetByHolder'
  <2>1. \A r \in Ref : tsgs'[r].group \in {0, tsgs[r].group}
    BY EmptyTypes DEF free_clients
  <2>2. Numbered'
    BY <2>1, SMTT(40) DEF Types, Numbered
  <2>3. SetByHolder'
    BY DEF SetByHolder
  <2> QED BY <2>2, <2>3
<1>4. Held'
  BY RefParts, EmptyTypes DEF Types, Held, free_clients
<1> QED BY <1>1, <1>2, <1>3, <1>4

(* Every step of the processes and of the resource server keeps the        *)
(* invariant; a new holder is noted when an object is created or           *)
(* duplicated, and the object of a group is gone with its client.          *)
LEMMA EnvironmentStep ==
  ASSUME TransportInv, Environment
  PROVE  TransportInv'
<1> USE TransportAssumption
<1> SUFFICES Types' /\ Countable' /\ Numbered' /\ Held' /\ SetByHolder'
  BY EnvironmentCalls DEF TransportInv
<1>0. control' = control
  BY EnvironmentCalls
<1>1. ASSUME NEW p \in Process, StartProcess(p) PROVE Types' /\ Countable' /\ Numbered' /\ Held' /\ SetByHolder'
  BY <1>0, <1>1 DEF StartProcess, rm, TransportInv, Types, TsgRecord, Countable, Numbered, Held, SetByHolder
<1>2. ASSUME NEW p \in Process, Exit(p) PROVE Types' /\ Countable' /\ Numbered' /\ Held' /\ SetByHolder'
  <2>1. PICK cs \in SUBSET {c \in Client : clients[c].owner = p} : free_clients(cs)
    BY <1>2 DEF Exit
  <2>2. cs \in SUBSET Client /\ proc' \in [Process -> {"new", "alive", "dead"}]
    BY <1>2 DEF Exit, TransportInv, Types, TsgRecord
  <2> QED BY <1>2, <2>1, <2>2, FreeClientsStep DEF Exit
<1>3. ASSUME NEW c \in Client, FreeClient(c) PROVE Types' /\ Countable' /\ Numbered' /\ Held' /\ SetByHolder'
  <2>1. {c} \in SUBSET Client /\ proc' \in [Process -> {"new", "alive", "dead"}]
    BY <1>3 DEF FreeClient, TransportInv, Types, TsgRecord
  <2> QED BY <1>3, <2>1, FreeClientsStep DEF FreeClient
<1>4. ASSUME NEW c \in Client, NEW p \in Process, AllocClient(p, c)
      PROVE  Types' /\ Countable' /\ Numbered' /\ Held' /\ SetByHolder'
  <2>1. Types' /\ Countable' /\ Numbered' /\ SetByHolder'
    BY <1>0, <1>4 DEF AllocClient, TransportInv, Types, TsgRecord, Countable, Numbered, SetByHolder
  <2>2. ASSUME NEW r \in Ref, tsgs'[r].group # 0 PROVE clients'[r[1]] = clients[r[1]]
    BY <1>4, <2>2, RefParts DEF AllocClient, TransportInv, Types, TsgRecord, Held
  <2>3. Held'
    BY <1>4, <2>2 DEF AllocClient, TransportInv, Held
  <2> QED BY <2>1, <2>3
<1>5. ASSUME NEW r \in Ref, FreeTsg(r) PROVE Types' /\ Countable' /\ Numbered' /\ Held' /\ SetByHolder'
  <2>1. Types' /\ Countable'
    BY <1>0, <1>5, FS_EmptySet, EmptyTypes DEF FreeTsg, TransportInv, Types, Countable
  <2>2. \A s \in Ref : tsgs'[s].group \in {0, tsgs[s].group}
    BY <1>5, EmptyTypes DEF FreeTsg, TransportInv, Types
  <2>3. Numbered' /\ SetByHolder'
    BY <1>0, <1>5, <2>2 DEF FreeTsg, TransportInv, Types, TsgRecord, Numbered, SetByHolder
  <2>4. Held'
    BY <1>5, <2>2 DEF FreeTsg, TransportInv, Held
  <2> QED BY <2>1, <2>3, <2>4
<1>6. ASSUME NEW r \in Ref, AllocChannel(r) PROVE Types' /\ Countable' /\ Numbered' /\ Held' /\ SetByHolder'
  <2> DEFINE next == Cardinality(tsgs[r].channels) + 1
  <2>0. IsFiniteSet(tsgs[r].channels)
    BY DEF TransportInv, Countable
  <2>1. /\ tsgs[r].channels \cup {next} \in Channels
        /\ IsFiniteSet(tsgs[r].channels \cup {next})
    <3>1. Cardinality(tsgs[r].channels) \in Nat
      BY <2>0, FS_CardinalityType
    <3>2. next \in Nat
      BY <3>1
    <3>3. IsFiniteSet(tsgs[r].channels \cup {next})
      BY <2>0, FS_AddElement
    <3>4. tsgs[r].channels \cup {next} \in Channels
      BY <3>2 DEF TransportInv, Types, TsgRecord, Channels
    <3> QED BY <3>3, <3>4
  <2>2. tsgs' = [tsgs EXCEPT ![r].channels = tsgs[r].channels \cup {next}]
    BY <1>6 DEF AllocChannel
  <2>3. Types' /\ Countable'
    <3> DEFINE more == tsgs[r].channels \cup {next}
    <3>0. UNCHANGED <<proc, clients, groups, memory, holders>>
      BY <1>6 DEF AllocChannel
    <3> HIDE DEF more
    <3>1. tsgs' = [tsgs EXCEPT ![r].channels = more] /\ more \in Channels
      BY <2>1, <2>2 DEF more
    <3>2. Types'
      BY <1>0, <3>0, <3>1, ZenonT(40) DEF TransportInv, Types, TsgRecord
    <3>3. \A s \in Ref : tsgs'[s].channels = IF s = r THEN more ELSE tsgs[s].channels
      BY <3>1 DEF TransportInv, Types, TsgRecord
    <3>4. Countable'
      BY <2>1, <3>3 DEF TransportInv, Countable, more
    <3> QED BY <3>2, <3>4
  <2>4. \A s \in Ref : tsgs'[s].group = tsgs[s].group
    BY <2>2 DEF TransportInv, Types, TsgRecord
  <2> QED BY <1>0, <1>6, <2>3, <2>4 DEF AllocChannel, TransportInv, Types, TsgRecord, Numbered, Held, SetByHolder
<1>7. ASSUME NEW r \in Ref, NEW tid \in Tid, AllocTsg(r, tid)
      PROVE  Types' /\ Countable' /\ Numbered' /\ Held' /\ SetByHolder'
  <2>1. /\ groups + 1 \in 1 .. MaxGroups
        /\ clients[r[1]].owner \in Process
        /\ tid \in Nat
    BY <1>7, RefParts DEF AllocTsg, free_ref, TransportInv, Types, TsgRecord
  <2>2. PICK gr \in BOOLEAN :
          tsgs' = [tsgs EXCEPT ![r] = [group |-> groups + 1, creator |-> tid, gr |-> gr, channels |-> {}]]
    BY <1>7 DEF AllocTsg
  <2>3. Types' /\ Countable'
    BY <1>0, <1>7, <2>1, <2>2, FS_EmptySet, EmptyTypes DEF AllocTsg, TransportInv, Types, TsgRecord, Countable
  <2>4. Numbered'
    BY <1>0, <1>7, <2>1, <2>2 DEF AllocTsg, TransportInv, Types, TsgRecord, Numbered
  <2>5. ASSUME NEW s \in Ref, tsgs'[s].group # 0
        PROVE  clients[s[1]].owner # NoProcess /\ clients[s[1]].owner \in holders'[tsgs'[s].group]
    <3>1. CASE s = r
      BY <1>7, <2>1, <2>2, <3>1 DEF AllocTsg, TransportInv, Types, TsgRecord
    <3>2. CASE s # r
      BY <1>7, <2>1, <2>2, <2>5, <3>2 DEF AllocTsg, TransportInv, Types, TsgRecord, Numbered, Held
    <3> QED BY <3>1, <3>2
  <2>6. Held'
    BY <1>7, <2>5 DEF AllocTsg, Held
  <2>7. SetByHolder'
    BY <1>0, <1>7, <2>1 DEF AllocTsg, TransportInv, Types, TsgRecord, Numbered, SetByHolder
  <2> QED BY <2>3, <2>4, <2>6, <2>7
<1>8. ASSUME NEW r \in Ref, NEW from \in Ref, NEW tid \in Tid, DupTsg(r, from, tid)
      PROVE  Types' /\ Countable' /\ Numbered' /\ Held' /\ SetByHolder'
  <2>1. /\ tsgs[from].group \in 1 .. MaxGroups
        /\ clients[r[1]].owner \in Process
        /\ tid \in Nat
    BY <1>8, RefParts DEF DupTsg, free_ref, TransportInv, Types, TsgRecord
  <2>2. /\ tsgs'[r] \in TsgRecord
        /\ tsgs'[r].group = tsgs[from].group /\ tsgs'[r].channels = {}
        /\ \A s \in Ref \ {r} : tsgs'[s] = tsgs[s]
        /\ tsgs' = [tsgs EXCEPT ![r] = tsgs'[r]]
    <3> DEFINE new == [tsgs[from] EXCEPT !.creator = tid, !.channels = {}]
    <3>1. /\ new \in TsgRecord
          /\ new.group = tsgs[from].group /\ new.channels = {}
      BY <2>1, EmptyTypes DEF TransportInv, Types, TsgRecord
    <3>2. tsgs' = [tsgs EXCEPT ![r] = new]
      BY <1>8 DEF DupTsg
    <3> HIDE DEF new
    <3> QED BY <3>1, <3>2 DEF TransportInv, Types, TsgRecord
  <2>3. Types' /\ Countable'
    BY <1>0, <1>8, <2>1, <2>2, FS_EmptySet DEF DupTsg, TransportInv, Types, TsgRecord, Countable
  <2>4. Numbered'
    BY <1>0, <1>8, <2>2 DEF DupTsg, TransportInv, Types, TsgRecord, Numbered
  <2>5. \A g \in 1 .. MaxGroups : holders[g] \subseteq holders'[g]
    BY <1>8, <2>1 DEF DupTsg, TransportInv, Types, TsgRecord
  <2>6. clients[r[1]].owner \in holders'[tsgs[from].group]
    BY <1>8, <2>1 DEF DupTsg, TransportInv, Types, TsgRecord
  <2>7. Held'
    BY <1>8, <2>1, <2>2, <2>5, <2>6 DEF DupTsg, TransportInv, Types, TsgRecord, Held
  <2>8. SetByHolder'
    BY <1>0, <2>5 DEF TransportInv, SetByHolder
  <2> QED BY <2>3, <2>4, <2>7, <2>8
<1>9. ASSUME NEW k \in Thread, UserWrite(k) PROVE Types' /\ Countable' /\ Numbered' /\ Held' /\ SetByHolder'
  BY <1>0, <1>9 DEF UserWrite, rm, TransportInv, Types, TsgRecord, Countable, Numbered, Held, SetByHolder
<1> QED BY <1>1, <1>2, <1>3, <1>4, <1>5, <1>6, <1>7, <1>8, <1>9 DEF Environment

-----------------------------------------------------------------------------
(* The calls.                                                              *)

(* A call that leaves the groups alone keeps everything but the types of   *)
(* the calls and what they have checked.                                   *)
LEMMA CallKeeps ==
  ASSUME TransportInv, UNCHANGED <<proc, rm, gsp, memory, control>>, CallTypes', Checked'
  PROVE  TransportInv'
BY DEF TransportInv, rm, Types, TsgRecord, Countable, Numbered, Held, SetByHolder, OnlyTwoTimeslices

(* A call that ends checks nothing.                                        *)
LEMMA EndsStep ==
  ASSUME TransportInv, NEW k \in Thread, NEW status \in Statuses, ends(k, status)
  PROVE  CallTypes' /\ Checked'
<1>1. \E r \in CallRecord : r.pc = "done" /\ call' = [call EXCEPT ![k] = r]
  BY IdleTypes DEF ends, TransportInv, CallTypes, CallRecord
<1> QED BY <1>1 DEF TransportInv, CallTypes, Checked

(* A step of a call keeps the invariant: a timeslice that is set was       *)
(* checked when it was copied, by a process whose client holds the group.  *)
LEMMA CallStep ==
  ASSUME TransportInv, NEW k \in Thread, Call(k)
  PROVE  TransportInv'
<1> USE TransportAssumption
<1>0. call[k] \in CallRecord
  BY DEF TransportInv, CallTypes
<1>1. ASSUME NEW p \in Process, NEW flags \in 0 .. 2, NEW hClient \in Tid \cup Client \cup {0},
             NEW hObject \in Object \cup {0}, StartCall(k, p, flags, hClient, hObject)
      PROVE  TransportInv'
  <2>1. \E r \in CallRecord : (r.pc = "scan" => r.op = "QUERY") /\ call' = [call EXCEPT ![k] = r]
    <3>1. PICK params \in BOOLEAN, sized \in BOOLEAN :
            LET op == operation(flags, hClient, hObject, params, sized)
                pApi == [idle EXCEPT !.p = p, !.flags = flags,
                           !.hClient = cleared(flags, hClient), !.hObject = cleared(flags, hObject)]
            IN  call' = [call EXCEPT ![k] =
                  IF op = "INVALID" THEN [pApi EXCEPT !.pc = "done", !.status = "INVALID_ARGUMENT"]
                  ELSE [pApi EXCEPT !.pc = IF op = "QUERY" THEN "scan" ELSE "copy_in", !.op = op,
                          !.requestedClient = hClient, !.requestedObject = hObject]]
      BY <1>1 DEF StartCall
    <3> DEFINE op == operation(flags, hClient, hObject, params, sized)
               pApi == [idle EXCEPT !.p = p, !.flags = flags,
                          !.hClient = cleared(flags, hClient), !.hObject = cleared(flags, hObject)]
               failed == [pApi EXCEPT !.pc = "done", !.status = "INVALID_ARGUMENT"]
               started == [pApi EXCEPT !.pc = IF op = "QUERY" THEN "scan" ELSE "copy_in", !.op = op,
                             !.requestedClient = hClient, !.requestedObject = hObject]
    <3>2. call' = [call EXCEPT ![k] = IF op = "INVALID" THEN failed ELSE started]
      BY <3>1
    <3>3. op \in {"INVALID", "QUERY", "SET_TIMESLICE"}
      BY DEF operation
    <3>4. pApi \in CallRecord
      <4>1. cleared(flags, hClient) \in Nat /\ cleared(flags, hObject) \in Nat
        BY DEF cleared
      <4> QED BY <4>1, IdleTypes DEF CallRecord
    <3> HIDE DEF op, pApi
    <3>5. failed \in CallRecord /\ failed.pc = "done"
      BY <3>4 DEF CallRecord, Statuses
    <3>6. started \in CallRecord /\ (started.pc = "scan" => started.op = "QUERY")
      <4>1. (IF op = "QUERY" THEN "scan" ELSE "copy_in") \in {"scan", "copy_in"}
        OBVIOUS
      <4>2. hClient \in Nat /\ hObject \in Nat
        OBVIOUS
      <4> QED BY <3>3, <3>4, <4>1, <4>2 DEF CallRecord
    <3> HIDE DEF failed, started
    <3> QED BY <3>2, <3>5, <3>6
  <2>2. CallTypes' /\ Checked'
    BY <2>1 DEF TransportInv, CallTypes, Checked
  <2> QED BY <1>1, <2>2, CallKeeps DEF StartCall
<1>2. CASE CopyIn(k)
  <2>1. CASE /\ memory[k] \in Allowed
             /\ call' = [call EXCEPT ![k] = [call[k] EXCEPT !.pc = "scan", !.timeslice = memory[k]]]
    <3> DEFINE new == [call[k] EXCEPT !.pc = "scan", !.timeslice = memory[k]]
    <3>1. call' = [call EXCEPT ![k] = new]
      BY <2>1
    <3>2. new \in CallRecord /\ new.timeslice \in Allowed
      BY <1>0, <2>1 DEF CallRecord
    <3> HIDE DEF new
    <3>3. CallTypes' /\ Checked'
      BY <3>1, <3>2 DEF TransportInv, CallTypes, Checked
    <3> QED BY <1>2, <3>3, CallKeeps DEF CopyIn
  <2>2. CASE ends(k, "INVALID_ARGUMENT") \/ ends(k, "FAULT")
    <3>1. CallTypes' /\ Checked'
      BY <2>2, EndsStep DEF Statuses
    <3> QED BY <1>2, <3>1, CallKeeps DEF CopyIn
  <2> QED BY <1>2, <2>1, <2>2 DEF CopyIn
<1>3. CASE LockFails(k)
  <2>1. CallTypes' /\ Checked'
    BY <1>3, EndsStep DEF LockFails, Statuses
  <2> QED BY <1>3, <2>1, CallKeeps DEF LockFails
<1>4. CASE ScanSet(k)
  <2> DEFINE r == <<call[k].requestedClient, call[k].requestedObject>>
  <2>1. CallTypes' /\ Checked'
    BY <1>4, EndsStep DEF ScanSet, Statuses
  <2>2. CASE UNCHANGED control
    BY <1>4, <2>1, <2>2, CallKeeps DEF ScanSet
  <2>3. CASE /\ r \in owned_groups(call[k].p)
             /\ control' = [control EXCEPT ![tsgs[r].group] =
                              [value |-> control_params(k), by |-> call[k].p]]
    <3>1. /\ r \in Ref /\ tsgs[r].group \in 1 .. MaxGroups /\ tsgs[r].group <= groups
          /\ call[k].p = clients[r[1]].owner /\ call[k].p \in Process
          /\ call[k].p \in holders[tsgs[r].group]
      BY <2>3, RefParts DEF owned_groups, owned_user, TransportInv, Types, TsgRecord, Numbered, Held
    <3>2. control_params(k) \in Allowed
      BY <1>4 DEF ScanSet, control_params, TransportInv, Checked
    <3> DEFINE g == tsgs[r].group
               c == [value |-> control_params(k), by |-> call[k].p]
    <3>3. /\ control' = [control EXCEPT ![g] = c] /\ g \in 1 .. MaxGroups /\ g <= groups
          /\ c \in [value : Allowed, by : Process] /\ c.by \in holders[g]
      BY <2>3, <3>1, <3>2
    <3> HIDE DEF g, c
    <3>4. UNCHANGED <<proc, clients, tsgs, groups, holders, memory>>
      BY <1>4 DEF ScanSet, rm
    <3>5. Types' /\ Countable' /\ Held'
      BY <3>3, <3>4 DEF TransportInv, Types, TsgRecord, Countable, Held
    <3>6. Numbered' /\ SetByHolder' /\ OnlyTwoTimeslices'
      BY <3>3, <3>4 DEF TransportInv, Types, TsgRecord, Numbered, SetByHolder, OnlyTwoTimeslices
    <3> QED BY <2>1, <3>5, <3>6 DEF TransportInv
  <2> QED BY <1>4, <2>2, <2>3 DEF ScanSet
<1>5. CASE ScanQuery(k)
  <2>1. call[k].op = "QUERY"
    BY <1>5 DEF ScanQuery
  <2>2. CASE ends(k, "NOT_FOUND")
    <3>1. CallTypes' /\ Checked'
      BY <2>2, EndsStep DEF Statuses
    <3> QED BY <1>5, <3>1, CallKeeps DEF ScanQuery
  <2>3. ASSUME NEW first \in Ref, NEW matches \in SUBSET Ref
        PROVE  answer(k, first, matches) \in CallRecord /\ answer(k, first, matches).pc # "scan"
    <3> DEFINE status == query_status(first, matches)
               chs == {<<first, n>> : n \in {m \in tsgs[first].channels : status = "OK"}}
               all == {<<r, tsgs[r].channels>> : r \in matches}
    <3>1. status \in Statuses
      BY DEF query_status, Statuses
    <3>2. chs \in Lists
      BY RefParts DEF TransportInv, Types, TsgRecord, Channels, Lists
    <3>3. all \in Matches
      BY RefParts DEF TransportInv, Types, TsgRecord, Matches
    <3>4. first \in Refs
      BY RefParts
    <3>5. answer(k, first, matches) =
            [call[k] EXCEPT !.status = status, !.pc = IF status = "OK" THEN "copy_out" ELSE "done",
                            !.selected = first, !.channels = chs, !.seen = all]
      BY DEF answer
    <3> HIDE DEF status, chs, all
    <3> QED BY <1>0, <3>1, <3>2, <3>3, <3>4, <3>5, ZenonT(40) DEF CallRecord
  <2> DEFINE found == {r \in owned_groups(call[k].p) : tsgs[r].creator = call[k].requestedClient}
  <2>4. found \in SUBSET Ref
    BY DEF owned_groups
  <2>5. CASE ~ends(k, "NOT_FOUND")
    <3>1. PICK first \in found : call' = [call EXCEPT ![k] = answer(k, first, found)]
      BY <1>5, <2>5 DEF ScanQuery
    <3>2. answer(k, first, found) \in CallRecord /\ answer(k, first, found).pc # "scan"
      BY <2>3, <2>4
    <3> HIDE DEF found
    <3>3. CallTypes' /\ Checked'
      BY <3>1, <3>2 DEF TransportInv, CallTypes, Checked
    <3> QED BY <1>5, <3>3, CallKeeps DEF ScanQuery
  <2> QED BY <2>2, <2>5
<1>6. CASE CopyOut(k)
  <2>1. CASE call' = [call EXCEPT ![k] =
                        [call[k] EXCEPT !.pc = "done", !.list = call[k].channels,
                           !.hClient = call[k].selected[1], !.hObject = call[k].selected[2]]]
    <3>1. /\ call[k].selected[1] \in Nat /\ call[k].selected[2] \in Nat
          /\ call[k].channels \in Lists
      BY DEF TransportInv, CallTypes, CallRecord, Refs
    <3> DEFINE new == [call[k] EXCEPT !.pc = "done", !.list = call[k].channels,
                                      !.hClient = call[k].selected[1], !.hObject = call[k].selected[2]]
    <3>2. call' = [call EXCEPT ![k] = new]
      BY <2>1
    <3>3. new \in CallRecord /\ new.pc = "done"
      BY <1>0, <3>1 DEF CallRecord
    <3> HIDE DEF new
    <3>4. CallTypes' /\ Checked'
      BY <3>2, <3>3 DEF TransportInv, CallTypes, Checked
    <3> QED BY <1>6, <3>4, CallKeeps DEF CopyOut
  <2>2. ASSUME NEW written \in 0 .. MaxChannels,
               call' = [call EXCEPT ![k] =
                          [call[k] EXCEPT !.pc = "done", !.status = "FAULT",
                             !.list = {x \in call[k].channels : x[2] <= written}]]
        PROVE  TransportInv'
    <3> DEFINE part == {x \in call[k].channels : x[2] <= written}
               new == [call[k] EXCEPT !.pc = "done", !.status = "FAULT", !.list = part]
    <3>1. part \in Lists
      BY DEF TransportInv, CallTypes, CallRecord, Lists
    <3>2. call' = [call EXCEPT ![k] = new]
      BY <2>2
    <3> HIDE DEF part
    <3>3. new \in CallRecord /\ new.pc = "done"
      BY <1>0, <3>1 DEF CallRecord, Statuses
    <3> HIDE DEF new
    <3>4. CallTypes' /\ Checked'
      BY <3>2, <3>3 DEF TransportInv, CallTypes, Checked
    <3> QED BY <1>6, <3>4, CallKeeps DEF CopyOut
  <2> QED BY <1>6, <2>1, <2>2 DEF CopyOut
<1>7. CASE Return(k)
  <2>1. idle \in CallRecord /\ idle.pc = "idle"
    BY IdleTypes
  <2>2. CallTypes' /\ Checked'
    BY <1>7, <2>1 DEF Return, TransportInv, CallTypes, Checked
  <2> QED BY <1>7, <2>2, CallKeeps DEF Return
<1> QED BY <1>1, <1>2, <1>3, <1>4, <1>5, <1>6, <1>7 DEF Call

-----------------------------------------------------------------------------
(* In every behaviour the invariant holds.                                 *)
LEMMA TransportInvariant == Spec => []TransportInv
<1>1. TransportInv /\ UNCHANGED vars => TransportInv'
  BY DEF vars, rm, TransportInv, Types, TsgRecord, CallTypes, Countable, Numbered, Held, Checked, SetByHolder, OnlyTwoTimeslices
<1>2. TransportInv /\ [Next]_vars => TransportInv'
  BY <1>1, EnvironmentStep, CallStep DEF Next
<1> QED BY <1>2, TransportInit, PTL DEF Spec

(* "Authorize by the actual retained Linux TGID object": for any processes *)
(* that share numbers, clients that outlive their owners and handles that  *)
(* are used again, a timeslice is set only by a process that created or    *)
(* duplicated the channel group.                                           *)
THEOREM HolderSets == Spec => []SetByHolder
<1>1. TransportInv => SetByHolder
  BY DEF TransportInv
<1> QED BY <1>1, TransportInvariant, PTL

(* Whatever other threads write to the parameters while the call runs, a   *)
(* timeslice that is set is one of those the endpoint accepts.             *)
THEOREM AllowedSet == Spec => []OnlyTwoTimeslices
<1>1. TransportInv => OnlyTwoTimeslices
  BY DEF TransportInv
<1> QED BY <1>1, TransportInvariant, PTL

-----------------------------------------------------------------------------
(* What a query answers.                                                   *)

(* The channels of an object are numbered up to one more than an answer    *)
(* holds, and its creator is a thread.                                     *)
Bounded ==
  \A r \in Ref : tsgs[r].channels \subseteq 1 .. MaxChannels + 1 /\ tsgs[r].creator \in Tid \cup {0}

(* A process lives as long as it is in a call.                             *)
Alive ==
  \A k \in Thread : call[k].pc \in {"copy_in", "scan", "copy_out"} =>
    call[k].p \in Process /\ proc[call[k].p] = "alive"

(* The list gives all channels of the one group that the scan matched.     *)
Answered(c, ref, list) ==
  \E channels \in (SUBSET (1 .. MaxChannels + 1)) \ {{}} :
    c.seen = {<<ref, channels>>} /\ list = {<<ref, n>> : n \in channels}

(* The list gives channels of the one group that the scan matched, and     *)
(* none unless a copy failed.                                              *)
Part(c, list) ==
  \A x \in list :
    /\ c.status = "FAULT"
    /\ \E channels \in SUBSET (1 .. MaxChannels + 1) :
         c.seen = {<<x[1], channels>>} /\ x[2] \in channels

(* An empty list does.                                                     *)
LEMMA EmptyPart == ASSUME NEW c PROVE Part(c, {})
  BY DEF Part

(* A call on its way has written nothing yet; the answer a query is about  *)
(* to copy is whole, and so is the one it leaves behind, unless the copy   *)
(* fails: then it is a part of it.                                         *)
Answers(c) ==
  /\ c.op = "SET_TIMESLICE" => c.flags # 0
  /\ c.op = "QUERY" => c.flags = 0
  /\ c.pc \in {"copy_in", "scan", "copy_out"} /\ c.flags = 0 =>
       c.hClient = 0 /\ c.hObject = 0 /\ c.list = {}
  /\ c.pc = "copy_out" => c.status = "OK" /\ Answered(c, c.selected, c.channels)
  /\ c.pc = "done" /\ c.flags = 0 =>
       IF c.status = "OK" THEN Answered(c, <<c.hClient, c.hObject>>, c.list)
       ELSE c.hClient = 0 /\ c.hObject = 0 /\ Part(c, c.list)
  /\ Cardinality(c.channels) <= MaxChannels

QueryInv ==
  /\ gsp \in BOOLEAN
  /\ Bounded /\ Alive
  /\ \A k \in Thread : Answers(call[k])

(* A call that does nothing answers nothing.                               *)
LEMMA IdleAnswers == Answers(idle)
  BY TransportAssumption, FS_EmptySet DEF Answers, idle

(* Every initial state satisfies the invariant.                            *)
LEMMA QueryInit == Init => QueryInv
<1> SUFFICES ASSUME Init
             PROVE  QueryInv
  OBVIOUS
<1>1. Bounded
  BY DEF Init, Bounded, no_tsg
<1>2. Alive
  BY IdleTypes DEF Init, Alive
<1> QED BY <1>1, <1>2, IdleAnswers DEF Init, QueryInv

(* The processes and the resource server leave the calls alone, number the *)
(* channels in turn, and a process in a call does not exit.                *)
LEMMA EnvironmentAnswers ==
  ASSUME TransportInv, QueryInv, Environment
  PROVE  QueryInv'
<1> USE TransportAssumption DEF QueryInv, TransportInv, Types, TsgRecord
<1>1. call' = call /\ gsp' = gsp
  BY DEF Environment, StartProcess, Exit, FreeClient, AllocClient, FreeTsg, AllocChannel, AllocTsg, DupTsg, UserWrite, rm
<1>2. Alive'
  <2>1. ASSUME NEW p \in Process, StartProcess(p)
        PROVE  Alive'
    BY <1>1, <2>1 DEF StartProcess, Alive
  <2>2. ASSUME NEW p \in Process, Exit(p)
        PROVE  Alive'
    BY <1>1, <2>2 DEF Exit, Alive
  <2>3. CASE proc' = proc
    BY <1>1, <2>3 DEF Alive
  <2> QED BY <2>1, <2>2, <2>3 DEF Environment, FreeClient, AllocClient, FreeTsg, AllocChannel, AllocTsg, DupTsg, UserWrite
<1>3. Bounded'
  <2>1. ASSUME NEW r \in Ref, AllocChannel(r)
        PROVE  Bounded'
    <3> DEFINE next == Cardinality(tsgs[r].channels) + 1
               more == tsgs[r].channels \cup {next}
    <3>1. Cardinality(tsgs[r].channels) \in Nat
      BY FS_CardinalityType DEF Countable
    <3>2. next \in 1 .. MaxChannels + 1
      BY <2>1, <3>1 DEF AllocChannel
    <3>3. more \subseteq 1 .. MaxChannels + 1
      BY <3>2 DEF Bounded
    <3>4. tsgs' = [tsgs EXCEPT ![r].channels = more]
      BY <2>1 DEF AllocChannel
    <3> HIDE DEF more
    <3>5. \A s \in Ref : /\ tsgs'[s].channels = IF s = r THEN more ELSE tsgs[s].channels
                         /\ tsgs'[s].creator = tsgs[s].creator
      BY <3>4
    <3> QED BY <3>3, <3>5 DEF Bounded
  <2>2. ASSUME NEW r \in Ref, NEW tid \in Tid, AllocTsg(r, tid)
        PROVE  Bounded'
    BY <2>2 DEF AllocTsg, Bounded
  <2>3. ASSUME NEW r \in Ref, NEW from \in Ref, NEW tid \in Tid, DupTsg(r, from, tid)
        PROVE  Bounded'
    <3> DEFINE new == [tsgs[from] EXCEPT !.creator = tid, !.channels = {}]
    <3>1. new.creator = tid /\ new.channels = {}
      OBVIOUS
    <3>2. tsgs' = [tsgs EXCEPT ![r] = new]
      BY <2>3 DEF DupTsg
    <3> HIDE DEF new
    <3> QED BY <3>1, <3>2 DEF Bounded
  <2>4. CASE \A r \in Ref : tsgs'[r] \in {tsgs[r], no_tsg}
    BY <2>4 DEF Bounded, no_tsg
  <2>5. ASSUME NEW cs, free_clients(cs)
        PROVE  \A r \in Ref : tsgs'[r] \in {tsgs[r], no_tsg}
    BY <2>5 DEF free_clients
  <2>6. ASSUME NEW p \in Process, Exit(p)
        PROVE  \A r \in Ref : tsgs'[r] \in {tsgs[r], no_tsg}
    BY <2>5, <2>6 DEF Exit
  <2>7. ASSUME NEW c \in Client, FreeClient(c)
        PROVE  \A r \in Ref : tsgs'[r] \in {tsgs[r], no_tsg}
    BY <2>5, <2>7 DEF FreeClient
  <2>8. ASSUME NEW r \in Ref, FreeTsg(r)
        PROVE  \A s \in Ref : tsgs'[s] \in {tsgs[s], no_tsg}
    BY <2>8 DEF FreeTsg
  <2>9. CASE tsgs' = tsgs
    BY <2>9 DEF Bounded
  <2> QED BY <2>1, <2>2, <2>3, <2>4, <2>6, <2>7, <2>8, <2>9 DEF Environment, StartProcess, AllocClient, UserWrite, rm
<1> QED BY <1>1, <1>2, <1>3

(* A call that moves on, with its process, keeps the invariant if what it  *)
(* leaves is an answer.                                                    *)
LEMMA AnswerKeeps ==
  ASSUME TransportInv, QueryInv, UNCHANGED <<proc, rm, gsp, memory>>, NEW k \in Thread, NEW c,
         call' = [call EXCEPT ![k] = c], Answers(c),
         c.pc \in {"copy_in", "scan", "copy_out"} => c.p \in Process /\ proc[c.p] = "alive"
  PROVE  QueryInv'
<1>1. Bounded' /\ gsp' \in BOOLEAN
  BY DEF QueryInv, Bounded, rm
<1>2. Alive'
  BY DEF QueryInv, Alive, TransportInv, CallTypes
<1>3. \A j \in Thread : Answers(call'[j])
  BY DEF QueryInv, TransportInv, CallTypes
<1> QED BY <1>1, <1>2, <1>3 DEF QueryInv

(* A call that fails before it copies an answer leaves neither handles nor *)
(* channels.                                                               *)
LEMMA EndsAnswers ==
  ASSUME TransportInv, QueryInv, UNCHANGED <<proc, rm, gsp, memory>>, NEW k \in Thread,
         call[k].pc \in {"copy_in", "scan", "copy_out"}, NEW status, ends(k, status),
         status = "OK" => call[k].flags # 0
  PROVE  QueryInv'
<1> DEFINE c == [idle EXCEPT !.pc = "done", !.p = call[k].p, !.flags = call[k].flags,
                             !.status = status, !.hClient = call[k].hClient, !.hObject = call[k].hObject]
<1>1. call' = [call EXCEPT ![k] = c]
  BY DEF ends
<1>2. /\ c.pc = "done" /\ c.op = "INVALID" /\ c.flags = call[k].flags /\ c.status = status
      /\ c.hClient = call[k].hClient /\ c.hObject = call[k].hObject
      /\ c.list = {} /\ c.channels = {}
  BY DEF idle
<1>3. Answers(call[k])
  BY DEF QueryInv
<1> HIDE DEF c
<1>4. Answers(c)
  BY <1>2, <1>3, TransportAssumption, FS_EmptySet, EmptyPart DEF Answers
<1> QED BY <1>1, <1>2, <1>4, AnswerKeeps

(* As many pairs with the first component r as second components.          *)
LEMMA PairCount ==
  ASSUME NEW r, NEW S, IsFiniteSet(S)
  PROVE  Cardinality({<<r, n>> : n \in S}) <= Cardinality(S)
<1> DEFINE T == {<<r, n>> : n \in S}
           f == [x \in T |-> x[2]]
<1>1. f \in Injection(T, S)
  <2>1. f \in [T -> S]
    OBVIOUS
  <2>2. \A x, y \in T : f[x] = f[y] => x = y
    OBVIOUS
  <2> QED BY <2>1, <2>2 DEF Injection, IsInjective
<1> HIDE DEF f
<1> QED BY <1>1, FS_Injection

(* The scan of a query: one match, whose channels fit, is answered whole,  *)
(* anything else leaves the handles cleared.                               *)
LEMMA ScanAnswers ==
  ASSUME TransportInv, QueryInv, NEW k \in Thread, NEW first \in Ref, NEW matches \in SUBSET Ref,
         call[k].pc = "scan", call[k].op = "QUERY", call[k].flags = 0
  PROVE  Answers(answer(k, first, matches))
<1> USE TransportAssumption
<1> DEFINE status == query_status(first, matches)
           chs == tsgs[first].channels
           list == {<<first, n>> : n \in {m \in chs : status = "OK"}}
           all == {<<r, tsgs[r].channels>> : r \in matches}
           c == answer(k, first, matches)
<1> SUFFICES Answers(c)
  OBVIOUS
<1>1. /\ call[k] \in CallRecord
      /\ call[k].hClient = 0 /\ call[k].hObject = 0 /\ call[k].list = {}
  BY DEF TransportInv, CallTypes, QueryInv, Answers
<1>2. /\ c.status = status /\ c.pc = IF status = "OK" THEN "copy_out" ELSE "done"
      /\ c.selected = first /\ c.channels = list /\ c.seen = all
      /\ c.op = "QUERY" /\ c.flags = 0 /\ c.hClient = 0 /\ c.hObject = 0 /\ c.list = {}
  BY <1>1 DEF answer, CallRecord
<1>3. IsFiniteSet(chs) /\ chs \in SUBSET (1 .. MaxChannels + 1)
  BY DEF TransportInv, Countable, QueryInv, Bounded
<1>4. status = "OK" => chs # {} /\ matches = {first} /\ ~(Cardinality(chs) > MaxChannels)
  BY DEF query_status
<1>5. CASE status = "OK"
  <2>1. list = {<<first, n>> : n \in chs}
    BY <1>5
  <2>2. Cardinality(list) <= Cardinality(chs) /\ Cardinality(chs) \in Nat
    BY <1>3, <2>1, PairCount, FS_CardinalityType
  <2>3. IsFiniteSet(list)
    <3> DEFINE f == [n \in chs |-> <<first, n>>]
    <3>1. f \in Surjection(chs, list)
      BY <2>1 DEF Surjection
    <3> HIDE DEF f
    <3> QED BY <1>3, <3>1, FS_Surjection
  <2>4. Cardinality(list) \in Nat /\ Cardinality(list) <= MaxChannels
    BY <1>4, <1>5, <2>2, <2>3, FS_CardinalityType
  <2>5. all = {<<first, chs>>}
    BY <1>4, <1>5
  <2> HIDE DEF status, chs, list, all, c
  <2>6. Answered(c, c.selected, c.channels)
    <3>1. chs \in (SUBSET (1 .. MaxChannels + 1)) \ {{}}
      BY <1>3, <1>4, <1>5
    <3>2. c.seen = {<<c.selected, chs>>} /\ c.channels = {<<c.selected, n>> : n \in chs}
      BY <1>2, <2>1, <2>5
    <3> QED BY <3>1, <3>2, Zenon DEF Answered
  <2> QED BY <1>2, <1>5, <2>4, <2>6 DEF Answers
<1>6. CASE status # "OK"
  <2>1. list = {} /\ Cardinality(list) = 0
    BY <1>6, FS_EmptySet
  <2> HIDE DEF status, chs, list, all, c
  <2> QED BY <1>2, <1>6, <2>1, EmptyPart DEF Answers
<1> QED BY <1>5, <1>6

(* Every step of a call keeps the invariant.                               *)
LEMMA CallAnswers ==
  ASSUME TransportInv, QueryInv, NEW k \in Thread, Call(k)
  PROVE  QueryInv'
<1> USE TransportAssumption
<1>0. call[k] \in CallRecord /\ Answers(call[k]) /\ gsp \in BOOLEAN
  BY DEF TransportInv, CallTypes, QueryInv
<1>a. call[k].pc \in {"copy_in", "scan", "copy_out"} => call[k].p \in Process /\ proc[call[k].p] = "alive"
  BY DEF QueryInv, Alive
<1>1. ASSUME NEW p \in Process, NEW flags \in 0 .. 2, NEW hClient \in Tid \cup Client \cup {0},
             NEW hObject \in Object \cup {0}, StartCall(k, p, flags, hClient, hObject)
      PROVE  QueryInv'
  <2>1. PICK params \in BOOLEAN, sized \in BOOLEAN :
          LET op == operation(flags, hClient, hObject, params, sized)
              pApi == [idle EXCEPT !.p = p, !.flags = flags,
                         !.hClient = cleared(flags, hClient), !.hObject = cleared(flags, hObject)]
          IN  call' = [call EXCEPT ![k] =
                IF op = "INVALID" THEN [pApi EXCEPT !.pc = "done", !.status = "INVALID_ARGUMENT"]
                ELSE [pApi EXCEPT !.pc = IF op = "QUERY" THEN "scan" ELSE "copy_in", !.op = op,
                        !.requestedClient = hClient, !.requestedObject = hObject]]
    BY <1>1 DEF StartCall
  <2> DEFINE op == operation(flags, hClient, hObject, params, sized)
             pApi == [idle EXCEPT !.p = p, !.flags = flags,
                        !.hClient = cleared(flags, hClient), !.hObject = cleared(flags, hObject)]
             failed == [pApi EXCEPT !.pc = "done", !.status = "INVALID_ARGUMENT"]
             started == [pApi EXCEPT !.pc = IF op = "QUERY" THEN "scan" ELSE "copy_in", !.op = op,
                           !.requestedClient = hClient, !.requestedObject = hObject]
  <2>2. call' = [call EXCEPT ![k] = IF op = "INVALID" THEN failed ELSE started]
    BY <2>1
  <2>3. (op = "SET_TIMESLICE" => flags # 0) /\ (op = "QUERY" => flags = 0)
    BY DEF operation, SET_TIMESLICE_V1
  <2>4. /\ flags = 0 => cleared(flags, hClient) = 0 /\ cleared(flags, hObject) = 0
    BY DEF cleared
  <2>5. /\ pApi.p = p /\ pApi.flags = flags /\ pApi.op = "INVALID" /\ pApi.list = {}
        /\ pApi.channels = {} /\ pApi.hClient = cleared(flags, hClient)
        /\ pApi.hObject = cleared(flags, hObject) /\ pApi \in CallRecord
    <3>1. cleared(flags, hClient) \in Nat /\ cleared(flags, hObject) \in Nat
      BY DEF cleared
    <3>2. idle.op = "INVALID" /\ idle.list = {} /\ idle.channels = {}
      BY DEF idle
    <3> QED BY <3>1, <3>2, IdleTypes DEF CallRecord
  <2> HIDE DEF pApi, op
  <2>6. Answers(failed) /\ failed.pc = "done"
    <3>1. /\ failed.pc = "done" /\ failed.status = "INVALID_ARGUMENT" /\ failed.op = "INVALID"
          /\ failed.flags = flags /\ failed.list = {} /\ failed.channels = {}
          /\ failed.hClient = cleared(flags, hClient) /\ failed.hObject = cleared(flags, hObject)
      BY <2>5 DEF CallRecord
    <3> HIDE DEF failed
    <3> QED BY <2>4, <3>1, FS_EmptySet, EmptyPart DEF Answers
  <2>7. Answers(started) /\ started.p = p
    <3>1. /\ started.pc \in {"scan", "copy_in"} /\ started.op = op
          /\ started.flags = flags /\ started.list = {} /\ started.channels = {}
          /\ started.hClient = cleared(flags, hClient) /\ started.hObject = cleared(flags, hObject)
          /\ started.p = p
      BY <2>5 DEF CallRecord
    <3> HIDE DEF started
    <3> QED BY <2>3, <2>4, <3>1, FS_EmptySet DEF Answers
  <2>8. proc[p] = "alive" /\ UNCHANGED <<proc, rm, gsp, memory>>
    BY <1>1 DEF StartCall
  <2> HIDE DEF failed, started
  <2> QED BY <2>2, <2>6, <2>7, <2>8, AnswerKeeps
<1>2. CASE CopyIn(k)
  <2>1. CASE call' = [call EXCEPT ![k] = [call[k] EXCEPT !.pc = "scan", !.timeslice = memory[k]]]
    <3> DEFINE new == [call[k] EXCEPT !.pc = "scan", !.timeslice = memory[k]]
    <3>1. call' = [call EXCEPT ![k] = new]
      BY <2>1
    <3>2. /\ new.pc = "scan" /\ new.op = call[k].op /\ new.flags = call[k].flags /\ new.p = call[k].p
          /\ new.hClient = call[k].hClient /\ new.hObject = call[k].hObject
          /\ new.list = call[k].list /\ new.channels = call[k].channels
      BY <1>0 DEF CallRecord
    <3>3. call[k].pc = "copy_in" /\ UNCHANGED <<proc, rm, gsp, memory>>
      BY <1>2 DEF CopyIn
    <3> HIDE DEF new
    <3>4. Answers(new)
      BY <1>0, <3>2, <3>3 DEF Answers
    <3> QED BY <1>a, <3>1, <3>2, <3>3, <3>4, AnswerKeeps
  <2>2. CASE ends(k, "INVALID_ARGUMENT") \/ ends(k, "FAULT")
    BY <1>2, <2>2, EndsAnswers DEF CopyIn
  <2> QED BY <1>2, <2>1, <2>2 DEF CopyIn
<1>3. CASE LockFails(k)
  BY <1>3, EndsAnswers DEF LockFails
<1>4. CASE ScanSet(k)
  <2>1. call[k].flags # 0 /\ call[k].pc = "scan" /\ UNCHANGED <<proc, rm, gsp, memory>>
    BY <1>0, <1>4 DEF ScanSet, Answers
  <2>2. \E status \in Statuses : ends(k, status)
    BY <1>4 DEF ScanSet, Statuses
  <2> QED BY <2>1, <2>2, EndsAnswers
<1>5. CASE ScanQuery(k)
  <2> DEFINE found == {r \in owned_groups(call[k].p) : tsgs[r].creator = call[k].requestedClient}
  <2>1. call[k].pc = "scan" /\ call[k].op = "QUERY" /\ UNCHANGED <<proc, rm, gsp, memory>>
    BY <1>5 DEF ScanQuery
  <2>2. CASE ends(k, "NOT_FOUND")
    BY <2>1, <2>2, EndsAnswers
  <2>3. ASSUME NEW first \in found, call' = [call EXCEPT ![k] = answer(k, first, found)]
        PROVE  QueryInv'
    <3>1. found \in SUBSET Ref
      BY DEF owned_groups
    <3>2. call[k].flags = 0
      BY <1>0, <2>1 DEF Answers
    <3>3. Answers(answer(k, first, found))
      BY <2>1, <3>1, <3>2, ScanAnswers
    <3>4. answer(k, first, found).p = call[k].p
      BY <1>0 DEF answer, CallRecord
    <3> HIDE DEF found
    <3> QED BY <1>a, <2>1, <2>3, <3>3, <3>4, AnswerKeeps
  <2> QED BY <1>5, <2>2, <2>3 DEF ScanQuery
<1>6. CASE CopyOut(k)
  <2>1. call[k].pc = "copy_out" /\ UNCHANGED <<proc, rm, gsp, memory>>
    BY <1>6 DEF CopyOut
  <2>2. ASSUME NEW written \in 0 .. MaxChannels,
               call' = [call EXCEPT ![k] =
                          [call[k] EXCEPT !.pc = "done", !.status = "FAULT",
                             !.list = {x \in call[k].channels : x[2] <= written}]]
        PROVE  QueryInv'
    <3> DEFINE part == {x \in call[k].channels : x[2] <= written}
               new == [call[k] EXCEPT !.pc = "done", !.status = "FAULT", !.list = part]
    <3>1. call' = [call EXCEPT ![k] = new]
      BY <2>2
    <3>a. part \subseteq call[k].channels
      OBVIOUS
    <3> HIDE DEF part
    <3>2. /\ new.pc = "done" /\ new.op = call[k].op /\ new.flags = call[k].flags
          /\ new.hClient = call[k].hClient /\ new.hObject = call[k].hObject
          /\ new.list = part /\ new.channels = call[k].channels
          /\ new.seen = call[k].seen /\ new.status = "FAULT"
      BY <1>0 DEF CallRecord
    <3> HIDE DEF new
    <3>3. Part(new, new.list)
      <4>1. PICK channels \in (SUBSET (1 .. MaxChannels + 1)) \ {{}} :
              /\ call[k].seen = {<<call[k].selected, channels>>}
              /\ call[k].channels = {<<call[k].selected, n>> : n \in channels}
        BY <1>0, <2>1, Zenon DEF Answers, Answered
      <4>2. \A x \in part : x[1] = call[k].selected /\ x[2] \in channels
        BY <3>a, <4>1
      <4>3. \A x \in part : new.seen = {<<x[1], channels>>} /\ x[2] \in channels
        BY <3>2, <4>1, <4>2
      <4> QED BY <3>2, <4>3, Zenon DEF Part
    <3>4. Answers(new)
      BY <1>0, <2>1, <3>2, <3>3 DEF Answers
    <3> QED BY <2>1, <3>1, <3>2, <3>4, AnswerKeeps
  <2>3. CASE call' = [call EXCEPT ![k] =
                        [call[k] EXCEPT !.pc = "done", !.list = call[k].channels,
                           !.hClient = call[k].selected[1], !.hObject = call[k].selected[2]]]
    <3> DEFINE new == [call[k] EXCEPT !.pc = "done", !.list = call[k].channels,
                                      !.hClient = call[k].selected[1], !.hObject = call[k].selected[2]]
    <3>1. call' = [call EXCEPT ![k] = new]
      BY <2>3
    <3>2. /\ new.pc = "done" /\ new.op = call[k].op /\ new.flags = call[k].flags
          /\ new.hClient = call[k].selected[1] /\ new.hObject = call[k].selected[2]
          /\ new.list = call[k].channels /\ new.channels = call[k].channels
          /\ new.seen = call[k].seen /\ new.status = call[k].status
      BY <1>0 DEF CallRecord
    <3>3. <<new.hClient, new.hObject>> = call[k].selected
      BY <1>0, <3>2 DEF CallRecord, Refs
    <3> HIDE DEF new
    <3>4. Answered(new, <<new.hClient, new.hObject>>, new.list)
      <4>1. PICK channels \in (SUBSET (1 .. MaxChannels + 1)) \ {{}} :
              /\ call[k].seen = {<<call[k].selected, channels>>}
              /\ call[k].channels = {<<call[k].selected, n>> : n \in channels}
        BY <1>0, <2>1, Zenon DEF Answers, Answered
      <4> DEFINE ref == <<new.hClient, new.hObject>>
      <4>2. new.seen = {<<ref, channels>>} /\ new.list = {<<ref, n>> : n \in channels}
        BY <3>2, <3>3, <4>1
      <4> HIDE DEF ref
      <4>3. Answered(new, ref, new.list)
        BY <4>2, Zenon DEF Answered
      <4> QED BY <4>3 DEF ref
    <3>5. Answers(new)
      BY <1>0, <2>1, <3>2, <3>4 DEF Answers
    <3> QED BY <2>1, <3>1, <3>2, <3>5, AnswerKeeps
  <2> QED BY <1>6, <2>2, <2>3 DEF CopyOut
<1>7. CASE Return(k)
  <2>1. call' = [call EXCEPT ![k] = idle] /\ UNCHANGED <<proc, rm, gsp, memory>>
    BY <1>7 DEF Return
  <2> QED BY <2>1, IdleAnswers, IdleTypes, AnswerKeeps
<1> QED BY <1>1, <1>2, <1>3, <1>4, <1>5, <1>6, <1>7 DEF Call

(* Together with the first invariant, this one holds in every behaviour.   *)
LEMMA QueryInvariant == Spec => [](TransportInv /\ QueryInv)
<1>1. QueryInv /\ TransportInv /\ UNCHANGED vars => QueryInv'
  BY DEF vars, rm, QueryInv, Bounded, Alive
<1>2. TransportInv /\ QueryInv /\ [Next]_vars => QueryInv'
  BY <1>1, EnvironmentAnswers, CallAnswers DEF Next
<1> QED BY <1>2, QueryInit, TransportInvariant, PTL DEF Spec

(* The types of all variables; in particular the list of channels fits     *)
(* the array of the answer, and a process in a call is alive.              *)
THEOREM TransportTypes == Spec => []TypeOK
<1>1. TransportInv /\ QueryInv => TypeOK
  <2> SUFFICES ASSUME TransportInv, QueryInv
               PROVE  TypeOK
    OBVIOUS
  <2>1. \A k \in Thread : call[k] \in CallRecord /\ Answers(call[k])
    BY DEF TransportInv, CallTypes, QueryInv
  <2>2. \A k \in Thread :
          /\ call[k].pc \in {"idle", "copy_in", "scan", "copy_out", "done"}
          /\ call[k].p \in Process \cup {NoProcess}
          /\ call[k].op \in {"INVALID", "QUERY", "SET_TIMESLICE"}
          /\ call[k].status \in Statuses
          /\ Cardinality(call[k].channels) <= MaxChannels
          /\ call[k].pc \in {"copy_in", "scan", "copy_out"} => proc[call[k].p] = "alive"
    BY <2>1 DEF CallRecord, Answers, QueryInv, Alive
  <2>3. tsgs \in [Ref -> [group : 0 .. MaxGroups, creator : Tid \cup {0}, gr : BOOLEAN,
                          channels : SUBSET (1 .. MaxChannels + 1)]]
    BY DEF TransportInv, Types, TsgRecord, QueryInv, Bounded
  <2> QED BY <2>2, <2>3 DEF TransportInv, Types, QueryInv, TypeOK
<1> QED BY <1>1, QueryInvariant, PTL

(* A query that leaves handles behind gave all channels of the only group  *)
(* it matched, however the objects changed before the answer was copied.   *)
(* Every other one leaves the handles cleared, and channels only when the  *)
(* copy failed, of the only group it matched (RmGPreemptTransport).        *)
THEOREM QueriesWhole == Spec => []QueryWhole
<1>1. QueryInv => QueryWhole
  BY DEF QueryInv, Answers, Answered, Part, QueryWhole
<1> QED BY <1>1, QueryInvariant, PTL
=============================================================================
