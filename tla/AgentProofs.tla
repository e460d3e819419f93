----------------------------- MODULE AgentProofs -----------------------------
(***************************************************************************)
(* Machine-checked proofs about Agent, for all values of the constants.    *)
(***************************************************************************)
EXTENDS Agent, TLAPS

(***************************************************************************)
(* No update of the store is lost.                                         *)
(***************************************************************************)
(* What NoLostUpdate needs to be inductive: a cycle that starts while the  *)
(* connection is up has a client, so it gets as far as its reads; a cycle  *)
(* that gives up after a failed "router bgp" does so with BGP still        *)
(* unconfigured, because r.mu kept ConfigureBGP out; and the first of the  *)
(* four reads is that of the peers.                                        *)
LoopInv ==
  /\ kind \in Kinds
  /\ conn # "wait" => client \/ ctx # "live"
  /\ pc = "configure" => ~bgpConfigured /\ kind = "peer"

NoLostUpdateInv == LoopInv /\ NoLostUpdate

\* A desiredMap has the keys of its kind, and nothing else.
LEMMA DesiredMapShape ==
  ASSUME NEW k, NEW snap \in DesiredMaps(k)
  PROVE  snap = [s \in SlotsOf(k) |-> snap[s]]
BY DEF DesiredMaps

\* What the store can produce depends on the store only.
LEMMA DesiredMapsStable ==
  ASSUME UNCHANGED intents
  PROVE  \A k : DesiredMaps(k)' = DesiredMaps(k)
BY DEF DesiredMaps

\* A step that leaves the store and the snapshots alone leaves them in step.
LEMMA FreshStable ==
  ASSUME UNCHANGED <<intents, desired>>
  PROVE  \A k : Fresh(k)' = Fresh(k)
BY DesiredMapsStable DEF Fresh

\* The strengthened invariant holds at the start: nothing has been connected.
LEMMA NoLostUpdateInit == Init => NoLostUpdateInv
BY DEF Init, RecInit, NoLostUpdateInv, LoopInv, NoLostUpdate, Kinds

\* A step of a handler stores or removes an intent, empties an owner's entry,
\* changes the BGP settings or triggers.
LEMMA HandlerSteps ==
  Handlers =>
    \E o \in Owners : \/ \E s, v : SetIntent(o, s, v)
                      \/ \E s : RemoveIntent(o, s)
                      \/ Deregister(o)
                      \/ \E as : ConfigureBGP(o, as)
                      \/ TriggerReconcile(o)
BY DEF Handlers, Request, ApplyPeer, AdvertisePrefix, EnableBFD, EnableOSPF,
   RemovePeer, WithdrawPrefix, DisableBFD, DisableOSPF

\* Every step preserves the part of the invariant about the loop.
LEMMA LoopInvStep == LoopInv /\ [Next]_vars => LoopInv'
<1> SUFFICES ASSUME LoopInv, [Next]_vars PROVE LoopInv'
  OBVIOUS
<1> USE DEF LoopInv, globalVars, planVars, agentVars
<1>1. CASE Handlers
  <2>1. /\ UNCHANGED <<kind, conn, client, ctx, pc>>
        /\ bgpConfigured' # bgpConfigured => ~MuHeld
    BY Zenon, <1>1, HandlerSteps DEF Deregister, ConfigureBGP, SetIntent,
       RemoveIntent, Call, UpdateBGPGlobal, TriggerReconcile, recVars
  <2>2. pc = "configure" => MuHeld
    BY DEF MuHeld
  <2> QED
    BY <2>1, <2>2
<1>2. CASE waitForFRR
  BY <1>2 DEF waitForFRR, InjectClient, SetFRRClient, GiveUp, initConfigPeers,
     ConnectTrigger, recVars
<1>3. CASE Tick \/ Triggered \/ Stop
  BY <1>3 DEF Tick, Triggered, Wake, Stop
<1>4. CASE ReadStore
  BY <1>4 DEF ReadStore, Snapshot, After, Kinds
<1>5. CASE CycleStep /\ UNCHANGED agentVars
  <2>1. CASE ensureBGPGlobal \/ globalConfigured \/ LeaveStage
    BY <1>5, <2>1 DEF ensureBGPGlobal, globalConfigured, LeaveStage, After, Kinds
  <2>2. CASE Begin \/ EnterStage \/ StartRemovals
    BY <1>5, <2>2 DEF Begin, EnterStage, StartRemovals
  <2>3. CASE \E s \in work : ApplyKey(s) \/ RemoveKey(s)
    BY <1>5, <2>3 DEF ApplyKey, RemoveKey
  <2> QED
    BY <1>5, <2>1, <2>2, <2>3 DEF CycleStep
<1>6. CASE RunPlan
  BY <1>6 DEF RunPlan, PlanStep, RunOK, RunFail, Book, Here, AfterBatch
<1>7. CASE Cancel
  BY <1>7 DEF Cancel
<1>8. CASE gracefulShutdown
  BY <1>8 DEF gracefulShutdown, WithdrawStep, WithdrawAll, WithdrawNext,
     WithdrawKey, After, Kinds
<1>9. CASE RestartFRR
  BY <1>9 DEF RestartFRR
<1>10. CASE Crash
  BY <1>10 DEF Crash, Kinds
<1>11. CASE UNCHANGED vars
  BY <1>11 DEF vars, recVars
<1> QED
  BY <1>1, <1>2, <1>3, <1>4, <1>5, <1>6, <1>7, <1>8, <1>9, <1>10, <1>11
  DEF Next, RunLoop

\* A read of the store makes the snapshot of its kind fresh and leaves those
\* that the cycle has read before, and those it has yet to read, alone.
LEMMA ReadStoreStep ==
  LoopInv /\ NoLostUpdate /\ ReadStore => NoLostUpdate'
<1> SUFFICES ASSUME LoopInv, NoLostUpdate, ReadStore, NEW k \in Kinds
             PROVE  NoLostUpdate!(k)'
  BY DEF NoLostUpdate, Kinds
<1>1. PICK snap \in DesiredMaps(kind) : Snapshot(snap)
  BY DEF ReadStore
<1>2. UNCHANGED <<intents, triggerCh, rpc, conn, bgpConfigured, ctx>>
  BY <1>1 DEF Snapshot, ReadStore, agentVars, globalVars, planVars
<1>3. CASE k = kind
  <2>1. [s \in SlotsOf(k) |-> desired'[s]] = snap
    BY <1>1, <1>3, DesiredMapShape DEF Snapshot, SlotsOf
  <2> QED
    BY <1>1, <1>2, <1>3, <2>1, DesiredMapsStable DEF Fresh
<1>4. CASE k # kind
  <2>1. [s \in SlotsOf(k) |-> desired'[s]] = [s \in SlotsOf(k) |-> desired[s]]
    BY <1>1, <1>4 DEF Snapshot, SlotsOf
  <2>2. Fresh(k)' = Fresh(k)
    BY <1>2, <2>1, DesiredMapsStable DEF Fresh
  <2>3. WillRead(k) => WillRead(k)'
    BY <1>1, <1>4 DEF Snapshot, WillRead, After, LoopInv, Kinds
  <2> QED
    BY <1>2, <2>2, <2>3 DEF NoLostUpdate
<1> QED
  BY <1>3, <1>4

\* Every step preserves NoLostUpdate.
LEMMA NoLostUpdateStep ==
  LoopInv /\ NoLostUpdate /\ [Next]_vars => NoLostUpdate'
<1> SUFFICES ASSUME LoopInv, NoLostUpdate, [Next]_vars PROVE NoLostUpdate'
  OBVIOUS
<1> USE DEF NoLostUpdate, globalVars, planVars, agentVars
<1>1. CASE Handlers
  <2>1. CASE \E o \in Owners : TriggerReconcile(o)
    BY <2>1 DEF TriggerReconcile
  <2>2. CASE \E o \in Owners : Call(o)
    BY <2>2 DEF Call
  <2> QED
    BY <1>1, <2>1, <2>2, HandlerSteps
    DEF SetIntent, RemoveIntent, Deregister, ConfigureBGP
<1>2. CASE waitForFRR
  BY <1>2 DEF waitForFRR, InjectClient, GiveUp, initConfigPeers,
     ConnectTrigger, recVars
<1>3. CASE Tick \/ Triggered
  BY <1>3 DEF Tick, Triggered, Wake, WillRead
<1>4. CASE ReadStore
  BY <1>4, ReadStoreStep DEF LoopInv
<1>5. CASE Stop
  BY <1>5 DEF Stop
<1>6. CASE CycleStep /\ UNCHANGED agentVars
  <2>1. CASE Begin
    BY <1>6, <2>1, FreshStable DEF Begin, WillRead, LoopInv
  <2>2. CASE ensureBGPGlobal
    BY <1>6, <2>2 DEF ensureBGPGlobal, WillRead
  <2>3. CASE globalConfigured
    BY <1>6, <2>3 DEF globalConfigured, WillRead, LoopInv
  <2>4. CASE EnterStage \/ StartRemovals \/ LeaveStage
    <3>1. UNCHANGED <<intents, desired, bgpConfigured, ctx>>
      BY <1>6, <2>4 DEF EnterStage, StartRemovals, LeaveStage
    <3> QED
      BY <1>6, <2>4, <3>1, FreshStable
      DEF EnterStage, StartRemovals, LeaveStage, WillRead
  <2>5. CASE \E s \in work : ApplyKey(s) \/ RemoveKey(s)
    <3>1. UNCHANGED <<intents, desired, bgpConfigured, ctx, pc, kind>>
      BY <1>6, <2>5 DEF ApplyKey, RemoveKey
    <3> QED
      BY <1>6, <3>1, FreshStable DEF WillRead
  <2> QED
    BY <1>6, <2>1, <2>2, <2>3, <2>4, <2>5 DEF CycleStep
<1>7. CASE RunPlan
  <2>1. UNCHANGED <<intents, desired, bgpConfigured, pc, kind>>
    BY <1>7 DEF RunPlan, PlanStep, RunOK, RunFail, Book, Here
  <2>2. ctx # "live" => ctx' # "live"
    BY <1>7 DEF RunPlan, PlanStep, RunOK, RunFail, Book, AfterBatch
  <2> QED
    BY <1>7, <2>1, <2>2, FreshStable DEF RunPlan, WillRead
<1>8. CASE Cancel
  BY <1>8 DEF Cancel
<1>9. CASE gracefulShutdown
  <2>1. UNCHANGED <<intents, desired, bgpConfigured, ctx>>
    BY <1>9 DEF gracefulShutdown, WithdrawStep, WithdrawAll, WithdrawNext,
       WithdrawKey
  <2>2. \A k \in Kinds : ~WillRead(k)
    BY <1>9 DEF gracefulShutdown, WithdrawStep, WithdrawAll, WithdrawNext,
       WithdrawKey, WillRead
  <2> QED
    BY <1>9, <2>1, <2>2, FreshStable DEF gracefulShutdown
<1>10. CASE RestartFRR
  <2>1. UNCHANGED <<intents, desired, bgpConfigured, ctx, pc, kind, triggerCh,
                    rpc, conn>>
    BY <1>10 DEF RestartFRR
  <2> QED
    BY <2>1, FreshStable DEF WillRead
<1>11. CASE Crash
  BY <1>11 DEF Crash
<1>12. CASE UNCHANGED vars
  <2>1. UNCHANGED <<intents, desired, bgpConfigured, ctx, pc, kind, triggerCh,
                    rpc, conn>>
    BY <1>12 DEF vars, recVars
  <2> QED
    BY <2>1, FreshStable DEF WillRead
<1> QED
  BY <1>1, <1>2, <1>3, <1>4, <1>5, <1>6, <1>7, <1>8, <1>9, <1>10, <1>11, <1>12
  DEF Next, RunLoop

(* TriggerReconcile may drop a signal and RunLoop takes it out before the  *)
(* store is read, yet no change of the store is ever missed: an outdated   *)
(* snapshot always has a signal, a pending trigger or a coming read behind *)
(* it, however handlers, ticks, FRR failures, restarts and crashes fall.   *)
THEOREM NoUpdateIsLost == Spec => []NoLostUpdate
<1>1. NoLostUpdateInv /\ [Next]_vars => NoLostUpdateInv'
  BY LoopInvStep, NoLostUpdateStep DEF NoLostUpdateInv
<1>2. NoLostUpdateInv => NoLostUpdate
  BY DEF NoLostUpdateInv
<1> QED
  BY <1>1, <1>2, NoLostUpdateInit, PTL DEF Spec

=============================================================================
