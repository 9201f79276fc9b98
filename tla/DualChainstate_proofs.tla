------------------------ MODULE DualChainstate_proofs ------------------------
(***************************************************************************)
(* DualChainstate is type correct for every block tree, snapshot file,     *)
(* batch size and number of RPC workers.  When RPC calls do not overlap    *)
(* and the coins are kept in LevelDB, the node only calls a snapshot       *)
(* validated when it is, for every block tree, every set of snapshot files *)
(* and invalid blocks, and every interleaving of the worker, the network   *)
(* thread, crashes and restarts.  Session_proofs builds on it.             *)
(***************************************************************************)
EXTENDS DualChainstate, TLAPS

-----------------------------------------------------------------------------
(* The strengthening of TypeOK: what makes a step's block lookups succeed. *)

\* Before a snapshot is active nobody steps or saves, one worker at most loads,
\* and a worker that passed the activation checks finds the slot as it was.
BeforeActive ==
  ~snapActive =>
    /\ \A t \in Thread : pc[t] \notin {"step_lock", "step_loop", "remove", "rename"}
    /\ \A t \in Thread : pc[t] = "act_lock" => bg.coins # "none" /\ bg.tip # NoBlock
    /\ \A t \in Thread : pc[t] = "loading" => bg.coins # "none" /\ bg.tip = NoBlock
    /\ \A t, u \in Thread : pc[t] = "loading" /\ pc[u] = "loading" => t = u

\* A stepper inside its loop, or saving in the middle of it, has a base.
StepsToBase ==
  \A t \in Thread :
    \/ pc[t] = "step_loop"
    \/ pc[t] \in {"remove", "rename"} /\ loc[t].next = "step_loop"
    => base # NoBlock

\* ActivateBestChainStep has a target, and is not there yet.
HasTarget == pc[Net] = "abc_step" => loc[Net].most \in Block /\ activeTip # loc[Net].most

TypeInv == TypeOK /\ BeforeActive /\ StepsToBase /\ HasTarget

-----------------------------------------------------------------------------
(* The block tree *)

\* The ancestor of a given height exists, is unique, and follows its parent.
LEMMA AncestorOnPath ==
  ASSUME NEW b \in Block, NEW h \in 0..Height[b]
  PROVE  Ancestor(b, h) \in Path[b] /\ Height[Ancestor(b, h)] = h /\ Ancestor(b, h) \in Block
BY TreeAssumption DEF Ancestor

\* The block that extends an ancestor of b towards b has that ancestor as parent.
LEMMA NextExtends ==
  ASSUME NEW b \in Block, NEW a \in Path[b], a # b
  PROVE  /\ Height[a] + 1 \in 0..Height[b]
         /\ Ancestor(b, Height[a] + 1) \in Block \ {Genesis}
         /\ Parent[Ancestor(b, Height[a] + 1)] = a
<1>1. a \in Block /\ Height[a] \in Nat /\ Height[b] \in Nat /\ Height[a] < Height[b]
  BY TreeAssumption
<1>2. Height[a] + 1 \in 0..Height[b]
  BY <1>1
<1> DEFINE n == Ancestor(b, Height[a] + 1)
<1>3. n \in Path[b] /\ Height[n] = Height[a] + 1 /\ n \in Block
  BY <1>2, AncestorOnPath
<1>4. n # Genesis
  BY <1>1, <1>3, TreeAssumption
<1>5. Parent[n] \in Block /\ Height[n] = Height[Parent[n]] + 1 /\ Parent[n] \in Path[n]
  BY <1>3, <1>4, TreeAssumption
<1>6. Parent[n] \in Path[b] /\ Height[Parent[n]] = Height[a]
  BY <1>1, <1>3, <1>5, TreeAssumption
<1> QED BY <1>2, <1>3, <1>4, <1>6, TreeAssumption

\* A block outside some path is not genesis, so it has a parent.
LEMMA OffPathHasParent ==
  ASSUME NEW b \in Block, NEW a \in Block \ Path[b]
  PROVE  a # Genesis /\ Parent[a] \in Block
BY TreeAssumption

-----------------------------------------------------------------------------
(* Types *)

\* Constants and operators the actions build their values from.
LEMMA ValueTypes ==
  /\ NoLocal \in Local /\ EmptyView \in View /\ NoHash \in Hash
  /\ IdleSlot \in Slot /\ NoDat \in Dat /\ Genesis \in Block
  /\ \A b \in Block \cup {NoBlock} : ParkedIbd(b) \in Slot
  /\ \A b \in Block : TrueView(b) \in View
  /\ \A v \in View : Digest(v) \in Hash
  /\ \A v \in View, b \in Block : ConnectView(v, b) \in View /\ DisconnectView(v, b) \in View
  /\ Net \in Thread /\ Main \in Thread /\ Rpc \subseteq Thread
<1>1. NoLocal \in Local /\ EmptyView \in View /\ NoHash \in Hash /\ NoDat \in Dat
  BY DEF NoLocal, Local, EmptyView, View, Kind, NoHash, Hash, NoDat, Dat, Status
<1>2. IdleSlot \in Slot /\ \A b \in Block \cup {NoBlock} : ParkedIbd(b) \in Slot
  BY Zenon, <1>1 DEF IdleSlot, Slot, ParkedIbd, Store
<1>3. \A b \in Block : TrueView(b) \in View
  BY DEF TrueView, View, Kind
<1>4. \A v \in View : Digest(v) \in Hash
  BY DEF Digest, View, Hash, Kind
<1>5. \A v \in View, b \in Block : ConnectView(v, b) \in View /\ DisconnectView(v, b) \in View
  BY TreeAssumption DEF ConnectView, DisconnectView, View, Kind
<1> QED BY <1>1, <1>2, <1>3, <1>4, <1>5, TreeAssumption DEF Thread

\* Moving one thread keeps the types of pc and loc.
LEMMA GotoType ==
  ASSUME TypeOK, NEW t \in Thread, NEW label \in Pc, NEW l \in Local, Goto(t, label, l)
  PROVE  /\ pc' \in [Thread -> Pc] /\ loc' \in [Thread -> Local]
         /\ pc'[t] = label /\ loc'[t] = l
         /\ \A u \in Thread \ {t} : pc'[u] = pc[u] /\ loc'[u] = loc[u]
BY DEF TypeOK, Goto

\* Saving the state file starts with the removal of the old one.
LEMMA PersistType ==
  ASSUME TypeOK, NEW t \in Thread, NEW l \in Local,
         NEW next \in {"idle", "stop", "step_loop", "down"}, Persist(t, next, l)
  PROVE  /\ pc' \in [Thread -> Pc] /\ loc' \in [Thread -> Local]
         /\ pc'[t] = "remove" /\ loc'[t].next = next
         /\ \A u \in Thread \ {t} : pc'[u] = pc[u] /\ loc'[u] = loc[u]
<1> DEFINE k == [l EXCEPT !.next = next]
<1>1. k \in Local /\ k.next = next
  BY DEF Local
<1>2. "remove" \in Pc
  BY DEF Pc, Locked
<1>3. Goto(t, "remove", k)
  BY DEF Persist
<1> HIDE DEF k
<1>4. /\ pc' \in [Thread -> Pc] /\ loc' \in [Thread -> Local]
      /\ pc'[t] = "remove" /\ loc'[t] = k
      /\ \A u \in Thread \ {t} : pc'[u] = pc[u] /\ loc'[u] = loc[u]
  BY <1>1, <1>2, <1>3, GotoType
<1> QED BY <1>1, <1>4

\* A process that does not run has its memory in the initial shape.
LEMMA ForgetType ==
  ASSUME TypeOK, ForgetMemory, idxDisk' \in [Block -> Stored], disk' \in [Store -> View],
         dir' \in {"none", "snap", "reload"}, dat' \in Dat, node' = "down"
  PROVE  TypeInv'
<1>1. TypeOK'
  <2>1. pc' \in [Thread -> Pc] /\ loc' \in [Thread -> Local]
    BY ValueTypes DEF ForgetMemory, Pc
  <2>2. cache' \in [Store -> View] /\ idx' \in [Block -> Stored] /\ cand' \in SUBSET Block
    BY DEF ForgetMemory
  <2>3. /\ activeTip' \in Block /\ pcoins' \in Store
        /\ bg' \in Slot /\ bgStatus' \in Status
        /\ base' \in Block \cup {NoBlock} /\ expected' \in Hash
    BY ValueTypes DEF ForgetMemory, Store, Status
  <2>4. bgHeight' \in Int /\ bgTarget' \in Int
    BY DEF ForgetMemory
  <2>5. snapActive' \in BOOLEAN /\ stopping' \in BOOLEAN
    BY Zenon DEF ForgetMemory
  <2> QED BY <2>1, <2>2, <2>3, <2>4, <2>5 DEF TypeOK
<1>2. \A t \in Thread : pc'[t] = "idle"
  BY DEF ForgetMemory
<1>3. BeforeActive' /\ StepsToBase' /\ HasTarget'
  BY <1>2, ValueTypes DEF BeforeActive, StepsToBase, HasTarget
<1> QED BY <1>1, <1>3 DEF TypeInv

-----------------------------------------------------------------------------
(* Every action keeps TypeInv *)

\* A round of ActivateBestChain ends between two rounds or before the automatic step.
LEMMA RoundEndType ==
  ASSUME TypeOK, NEW tip \in Block, NEW most \in Block \cup {NoBlock}, AbcRoundEnd(tip, most)
  PROVE  /\ pc' \in [Thread -> Pc] /\ loc' \in [Thread -> Local]
         /\ pc'[Net] \in {"step_check", "abc"}
         /\ \A u \in Thread \ {Net} : pc'[u] = pc[u] /\ loc'[u] = loc[u]
<1> DEFINE l == [loc[Net] EXCEPT !.most = most, !.old = NoBlock]
<1>1. l \in Local /\ "step_check" \in Pc /\ "abc" \in Pc
  BY ZenonT(40), ValueTypes DEF TypeOK, Local, Pc
<1>2. Goto(Net, "step_check", NoLocal) \/ Goto(Net, "abc", l)
  BY DEF AbcRoundEnd
<1> HIDE DEF l
<1> QED BY Zenon, <1>1, <1>2, GotoType, ValueTypes

\* Returning makes a thread idle.
LEMMA ReturnType ==
  ASSUME TypeOK, NEW t \in Thread, Return(t)
  PROVE  /\ pc' \in [Thread -> Pc] /\ loc' \in [Thread -> Local]
         /\ pc'[t] = "idle"
         /\ \A u \in Thread \ {t} : pc'[u] = pc[u] /\ loc'[u] = loc[u]
<1>1. "idle" \in Pc
  BY DEF Pc
<1> QED BY <1>1, GotoType, ValueTypes DEF Return

\* Steps of the network thread: headers, blocks, ActivateBestChain.
LEMMA NetKeepsTypes ==
  ASSUME TypeInv, NetNext
  PROVE  TypeInv'
<1> USE DEF TypeInv, TypeOK
<1>1. ASSUME NEW b \in Block, ReceiveHeader(b) PROVE TypeInv'
  BY ZenonT(40), <1>1
     DEF BeforeActive, StepsToBase, HasTarget, ReceiveHeader, diskVars, chainVars, proofVars,
              Stored
<1>2. ASSUME NEW b \in Block, ReceiveBlock(b) PROVE TypeInv'
  BY Zenon, <1>2, ValueTypes
     DEF BeforeActive, StepsToBase, HasTarget, ReceiveBlock, diskVars, proofVars,
                          Stored, Goto, Pc
<1>3. ASSUME AbcRound PROVE TypeInv'
  <2>1. PICK m \in Block \cup {NoBlock} :
          /\ IF loc[Net].most = NoBlock
             THEN IsMostWork(m) /\ cand' = cand \ Dropped(m)
             ELSE m = loc[Net].most /\ UNCHANGED cand
          /\ IF m \in {NoBlock, activeTip}
             THEN Return(Net)
             ELSE Goto(Net, "abc_step", [loc[Net] EXCEPT !.most = m, !.old = activeTip])
    BY Zenon, <1>3 DEF AbcRound
  <2>2. /\ UNCHANGED <<idx, diskVars, activeTip, cache, pcoins, snapActive, bg, proofVars,
                       stopping, node>>
        /\ cand' \in SUBSET Block
    BY <1>3, <2>1 DEF AbcRound
  <2>3. CASE m \in {NoBlock, activeTip}
    BY ZenonT(40), <2>1, <2>2, <2>3, ValueTypes
       DEF BeforeActive, StepsToBase, HasTarget, diskVars, proofVars,
                                        Return, Goto, Pc
  <2>4. CASE m \notin {NoBlock, activeTip}
    <3> DEFINE l == [loc[Net] EXCEPT !.most = m, !.old = activeTip]
    <3>1. l \in Local /\ l.most = m
      BY Zenon, ValueTypes DEF Local
    <3>2. Goto(Net, "abc_step", l)
      BY <2>1, <2>4
    <3>3. "abc_step" \in Pc
      BY DEF Pc, Locked
    <3> HIDE DEF l
    <3>4. /\ pc' \in [Thread -> Pc] /\ loc' \in [Thread -> Local]
          /\ pc'[Net] = "abc_step" /\ loc'[Net] = l
          /\ \A u \in Thread \ {Net} : pc'[u] = pc[u] /\ loc'[u] = loc[u]
      BY Zenon, <3>1, <3>2, <3>3, GotoType, ValueTypes
    <3> QED BY ZenonT(40), <2>2, <2>4, <3>1, <3>4, ValueTypes
            DEF BeforeActive, StepsToBase, HasTarget, diskVars, proofVars
  <2> QED BY <2>3, <2>4
<1>4. ASSUME AutoStepCheck PROVE TypeInv'
  <2>1. CASE ProofRunning
    <3> DEFINE l == [NoLocal EXCEPT !.left = AutoBatch]
    <3>1. l \in Local
      BY Zenon, ValueTypes, ConfigAssumption DEF Local
    <3>2. Goto(Net, "step_lock", l) /\ "step_lock" \in Pc /\ snapActive
      BY <1>4, <2>1 DEF AutoStepCheck, Pc, ProofRunning
    <3> HIDE DEF l
    <3>3. /\ pc' \in [Thread -> Pc] /\ loc' \in [Thread -> Local]
          /\ pc'[Net] = "step_lock" /\ loc'[Net] = l
          /\ \A u \in Thread \ {Net} : pc'[u] = pc[u] /\ loc'[u] = loc[u]
      BY <3>1, <3>2, GotoType, ValueTypes
    <3> QED BY <1>4, <3>2, <3>3, ValueTypes
            DEF AutoStepCheck, BeforeActive, StepsToBase, HasTarget, diskVars, chainVars, proofVars
  <2>2. CASE ~ProofRunning
    BY ZenonT(40), <1>4, <2>2, ValueTypes
       DEF AutoStepCheck, BeforeActive, StepsToBase, HasTarget, diskVars,
                                  chainVars, proofVars, Return, Goto, Pc
  <2> QED BY <2>1, <2>2
<1>5. ASSUME AbcDisconnect PROVE TypeInv'
  <2>1. /\ pc[Net] = "abc_step" /\ loc[Net].most \in Block
        /\ activeTip \notin Path[loc[Net].most]
        /\ UNCHANGED <<idx, diskVars, cand, pcoins, snapActive, bg, proofVars, node>>
    BY Zenon, <1>5 DEF AbcDisconnect, HasTarget
  <2>2. Parent[activeTip] \in Block
    BY Zenon, <2>1, OffPathHasParent
  <2>3. /\ stopping' \in BOOLEAN /\ cache' \in [Store -> View] /\ activeTip' \in Block
    <3>1. cache' \in [Store -> View]
      <4>1. DisconnectView(cache[pcoins], activeTip) \in View
        BY ValueTypes
      <4>2. \/ cache' = cache
            \/ cache' = [cache EXCEPT ![pcoins] = DisconnectView(cache[pcoins], activeTip)]
        BY Zenon, <1>5 DEF AbcDisconnect
      <4> QED BY <4>1, <4>2
    <3>2. activeTip' \in Block
      BY Zenon, <1>5, <2>1, <2>2 DEF AbcDisconnect
    <3>3. stopping' \in BOOLEAN
      BY Zenon, <1>5, ValueTypes DEF AbcDisconnect, AbcError, Local
    <3> QED BY <3>1, <3>2, <3>3
  <2>4. /\ pc' \in [Thread -> Pc] /\ loc' \in [Thread -> Local]
        /\ \A u \in Thread \ {Net} : pc'[u] = pc[u] /\ loc'[u] = loc[u]
        /\ \/ pc'[Net] \in {"step_check", "abc", "idle"}
           \/ pc'[Net] = pc[Net] /\ loc'[Net] = loc[Net] /\ activeTip' # loc[Net].most
    <3>1. CASE Return(Net)
      BY Zenon, <3>1, ReturnType, ValueTypes
    <3>2. CASE \E tip \in Block : AbcRoundEnd(tip, loc[Net].most)
      BY Zenon, <2>1, <3>2, RoundEndType
    <3>3. CASE UNCHANGED <<pc, loc>> /\ activeTip' # loc[Net].most
      BY SMTT(40), <3>3
    <3>4. \/ Return(Net)
          \/ \E tip \in Block : AbcRoundEnd(tip, loc[Net].most)
          \/ UNCHANGED <<pc, loc>> /\ activeTip' # loc[Net].most
      BY Zenon, <1>5, <2>1 DEF AbcDisconnect, AbcError
    <3> QED BY Zenon, <3>1, <3>2, <3>3, <3>4
  <2>5. TypeOK'
    BY Zenon, <2>1, <2>3, <2>4 DEF diskVars, proofVars
  <2>6. BeforeActive'
    BY ZenonT(40), <2>1, <2>4, ValueTypes DEF BeforeActive
  <2>7. StepsToBase'
    BY Zenon, <2>1, <2>4, ValueTypes DEF StepsToBase, proofVars
  <2>8. HasTarget'
    BY Zenon, <2>1, <2>4 DEF HasTarget
  <2> QED BY <2>5, <2>6, <2>7, <2>8
<1>6. ASSUME AbcConnect PROVE TypeInv'
  <2> DEFINE next == Ancestor(loc[Net].most, Height[activeTip] + 1)
  <2>1. /\ pc[Net] = "abc_step" /\ loc[Net].most \in Block /\ activeTip # loc[Net].most
        /\ activeTip \in Path[loc[Net].most]
        /\ UNCHANGED <<diskVars, pcoins, snapActive, bg, proofVars, node>>
    BY Zenon, <1>6 DEF AbcConnect, HasTarget
  <2>2. next \in Block
    BY <2>1, NextExtends
  <2>3. \/ /\ Return(Net) /\ stopping' = (stopping \/ loc[Net].boot \/ ~snapActive)
           /\ UNCHANGED <<idx, cand, activeTip, cache>>
        \/ /\ idx' = Rejected(idx, next) /\ cand' = cand \ {next}
           /\ AbcRoundEnd(activeTip, NoBlock)
           /\ UNCHANGED <<activeTip, cache, stopping>>
        \/ /\ idx' = WithUndo(idx, next)
           /\ cache' = [cache EXCEPT ![pcoins] = ConnectView(@, next)]
           /\ activeTip' = next
           /\ cand' = {c \in cand : Competes(c, next)}
           /\ \/ AbcRoundEnd(next, loc[Net].most)
              \/ next # loc[Net].most /\ UNCHANGED <<pc, loc>>
           /\ UNCHANGED stopping
    BY Zenon, <1>6 DEF AbcConnect
  <2> HIDE DEF next
  <2>4. idx' \in [Block -> Stored] /\ cand' \in SUBSET Block /\ activeTip' \in Block
    BY Zenon, <2>2, <2>3 DEF WithUndo, Rejected, Stored
  <2>5. cache' \in [Store -> View]
    <3>1. ConnectView(cache[pcoins], next) \in View
      BY SMTT(40), <2>2, ValueTypes
    <3>2. cache' = cache \/ cache' = [cache EXCEPT ![pcoins] = ConnectView(cache[pcoins], next)]
      BY Zenon, <2>3
    <3> QED BY <3>1, <3>2
  <2>6. stopping' \in BOOLEAN
    BY ZenonT(40), <2>3, ValueTypes DEF Local
  <2>7. /\ pc' \in [Thread -> Pc] /\ loc' \in [Thread -> Local]
        /\ \A u \in Thread \ {Net} : pc'[u] = pc[u] /\ loc'[u] = loc[u]
        /\ \/ pc'[Net] \in {"step_check", "abc", "idle"}
           \/ pc'[Net] = pc[Net] /\ loc'[Net] = loc[Net] /\ activeTip' # loc[Net].most
    <3>1. CASE Return(Net)
      BY <3>1, ReturnType, ValueTypes
    <3>2. CASE \E tip \in Block, most \in Block \cup {NoBlock} : AbcRoundEnd(tip, most)
      BY Zenon, <3>2, RoundEndType
    <3>3. CASE UNCHANGED <<pc, loc>> /\ activeTip' # loc[Net].most
      BY <3>3
    <3> QED BY Zenon, <2>1, <2>2, <2>3, <3>1, <3>2, <3>3
  <2> QED BY ZenonT(40), <2>1, <2>4, <2>5, <2>6, <2>7, ValueTypes
          DEF BeforeActive, StepsToBase, HasTarget, diskVars, proofVars
<1> QED BY Zenon, <1>1, <1>2, <1>3, <1>4, <1>5, <1>6 DEF NetNext

\* Steps of an RPC worker: loadtxoutset, activatesnapshot, stepbackgroundvalidation.
LEMMA RpcKeepsTypes ==
  ASSUME TypeInv, NEW t \in Rpc, RpcNext(t)
  PROVE  TypeInv'
<1> USE DEF TypeInv, TypeOK
<1>t. t \in Thread /\ Net \in Thread /\ t # Net
  BY Zenon, ValueTypes, ConfigAssumption
<1>1. ASSUME NEW f \in Snapshot, LoadStart(t, f) PROVE TypeInv'
  <2> DEFINE l == [NoLocal EXCEPT !.file = f]
  <2>1. l \in Local /\ "loading" \in Pc
    BY ZenonT(40), ValueTypes, ConfigAssumption DEF Local, View, Kind, Pc
  <2>2. Goto(t, "loading", l)
    BY <1>1 DEF LoadStart
  <2> HIDE DEF l
  <2>3. /\ pc' \in [Thread -> Pc] /\ loc' \in [Thread -> Local]
        /\ pc'[t] = "loading"
        /\ \A u \in Thread \ {t} : pc'[u] = pc[u] /\ loc'[u] = loc[u]
    BY Zenon, <2>1, <2>2, <1>t, GotoType
  <2>4. LoadStore \in {"snap", "reload"}
    BY DEF LoadStore
  <2>5. /\ cache' \in [Store -> View] /\ disk' \in [Store -> View]
        /\ dir' \in {"none", "snap", "reload"}
    BY Zenon, <1>1, <2>4, ValueTypes DEF LoadStart, Store
  <2>6. bg' \in Slot /\ bg'.tip = NoBlock /\ bg'.coins # "none" /\ bg.coins = "none"
    BY Zenon, <1>1, <2>4, ValueTypes DEF LoadStart, Slot, IdleSlot, Store
  <2>7. TypeOK'
    BY <1>1, <2>3, <2>5, <2>6 DEF LoadStart, chainVars, proofVars
  <2>8. BeforeActive'
    BY <1>1, <2>3, <2>6 DEF LoadStart, BeforeActive
  <2>9. StepsToBase' /\ HasTarget'
    BY <1>1, <1>t, <2>3 DEF LoadStart, StepsToBase, HasTarget, chainVars, proofVars
  <2> QED BY Zenon, <2>7, <2>8, <2>9
<1>2. ASSUME LoadFinish(t) PROVE TypeInv'
  <2> DEFINE f == loc[t].file
  <2>1. f \in View /\ Digest(f) \in Hash
    BY Zenon, <1>t, ValueTypes DEF Local
  <2>2. /\ cache' = [cache EXCEPT ![bg.coins] = f]
        /\ disk' = [disk EXCEPT ![bg.coins] = f]
        /\ bg' = [bg EXCEPT !.tip = IF idx[f.best] = "unknown" THEN NoBlock ELSE f.best,
                            !.base = f.best, !.hash = Digest(f)]
    BY <1>2 DEF LoadFinish
  <2> HIDE DEF f
  <2>3. cache' \in [Store -> View] /\ disk' \in [Store -> View]
    BY Zenon, <2>1, <2>2
  <2>4. bg' \in Slot
    BY Zenon, <2>1, <2>2 DEF Slot, View
  <2>5. /\ pc' \in [Thread -> Pc] /\ loc' \in [Thread -> Local]
        /\ pc'[t] = "idle"
        /\ \A u \in Thread \ {t} : pc'[u] = pc[u] /\ loc'[u] = loc[u]
    BY <1>2, <1>t, ReturnType DEF LoadFinish
  <2>6. TypeOK'
    BY <1>2, <2>3, <2>4, <2>5 DEF LoadFinish, chainVars, proofVars
  <2>7. BeforeActive'
    BY <1>2, <1>t, <2>5 DEF LoadFinish, BeforeActive
  <2>8. StepsToBase' /\ HasTarget'
    BY SMTT(40), <1>2, <1>t, <2>5 DEF LoadFinish, StepsToBase, HasTarget, chainVars, proofVars
  <2> QED BY Zenon, <2>6, <2>7, <2>8
<1>3. ASSUME LoadFail(t) PROVE TypeInv'
  BY ZenonT(40), <1>3, <1>t, ValueTypes
     DEF BeforeActive, StepsToBase, HasTarget, LoadFail, diskVars,
                                chainVars, proofVars, Goto, Return, Pc
<1>4. ASSUME ActivateCheck(t) PROVE TypeInv'
  BY ZenonT(40), <1>4, <1>t, ValueTypes
     DEF BeforeActive, StepsToBase, HasTarget, ActivateCheck, diskVars,
                                chainVars, proofVars, Goto, Pc
<1>5. ASSUME ActivateRefuse(t) PROVE TypeInv'
  BY ZenonT(40), <1>5, <1>t, ValueTypes
     DEF BeforeActive, StepsToBase, HasTarget, ActivateRefuse, diskVars,
                                chainVars, proofVars, Goto, Return, Pc
<1>6. ASSUME ActivateLocked(t) PROVE TypeInv'
  <2>1. SnapTip \in Block
    BY <1>6, <1>t DEF ActivateLocked, SnapTip, BeforeActive, Slot
  <2>2. SnapBase \in Block \cup {NoBlock} /\ SnapHash \in Hash
    BY DEF SnapBase, SnapHash, Slot
  <2>3. bg.coins \in Store
    BY <1>6 DEF ActivateLocked, Slot
  <2>4. /\ cache' = [cache EXCEPT ![bg.coins] = [cache[bg.coins] EXCEPT !.best = SnapTip]]
    BY <1>6 DEF ActivateLocked
  <2>5. [cache[bg.coins] EXCEPT !.best = SnapTip] \in View
    BY <2>1, <2>3 DEF View
  <2>6. cache' \in [Store -> View]
    BY Zenon, <2>4, <2>5
  <2>7. disk' \in [Store -> View]
    BY Zenon, <1>6, <2>6 DEF ActivateLocked, Flushed, Store
  <2>8. /\ bgStatus' \in {"running", "completed", "failed"}
        /\ bg' \in {IdleSlot, ParkedIbd(activeTip)}
    BY <1>6 DEF ActivateLocked
  <2>9. bgStatus' \in Status /\ bg' \in Slot
    BY Zenon, <2>8, ValueTypes DEF Status
  <2>10. Height[SnapTip] \in Int /\ Height[activeTip] \in Int
    BY <2>1, TreeAssumption
  <2>11. \E next \in {"idle", "stop"} : Persist(t, next, NoLocal)
    BY <1>6 DEF ActivateLocked
  <2>12. /\ pc' \in [Thread -> Pc] /\ loc' \in [Thread -> Local]
         /\ pc'[t] = "remove" /\ loc'[t].next \in {"idle", "stop"}
         /\ \A u \in Thread \ {t} : pc'[u] = pc[u] /\ loc'[u] = loc[u]
    BY ZenonT(40), <2>11, <1>t, PersistType, ValueTypes
  <2>13. TypeOK'
    BY <1>6, <2>1, <2>2, <2>3, <2>6, <2>7, <2>9, <2>10, <2>12 DEF ActivateLocked
  <2>14. BeforeActive'
    BY <1>6 DEF ActivateLocked, BeforeActive
  <2>15. \A u \in Thread : pc[u] \notin Locked
    BY SMTT(40), <1>6 DEF ActivateLocked, CsMainFree
  <2>16. StepsToBase' /\ HasTarget'
    BY Zenon, <1>t, <2>12, <2>15 DEF StepsToBase, HasTarget, Locked
  <2> QED BY <2>13, <2>14, <2>16
<1>7. ASSUME ActivateAbort(t) PROVE TypeInv'
  <2>1. idxDisk' \in [Block -> Stored] /\ disk' \in [Store -> View]
    BY Zenon, <1>7 DEF ActivateAbort, Flushed
  <2> QED BY Zenon, <1>7, <2>1, ForgetType DEF ActivateAbort
<1>8. ASSUME NEW n \in RpcBatch, StepCheck(t, n) PROVE TypeInv'
  <2> DEFINE l == [NoLocal EXCEPT !.left = n]
  <2>1. l \in Local /\ "step_lock" \in Pc
    BY Zenon, ValueTypes, ConfigAssumption DEF Local, Pc
  <2>2. Goto(t, "step_lock", l) /\ snapActive
    BY SMTT(40), <1>8 DEF StepCheck, ProofRunning
  <2> HIDE DEF l
  <2>3. /\ pc' \in [Thread -> Pc] /\ loc' \in [Thread -> Local]
        /\ pc'[t] = "step_lock" /\ loc'[t] = l
        /\ \A u \in Thread \ {t} : pc'[u] = pc[u] /\ loc'[u] = loc[u]
    BY Zenon, <1>t, <2>1, <2>2, GotoType
  <2> QED BY <1>8, <1>t, <2>2, <2>3
          DEF StepCheck, BeforeActive, StepsToBase, HasTarget, diskVars, chainVars, proofVars
<1> QED BY Zenon, <1>1, <1>2, <1>3, <1>4, <1>5, <1>6, <1>7, <1>8 DEF RpcNext

\* Settling the proof ends in the removal of the old state file.
LEMMA SettleType ==
  ASSUME TypeInv, NEW t \in Thread, Complete(t) \/ Fail(t)
  PROVE  /\ bgStatus' \in Status /\ bg' \in Slot
         /\ pc' \in [Thread -> Pc] /\ loc' \in [Thread -> Local]
         /\ pc'[t] = "remove" /\ loc'[t].next \in {"idle", "stop"}
         /\ \A u \in Thread \ {t} : pc'[u] = pc[u] /\ loc'[u] = loc[u]
<1>1. bgStatus' \in Status /\ bg' \in Slot
  BY Zenon, ValueTypes DEF TypeInv, TypeOK, Complete, Fail, Status
<1>2. \E next \in {"idle", "stop"} : Persist(t, next, NoLocal)
  BY SMTT(40) DEF Complete, Fail
<1> QED BY Zenon, <1>1, <1>2, PersistType, ValueTypes DEF TypeInv

\* Steps of the background proof and of saving its state.
LEMMA StepKeepsTypes ==
  ASSUME TypeInv, NEW t \in Thread, StepNext(t)
  PROVE  TypeInv'
<1> USE DEF TypeInv, TypeOK
<1>n. Net \in Thread
  BY Zenon, ValueTypes
<1>1. ASSUME StepLock(t) PROVE TypeInv'
  <2>1. UNCHANGED <<idx, diskVars, chainVars, cache, pcoins, snapActive, bgHeight, bgTarget,
                    base, expected, stopping, node>> /\ snapActive
    BY Zenon, <1>1 DEF StepLock, BeforeActive
  <2>2. CASE Fail(t)
    <3>1. /\ bgStatus' \in Status /\ bg' \in Slot
          /\ pc' \in [Thread -> Pc] /\ loc' \in [Thread -> Local]
          /\ pc'[t] = "remove" /\ loc'[t].next \in {"idle", "stop"}
          /\ \A u \in Thread \ {t} : pc'[u] = pc[u] /\ loc'[u] = loc[u]
      BY Zenon, <2>2, SettleType
    <3> QED BY ZenonT(40), <1>n, <2>1, <3>1
               DEF BeforeActive, StepsToBase, HasTarget, diskVars, chainVars
  <2>3. CASE base # NoBlock /\ Goto(t, "step_loop", loc[t]) /\ UNCHANGED <<bgStatus, bg>>
    <3>1. loc[t] \in Local /\ "step_loop" \in Pc
      BY SMTT(40) DEF Pc, Locked
    <3>2. /\ pc' \in [Thread -> Pc] /\ loc' \in [Thread -> Local]
          /\ pc'[t] = "step_loop"
          /\ \A u \in Thread \ {t} : pc'[u] = pc[u] /\ loc'[u] = loc[u]
      BY Zenon, <2>3, <3>1, GotoType
    <3> QED BY Zenon, <1>n, <2>1, <2>3, <3>2
            DEF BeforeActive, StepsToBase, HasTarget, diskVars, chainVars
  <2> QED BY Zenon, <1>1, <2>2, <2>3 DEF StepLock
<1>2. ASSUME StepIter(t) PROVE TypeInv'
  <2> DEFINE h == IF bg.tip = NoBlock THEN -1 ELSE Height[bg.tip]
             next == Ancestor(base, h + 1)
  <2>1. /\ pc[t] = "step_loop" /\ base \in Block /\ snapActive
        /\ UNCHANGED <<idxDisk, dir, dat, chainVars, pcoins, snapActive, bgTarget, base, expected,
                       stopping, node>>
    BY Zenon, <1>2 DEF StepIter, StepsToBase, BeforeActive
  <2>2. h \in Int /\ h >= -1 /\ Height[base] \in Nat
    BY SMTT(40), <2>1, TreeAssumption DEF Slot
  <2>3. h < Height[base] => next \in Block /\ Height[next] \in Int
    <3>1. ASSUME h < Height[base] PROVE h + 1 \in 0..Height[base]
      BY SMTT(40), <2>2, <3>1
    <3>2. ASSUME h < Height[base] PROVE next \in Block
      BY Zenon, <2>1, <3>1, <3>2, AncestorOnPath
    <3> QED BY SMTT(40), <3>2, TreeAssumption
  <2> DEFINE settled == /\ bgHeight' = h /\ (Complete(t) \/ Fail(t))
                        /\ UNCHANGED idx /\ disk' \in [Store -> View] /\ cache' \in [Store -> View]
  <2>4. ASSUME settled PROVE TypeInv'
    BY ZenonT(40), <1>n, <2>1, <2>2, <2>4, SettleType
       DEF BeforeActive, StepsToBase, HasTarget, chainVars
  <2>5. ASSUME /\ bgHeight' = h
               /\ IF bg.tip = base THEN CheckDigest(t) ELSE Fail(t) /\ UNCHANGED disk
               /\ UNCHANGED <<idx, cache>>
        PROVE  TypeInv'
    BY ZenonT(40), <2>4, <2>5 DEF CheckDigest, Flushed
  <2>6. ASSUME bgHeight' = h, Fail(t), UNCHANGED <<idx, cache, disk>>
        PROVE  TypeInv'
    BY Zenon, <2>4, <2>6
  <2>7. ASSUME /\ bgHeight' = h /\ bgStatus' = "waiting"
               /\ Persist(t, "idle", NoLocal)
               /\ UNCHANGED <<idx, coinVars, bg>>
        PROVE  TypeInv'
    <3>1. /\ pc' \in [Thread -> Pc] /\ loc' \in [Thread -> Local]
          /\ pc'[t] = "remove" /\ loc'[t].next = "idle"
          /\ \A u \in Thread \ {t} : pc'[u] = pc[u] /\ loc'[u] = loc[u]
      BY Zenon, <2>7, PersistType, ValueTypes
    <3> QED BY Zenon, <1>n, <2>1, <2>2, <2>7, <3>1
            DEF BeforeActive, StepsToBase, HasTarget, chainVars, coinVars, Status
  <2>8. ASSUME /\ bgHeight' = h
               /\ cache' = [cache EXCEPT ![bg.coins].kind = "mixed"]
               /\ Fail(t)
               /\ UNCHANGED <<idx, disk>>
        PROVE  TypeInv'
    <3>1. cache' = [cache EXCEPT ![bg.coins] = [cache[bg.coins] EXCEPT !.kind = "mixed"]]
      BY <2>8
    <3>2. bg.coins \in Store => [cache[bg.coins] EXCEPT !.kind = "mixed"] \in View
      BY SMTT(40) DEF View, Kind
    <3>3. cache' \in [Store -> View]
      BY Zenon, <3>1, <3>2
    <3> QED BY <2>4, <2>8, <3>3
  <2>9. ASSUME /\ h < Height[base]
               /\ idx' = WithUndo(idx, next)
               /\ cache' = [cache EXCEPT ![bg.coins] = ConnectView(@, next)]
               /\ bg' = [bg EXCEPT !.tip = next]
               /\ bgHeight' = Height[next] /\ bgStatus' = "running"
               /\ LET l == [loc[t] EXCEPT !.left = @ - 1, !.conn = @ + 1]
                  IN IF l.conn % FlushEvery = 0
                     THEN /\ disk' = [disk EXCEPT ![bg.coins] = cache'[bg.coins]]
                          /\ Persist(t, "step_loop", l)
                     ELSE Goto(t, "step_loop", l) /\ UNCHANGED disk,
               loc[t].left > 0
        PROVE  TypeInv'
    <3> DEFINE l == [loc[t] EXCEPT !.left = @ - 1, !.conn = @ + 1]
    <3>1. l \in Local /\ "step_loop" \in Pc
      <4>1. loc[t] \in Local /\ loc[t].left - 1 \in Nat /\ loc[t].conn + 1 \in Nat
        BY <2>9 DEF Local
      <4>2. l = [loc[t] EXCEPT !.left = loc[t].left - 1, !.conn = loc[t].conn + 1]
        BY <4>1 DEF Local
      <4> HIDE DEF l
      <4> QED BY Zenon, <4>1, <4>2 DEF Local, Pc, Locked
    <3>2. \/ Persist(t, "step_loop", l) /\ disk' = [disk EXCEPT ![bg.coins] = cache'[bg.coins]]
          \/ Goto(t, "step_loop", l) /\ UNCHANGED disk
      BY <2>9
    <3> HIDE DEF l
    <3>3. /\ pc' \in [Thread -> Pc] /\ loc' \in [Thread -> Local]
          /\ \A u \in Thread \ {t} : pc'[u] = pc[u] /\ loc'[u] = loc[u]
          /\ \/ pc'[t] = "step_loop"
             \/ pc'[t] = "remove"
      BY Zenon, <3>1, <3>2, GotoType, PersistType
    <3>4. next \in Block /\ Height[next] \in Int
      BY <2>3, <2>9
    <3> HIDE DEF next
    <3>5. idx' \in [Block -> Stored] /\ bg' \in Slot
      BY SMTT(40), <2>9, <3>4 DEF WithUndo, Stored, Slot
    <3>6. cache' \in [Store -> View]
      <4>1. cache' = [cache EXCEPT ![bg.coins] = ConnectView(cache[bg.coins], next)]
        BY <2>9
      <4>2. bg.coins \in Store => ConnectView(cache[bg.coins], next) \in View
        BY Zenon, <3>4, ValueTypes
      <4> QED BY Zenon, <4>1, <4>2
    <3>7. disk' \in [Store -> View]
      BY <3>2, <3>6
    <3> QED BY <1>n, <2>1, <2>9, <3>3, <3>4, <3>5, <3>6, <3>7
            DEF BeforeActive, StepsToBase, HasTarget, chainVars, Status
  <2> HIDE DEF h, next
  <2> QED
    <3>1. \/ /\ bgHeight' = h
             /\ IF bg.tip = base THEN CheckDigest(t) ELSE Fail(t) /\ UNCHANGED disk
             /\ UNCHANGED <<idx, cache>>
          \/ bgHeight' = h /\ Fail(t) /\ UNCHANGED <<idx, cache, disk>>
          \/ /\ bgHeight' = h /\ bgStatus' = "waiting"
             /\ Persist(t, "idle", NoLocal)
             /\ UNCHANGED <<idx, coinVars, bg>>
          \/ /\ bgHeight' = h
             /\ cache' = [cache EXCEPT ![bg.coins].kind = "mixed"]
             /\ Fail(t)
             /\ UNCHANGED <<idx, disk>>
          \/ /\ h < Height[base]
             /\ idx' = WithUndo(idx, next)
             /\ cache' = [cache EXCEPT ![bg.coins] = ConnectView(@, next)]
             /\ bg' = [bg EXCEPT !.tip = next]
             /\ bgHeight' = Height[next] /\ bgStatus' = "running"
             /\ LET l == [loc[t] EXCEPT !.left = @ - 1, !.conn = @ + 1]
                IN IF l.conn % FlushEvery = 0
                   THEN /\ disk' = [disk EXCEPT ![bg.coins] = cache'[bg.coins]]
                        /\ Persist(t, "step_loop", l)
                   ELSE Goto(t, "step_loop", l) /\ UNCHANGED disk
      BY <1>2, Zenon DEF StepIter, h, next
    <3>2. loc[t].left > 0
      BY Zenon, <1>2 DEF StepIter
    <3> QED BY Zenon, <2>5, <2>6, <2>7, <2>8, <2>9, <3>1, <3>2
<1>3. ASSUME StepEnd(t) PROVE TypeInv'
  <2>1. /\ UNCHANGED <<idx, idxDisk, dir, dat, chainVars, cache, pcoins, snapActive, bgHeight,
                       bgTarget, base, expected, stopping, node>>
        /\ snapActive
    BY Zenon, <1>3 DEF StepEnd, BeforeActive
  <2>2. CASE CheckDigest(t)
    <3>1. disk' \in [Store -> View] /\ (Complete(t) \/ Fail(t))
      BY Zenon, <2>2 DEF CheckDigest, Flushed
    <3>2. /\ bgStatus' \in Status /\ bg' \in Slot
          /\ pc' \in [Thread -> Pc] /\ loc' \in [Thread -> Local]
          /\ pc'[t] = "remove" /\ loc'[t].next \in {"idle", "stop"}
          /\ \A u \in Thread \ {t} : pc'[u] = pc[u] /\ loc'[u] = loc[u]
      BY Zenon, <3>1, SettleType
    <3> QED BY ZenonT(40), <1>n, <2>1, <3>1, <3>2
               DEF BeforeActive, StepsToBase, HasTarget, chainVars
  <2>3. CASE Return(t) /\ UNCHANGED <<disk, bgStatus, bg>>
    BY ZenonT(40), <1>n, <2>1, <2>3, ReturnType DEF BeforeActive, StepsToBase, HasTarget, chainVars
  <2> QED BY Zenon, <1>3, <2>2, <2>3 DEF StepEnd
<1>4. ASSUME PersistRemove(t) PROVE TypeInv'
  BY Zenon, <1>4, <1>n, ValueTypes
     DEF BeforeActive, StepsToBase, HasTarget, PersistRemove, diskVars,
                                chainVars, proofVars, Goto, Pc, Locked
<1>5. ASSUME PersistRename(t) PROVE TypeInv'
  <2>1. /\ dat' = [base |-> base, hash |-> expected, status |-> bgStatus]
        /\ UNCHANGED <<idxDisk, disk, dir>> /\ snapActive
    BY <1>5 DEF PersistRename, BeforeActive
  <2>2. dat' \in Dat
    BY Zenon, <2>1 DEF Dat
  <2>3. CASE node' = "down" /\ ForgetMemory
    BY Zenon, <2>1, <2>2, <2>3, ForgetType
  <2>4. CASE /\ stopping' = (stopping \/ loc[t].next = "stop")
             /\ IF loc[t].next = "step_loop"
                THEN Goto(t, "step_loop", [loc[t] EXCEPT !.next = "idle"])
                ELSE Return(t)
             /\ UNCHANGED <<idx, chainVars, cache, pcoins, snapActive, bg, proofVars, node>>
    <3> DEFINE l == [loc[t] EXCEPT !.next = "idle"]
    <3>1. l \in Local /\ "step_loop" \in Pc
      BY DEF Local, Pc, Locked
    <3>2. (Goto(t, "step_loop", l) /\ loc[t].next = "step_loop") \/ Return(t)
      BY <2>4
    <3> HIDE DEF l
    <3>3. /\ pc' \in [Thread -> Pc] /\ loc' \in [Thread -> Local]
          /\ \A u \in Thread \ {t} : pc'[u] = pc[u] /\ loc'[u] = loc[u]
          /\ pc'[t] = "idle" \/ (pc'[t] = "step_loop" /\ loc[t].next = "step_loop")
      <4>1. CASE Goto(t, "step_loop", l) /\ loc[t].next = "step_loop"
        BY Zenon, <3>1, <4>1, GotoType
      <4>2. CASE Return(t)
        BY Zenon, <4>2, ReturnType
      <4> QED BY ZenonT(40), <3>2, <4>1, <4>2
    <3>4. pc[t] = "rename"
      BY SMTT(40), <1>5 DEF PersistRename
    <3> QED BY <1>n, <2>1, <2>2, <2>4, <3>3, <3>4
            DEF BeforeActive, StepsToBase, HasTarget, chainVars, proofVars
  <2> QED BY <1>5, <2>3, <2>4 DEF PersistRename
<1> QED BY Zenon, <1>1, <1>2, <1>3, <1>4, <1>5 DEF StepNext

\* Starting, stopping and what the environment may do at any time.
LEMMA MainKeepsTypes ==
  ASSUME TypeInv, MainNext \/ EnvNext
  PROVE  TypeInv'
<1> USE DEF TypeInv, TypeOK
<1>n. Net \in Thread /\ Main \in Thread /\ Net # Main
  BY Zenon, ValueTypes, ConfigAssumption
<1>1. ASSUME Interrupt PROVE TypeInv'
  BY ZenonT(40), <1>1, <1>n, ValueTypes
     DEF BeforeActive, StepsToBase, HasTarget, Interrupt, diskVars,
                                chainVars, proofVars, Goto, Pc
<1>2. ASSUME Shutdown PROVE TypeInv'
  <2>1. /\ idxDisk' \in [Block -> Stored] /\ disk' \in [Store -> View]
        /\ UNCHANGED <<dir, dat>>
    BY Zenon, <1>2 DEF Shutdown, Flushed
  <2>2. CASE node' = "down" /\ ForgetMemory
    BY Zenon, <2>1, <2>2, ForgetType
  <2>3. CASE /\ snapActive /\ Persist(Main, "down", NoLocal)
             /\ UNCHANGED <<idx, chainVars, cache, pcoins, snapActive, bg, proofVars, stopping,
                            node>>
    <3>1. /\ pc' \in [Thread -> Pc] /\ loc' \in [Thread -> Local]
          /\ pc'[Main] = "remove" /\ loc'[Main].next = "down"
          /\ \A u \in Thread \ {Main} : pc'[u] = pc[u] /\ loc'[u] = loc[u]
      BY Zenon, <1>n, <2>3, PersistType, ValueTypes
    <3> QED BY ZenonT(40), <1>n, <2>1, <2>3, <3>1
            DEF BeforeActive, StepsToBase, HasTarget, chainVars, proofVars
  <2> QED BY Zenon, <1>2, <2>2, <2>3 DEF Shutdown
<1>3. ASSUME StartFails PROVE TypeInv'
  BY Zenon, <1>3
     DEF BeforeActive, StepsToBase, HasTarget, StartFails, diskVars, chainVars, proofVars
<1>4. ASSUME StartPlain PROVE TypeInv'
  <2> DEFINE l == [NoLocal EXCEPT !.boot = TRUE]
  <2>1. l \in Local /\ "abc" \in Pc
    BY Zenon, ValueTypes DEF Local, Pc
  <2>2. Goto(Net, "abc", l)
    BY SMTT(40), <1>4 DEF StartPlain
  <2> HIDE DEF l
  <2>3. /\ pc' \in [Thread -> Pc] /\ loc' \in [Thread -> Local]
        /\ pc'[Net] = "abc"
        /\ \A u \in Thread \ {Net} : pc'[u] = pc[u] /\ loc'[u] = loc[u]
    BY Zenon, <1>n, <2>1, <2>2, GotoType
  <2>4. activeTip' \in Block /\ cand' \in SUBSET Block
    BY <1>4 DEF StartPlain, IbdIndexed, LinkedCandidates, Store, View
  <2>5. TypeOK'
    BY Zenon, <1>4, <2>3, <2>4, ValueTypes DEF StartPlain, proofVars
  <2> QED BY <1>4, <2>3, <2>5 DEF StartPlain, BeforeActive, StepsToBase, HasTarget, proofVars
<1>5. ASSUME StartRestored PROVE TypeInv'
  <2> DEFINE ibdTip == IF IbdIndexed THEN disk["ibd"].best ELSE NoBlock
             l == [NoLocal EXCEPT !.boot = TRUE]
  <2>1. dir \in Store /\ disk[dir] \in View /\ disk[dir].best \in Block /\ dat.base \in Block
    <3>1. dir \in Store /\ disk[dir] \in View
      BY <1>5 DEF StartRestored, Resuming, Store
    <3>2. disk[dir].best \in Block
      BY SMTT(40), <1>5, <3>1 DEF StartRestored, RestoreAccepts, View
    <3> QED BY <1>5, <3>1, <3>2, TreeAssumption DEF StartRestored, RestoreAccepts
  <2>2. ibdTip \in Block \cup {NoBlock} /\ (IbdIndexed => ibdTip \in Block)
    BY DEF IbdIndexed, Store, View
  <2>3. cache' \in [Store -> View] /\ disk' \in [Store -> View] /\ dir' = "snap"
    BY Zenon, <1>5, <2>1 DEF StartRestored
  <2>4. activeTip' \in Block /\ pcoins' \in Store /\ snapActive' = TRUE
    BY <1>5, <2>1 DEF StartRestored, Store
  <2>5. /\ base' = dat.base /\ expected' \in Hash /\ bgTarget' \in Int
    BY <1>5, <2>1, TreeAssumption DEF StartRestored, Dat
  <2>6. /\ cand' \in SUBSET Block
        /\ bgHeight' = IF IbdIndexed THEN Height[ibdTip] ELSE -1
        /\ bgStatus' \in {"completed", "running", dat.status}
        /\ bg' \in {IdleSlot, ParkedIbd(ibdTip)}
        /\ \E p \in {"remove", "idle"} : pc' = [pc EXCEPT ![Net] = "abc", ![Main] = p]
        /\ loc' = [loc EXCEPT ![Net] = l]
    BY <1>5, Zenon DEF StartRestored, LinkedCandidates
  <2>7. bgHeight' \in Int
    BY <2>2, <2>6, TreeAssumption
  <2>8. bgStatus' \in Status /\ bg' \in Slot
    <3>1. dat.status \in Status /\ "completed" \in Status /\ "running" \in Status
      BY SMTT(40) DEF Status, Dat
    <3>2. IdleSlot \in Slot /\ ParkedIbd(ibdTip) \in Slot
      BY Zenon, <2>2, ValueTypes
    <3> HIDE DEF ibdTip
    <3> QED BY <2>6, <3>1, <3>2
  <2>9. l \in Local
    BY ZenonT(40), ValueTypes DEF Local
  <2> HIDE DEF l, ibdTip
  <2>10. /\ pc' \in [Thread -> Pc] /\ loc' \in [Thread -> Local]
         /\ pc'[Net] = "abc"
    BY Zenon, <1>n, <2>6, <2>9 DEF Pc, Locked
  <2>11. node' = "up" /\ UNCHANGED <<idx, idxDisk, dat, stopping>>
    BY <1>5 DEF StartRestored
  <2>12. TypeOK'
    BY Zenon, <2>1, <2>3, <2>4, <2>5, <2>6, <2>7, <2>8, <2>10, <2>11
  <2>13. BeforeActive' /\ StepsToBase' /\ HasTarget'
    BY Zenon, <2>1, <2>4, <2>5, <2>10, TreeAssumption DEF BeforeActive, StepsToBase, HasTarget
  <2> QED BY Zenon, <2>12, <2>13
<1>6. ASSUME FlushIndex PROVE TypeInv'
  BY ZenonT(40), <1>6
     DEF BeforeActive, StepsToBase, HasTarget, FlushIndex, chainVars, coinVars, proofVars
<1>7. ASSUME FlushStateToDisk PROVE TypeInv'
  BY Zenon, <1>7
     DEF BeforeActive, StepsToBase, HasTarget, FlushStateToDisk, chainVars, proofVars, Flushed
<1>8. ASSUME NEW b \in Block, Prune(b) PROVE TypeInv'
  BY ZenonT(40), <1>8
     DEF BeforeActive, StepsToBase, HasTarget, Prune, Pruned, chainVars, proofVars, Stored, Flushed
<1>9. ASSUME RequestShutdown PROVE TypeInv'
  BY ZenonT(40), <1>9
     DEF BeforeActive, StepsToBase, HasTarget, RequestShutdown, diskVars, chainVars, proofVars
<1>10. ASSUME Crash PROVE TypeInv'
  BY Zenon, <1>10, ForgetType DEF Crash, diskVars
<1>11. ASSUME OperatorReset PROVE TypeInv'
  BY Zenon, <1>11, ValueTypes
     DEF BeforeActive, StepsToBase, HasTarget, OperatorReset, chainVars, proofVars
<1> QED BY ZenonT(40), <1>1, <1>2, <1>3, <1>4, <1>5, <1>6, <1>7, <1>8, <1>9, <1>10, <1>11
           DEF MainNext, EnvNext

\* The first state of a fresh data directory.
LEMMA InitTypes == Init => TypeInv
<1> SUFFICES ASSUME Init PROVE TypeInv
  OBVIOUS
<1>1. \A t \in Thread : pc[t] = "idle"
  BY SMTT(40) DEF Init
<1>2. cache \in [Store -> View] /\ disk \in [Store -> View]
  BY Zenon, ValueTypes DEF Init
<1>3. pc \in [Thread -> Pc] /\ loc \in [Thread -> Local]
  BY Zenon, ValueTypes DEF Init, Pc
<1>4. idx \in [Block -> Stored] /\ idxDisk \in [Block -> Stored] /\ cand \in SUBSET Block
  BY Zenon, ValueTypes DEF Init, Stored
<1>5. bgHeight \in Int /\ bgTarget \in Int
  BY DEF Init
<1>6. TypeOK
  BY Zenon, <1>2, <1>3, <1>4, <1>5, ValueTypes DEF Init, TypeOK, Store, Status
<1>7. BeforeActive /\ StepsToBase /\ HasTarget
  BY Zenon, <1>1, ValueTypes DEF BeforeActive, StepsToBase, HasTarget
<1> QED BY <1>6, <1>7 DEF TypeInv

\* TypeInv is inductive.
LEMMA TypeInvStep == TypeInv /\ [Next]_vars => TypeInv'
<1> SUFFICES ASSUME TypeInv, [Next]_vars PROVE TypeInv'
  OBVIOUS
<1>1. CASE UNCHANGED vars
  BY ZenonT(40), <1>1 DEF TypeInv, TypeOK, BeforeActive, StepsToBase, HasTarget, vars
<1>2. CASE Next
  BY <1>2, RpcKeepsTypes, StepKeepsTypes, NetKeepsTypes, MainKeepsTypes DEF Next
<1> QED BY <1>1, <1>2

\* Throughout loading, activation, stepping, crashes and restarts, with any number
\* of RPC workers, every variable keeps the range the code gives it; in particular
\* chainActive always has a tip.
THEOREM TypeCorrect == Spec => []TypeOK
<1>1. Spec => []TypeInv
  BY InitTypes, TypeInvStep, PTL DEF Spec
<1>2. TypeInv => TypeOK
  BY DEF TypeInv
<1> QED BY <1>1, <1>2, PTL

-----------------------------------------------------------------------------
(* What a validated snapshot is worth *)

\* One RPC call at a time, on LevelDB.
Sequential == Engine = "leveldb" /\ \A t, u \in Rpc : t = u

-----------------------------------------------------------------------------
(* The inductive invariant *)

\* The UTXO set of the block it names.
Intact(v) == v.kind \in SoundKind /\ v.at = v.best
\* If the digest h could be that of a true set, then v is one.
Vouches(v, h) == h.kind = "true" /\ h.at = h.best => Intact(v)
\* A digest taken of a snapshot file with base b.
Claimed(b, h) == b \in Block /\ h.best = b /\ h.kind \in {"true", "outs"}
\* A view full validation may have built: the true set of a valid block, unless a
\* rejected block has left it half updated.
Built(v) ==
  /\ v.kind = "true" \/ (v.kind = "mixed" /\ Invalid # {})
  /\ v.kind = "true" => v.at = v.best /\ v.at \in Block /\ Path[v.at] \cap Invalid = {}

\* cs_main is held by one thread at most.
MutualExclusion == \A t, u \in Thread : pc[t] \in Locked /\ pc[u] \in Locked => t = u

\* Only RPC workers load and activate.
Callers == \A t \in Thread \ Rpc : pc[t] \notin {"loading", "act_lock"}

\* Nothing runs in a process that is down.
Downtime ==
  ~Up => /\ ~snapActive /\ bg.coins = "none" /\ bg.base = NoBlock /\ cache = disk
         /\ \A t \in Thread : pc[t] = "idle" /\ loc[t] = NoLocal

\* A stepper in its loop works on the parked IBD coins.
StepsOnIbd ==
  \A t \in Thread :
    \/ pc[t] = "step_loop"
    \/ pc[t] \in {"remove", "rename"} /\ loc[t].next = "step_loop"
    => bg.coins = "ibd"

\* Before activation: the IBD chainstate is active and a snapshot may be loaded.
Plain ==
  ~snapActive =>
    /\ pcoins = "ibd" /\ bgStatus = "none"
    /\ bg.coins \in {"none", "snap"}
    /\ Up => dat = NoDat
    /\ \A t \in Thread : pc[t] = "loading" => loc[t].file \in Snapshot /\ bg.base = NoBlock
    /\ \A t \in Thread : pc[t] = "act_lock" => bg.base # NoBlock
    /\ bg.coins = "snap" => dir = "snap"
    /\ bg.base # NoBlock =>
         /\ bg.coins = "snap" /\ Claimed(bg.base, bg.hash) /\ bg.tip \in {NoBlock, bg.base}
         /\ cache["snap"].best = bg.base
         /\ Vouches(cache["snap"], bg.hash) /\ Vouches(disk["snap"], bg.hash)

\* After it: the snapshot is active, the IBD coins are parked, and the saved
\* session is the live one.
Assumed ==
  snapActive =>
    /\ pcoins = "snap" /\ bg.coins \in {"none", "ibd"} /\ dir = "snap"
    /\ \A t \in Thread : pc[t] \notin {"loading", "act_lock"}
    /\ Claimed(base, expected)
    /\ Vouches(cache["snap"], expected) /\ Vouches(disk["snap"], expected)
    /\ dat = NoDat \/ (dat.base = base /\ dat.hash = expected)
    /\ bgStatus = "completed" => Honest(base, expected)

\* What a restart will find.
Saved ==
  /\ dir \in {"none", "snap"}
  /\ dat # NoDat => /\ dir = "snap" /\ Claimed(dat.base, dat.hash)
                    /\ Vouches(disk["snap"], dat.hash)
                    /\ dat.status = "completed" => Honest(dat.base, dat.hash)

\* chainstate/ is only ever written by full validation.
IbdBuilt == Built(cache["ibd"]) /\ Built(disk["ibd"])

ProofInv ==
  /\ TypeInv /\ MutualExclusion /\ Callers /\ Downtime /\ StepsOnIbd /\ CoinsMatchTip
  /\ Plain /\ Assumed /\ Saved /\ IbdBuilt

-----------------------------------------------------------------------------
(* Coins *)

\* The digest of coins that full validation built equals the claim of a session
\* only if the claim is honest (StepBackgroundValidation's comparison).
LEMMA MatchIsProof ==
  ASSUME NEW v \in View, Built(v), NEW b, NEW h \in Hash, Claimed(b, h), Digest(v) = h
  PROVE  Honest(b, h)
<1>1. v.kind = "true"
  BY DEF Built, Claimed, Digest, View
<1>2. h.best = v.best /\ h.at = v.at /\ h.kind = "true"
  BY <1>1 DEF Digest, View
<1>3. h = Digest(TrueView(b))
  BY <1>1, <1>2 DEF Claimed, Built, Digest, TrueView, View, Hash
<1> QED BY Zenon, <1>1, <1>2, <1>3 DEF Honest, Built, Claimed

\* A digest that is honest vouches for an intact set.
LEMMA HonestVouches ==
  ASSUME NEW b, NEW h, Honest(b, h), NEW v, Vouches(v, h)
  PROVE  Intact(v)
<1>1. h.kind = "true" /\ h.at = h.best
  BY DEF Honest, Digest, TrueView
<1> QED BY <1>1 DEF Vouches

\* Connecting the next block keeps a built view built, and an intact one intact.
LEMMA ConnectKeeps ==
  ASSUME NEW v \in View, NEW b \in Block, Parent[b] = v.best, TRUE \in Connects(v, b)
  PROVE  /\ ConnectView(v, b).best = b
         /\ Built(v) => Built(ConnectView(v, b))
         /\ Intact(v) => Intact(ConnectView(v, b))
<1>1. ConnectView(v, b).best = b
  BY DEF ConnectView
<1>2. ASSUME Built(v) PROVE Built(ConnectView(v, b))
  <2>1. CASE v.kind = "mixed"
    BY <1>2, <2>1 DEF ConnectView, Built
  <2>2. CASE v.kind = "true"
    <3>1. v.at = Parent[b] /\ v.at \in Block /\ Path[v.at] \cap Invalid = {}
      BY <1>2, <2>2 DEF Built
    <3>2. b \notin Invalid
      BY Zenon, <2>2, <3>1 DEF Connects
    <3>3. b # Genesis
      BY <3>1, TreeAssumption
    <3>4. Path[b] \cap Invalid = {}
      BY <3>1, <3>2, <3>3, TreeAssumption
    <3> QED BY <2>2, <3>1, <3>4 DEF ConnectView, Built
  <2> QED BY <1>2, <2>1, <2>2 DEF Built
<1>3. ASSUME Intact(v) PROVE Intact(ConnectView(v, b))
  BY <1>3 DEF Intact, ConnectView
<1> QED BY <1>1, <1>2, <1>3

\* Disconnecting the tip does, too.
LEMMA DisconnectKeeps ==
  ASSUME NEW v \in View, NEW b \in Block, v.best = b, Parent[b] \in Block
  PROVE  /\ DisconnectView(v, b).best = Parent[b]
         /\ Built(v) => Built(DisconnectView(v, b))
         /\ Intact(v) => Intact(DisconnectView(v, b))
<1>1. DisconnectView(v, b).best = Parent[b]
  BY DEF DisconnectView
<1>2. ASSUME Built(v) PROVE Built(DisconnectView(v, b))
  <2>1. Path[Parent[b]] \subseteq Path[b]
    BY TreeAssumption
  <2> QED BY <1>2, <2>1 DEF Built, DisconnectView
<1>3. ASSUME Intact(v) PROVE Intact(DisconnectView(v, b))
  BY <1>3 DEF Intact, DisconnectView
<1> QED BY <1>1, <1>2, <1>3

-----------------------------------------------------------------------------
(* Kinds of steps *)

\* Thread t alone moves, to a place outside loading and activation; it takes
\* cs_main only when it is free, and it steps on parked coins only.
Moves(t) ==
  /\ \A u \in Thread \ {t} : pc'[u] = pc[u] /\ loc'[u] = loc[u]
  /\ pc'[t] \notin {"loading", "act_lock"}
  /\ pc'[t] \in Locked => pc[t] \in Locked \/ CsMainFree
  /\ \/ pc'[t] = "step_loop"
     \/ pc'[t] \in {"remove", "rename"} /\ loc'[t].next = "step_loop"
     => bg'.coins = "ibd"

\* A step that only moves a thread.
LEMMA MoveKeeps ==
  ASSUME ProofInv, TypeInv', NEW t \in Thread, Up, Moves(t),
         UNCHANGED <<cache, disk, dir, dat, activeTip, pcoins, snapActive, bg, bgStatus, base,
                     expected, node>>
  PROVE  ProofInv'
<1>1. MutualExclusion' /\ Callers'
  BY DEF ProofInv, MutualExclusion, Callers, Moves, CsMainFree
<1>2. StepsOnIbd'
  BY DEF ProofInv, StepsOnIbd, Moves
<1>3. Downtime' /\ CoinsMatchTip' /\ Saved' /\ IbdBuilt'
  BY DEF ProofInv, Downtime, CoinsMatchTip, Saved, IbdBuilt, Up
<1>4. Plain'
  BY DEF ProofInv, Plain, Moves, Up
<1>5. Assumed'
  BY DEF ProofInv, Assumed, Moves
<1> QED BY <1>1, <1>2, <1>3, <1>4, <1>5 DEF ProofInv

\* The fields of a record that is saved for the snapshot chainstate.
LEMMA DatFields ==
  ASSUME NEW b, NEW h, NEW s, NEW d, d = [base |-> b, hash |-> h, status |-> s]
  PROVE  d.base = b /\ d.hash = h /\ d.status = s
OBVIOUS

\* A step of the proof, of a save or of a flush, during a session.
LEMMA SessionKeeps ==
  ASSUME ProofInv, TypeInv', NEW t \in Thread, Up, snapActive, Moves(t),
         UNCHANGED <<dir, activeTip, pcoins, snapActive, base, expected, node>>,
         cache'["snap"] = cache["snap"], Built(cache'["ibd"]), Built(disk'["ibd"]),
         Vouches(disk'["snap"], expected),
         bg'.coins = bg.coins \/ (bg'.coins = "none" /\ pc[t] \in Locked),
         dat' \in {dat, NoDat} \/ dat' = [base |-> base, hash |-> expected, status |-> bgStatus],
         bgStatus' = "completed" => Honest(base, expected)
  PROVE  ProofInv'
<1>1. MutualExclusion' /\ Callers'
  BY DEF ProofInv, MutualExclusion, Callers, Moves, CsMainFree
<1>2. StepsOnIbd'
  BY DEF ProofInv, StepsOnIbd, MutualExclusion, Moves, Locked
<1>3. Downtime' /\ Plain' /\ CoinsMatchTip' /\ IbdBuilt'
  BY DEF ProofInv, Assumed, Downtime, Plain, CoinsMatchTip, IbdBuilt, Up
<1>4. Assumed'
  <2>1. /\ pcoins = "snap" /\ bg.coins \in {"none", "ibd"} /\ dir = "snap"
        /\ \A u \in Thread : pc[u] \notin {"loading", "act_lock"}
        /\ Claimed(base, expected) /\ Vouches(cache["snap"], expected)
        /\ dat = NoDat \/ (dat.base = base /\ dat.hash = expected)
    BY Zenon DEF ProofInv, Assumed
  <2>2. \A u \in Thread : pc'[u] \notin {"loading", "act_lock"}
    BY Zenon, <2>1 DEF Moves
  <2>3. dat' = NoDat \/ (dat'.base = base /\ dat'.hash = expected)
    <3>1. CASE dat' \in {dat, NoDat}
      BY ZenonT(30), <2>1, <3>1
    <3>2. CASE dat' = [base |-> base, hash |-> expected, status |-> bgStatus]
      BY ZenonT(30), <3>2, DatFields
    <3> QED BY Zenon, <3>1, <3>2
  <2>4. bg'.coins \in {"none", "ibd"}
    BY Zenon, <2>1
  <2> QED BY Zenon, <2>1, <2>2, <2>3, <2>4 DEF Assumed
<1>5. Saved'
  <2>1. /\ dir = "snap" /\ Claimed(base, expected)
        /\ bgStatus = "completed" => Honest(base, expected)
        /\ dat # NoDat => /\ dat.base = base /\ dat.hash = expected
                          /\ dat.status = "completed" => Honest(dat.base, dat.hash)
    BY Zenon DEF ProofInv, Assumed, Saved
  <2>2. dat' # NoDat => /\ dat'.base = base /\ dat'.hash = expected
                        /\ dat'.status = "completed" => Honest(base, expected)
    <3>1. CASE dat' \in {dat, NoDat}
      BY ZenonT(30), <2>1, <3>1
    <3>2. CASE dat' = [base |-> base, hash |-> expected, status |-> bgStatus]
      BY ZenonT(30), <2>1, <3>2, DatFields
    <3> QED BY Zenon, <3>1, <3>2
  <2> QED BY Zenon, <2>1, <2>2 DEF Saved
<1> QED BY <1>1, <1>2, <1>3, <1>4, <1>5 DEF ProofInv

\* The end of the process, by a stop or a crash.
LEMMA ForgetKeeps ==
  ASSUME ProofInv, TypeInv', ForgetMemory, node' = "down", Built(disk'["ibd"]), Saved'
  PROVE  ProofInv'
<1>1. \A t \in Thread : pc'[t] = "idle" /\ loc'[t] = NoLocal
  BY DEF ForgetMemory
<1>2. MutualExclusion' /\ Callers' /\ StepsOnIbd'
  BY <1>1 DEF MutualExclusion, Callers, StepsOnIbd, Locked
<1>3. Downtime'
  BY <1>1 DEF ForgetMemory, Downtime, IdleSlot
<1>4. Plain' /\ Assumed'
  BY <1>1 DEF ForgetMemory, Plain, Assumed, IdleSlot, Up
<1>5. CoinsMatchTip' /\ IbdBuilt'
  BY DEF ForgetMemory, CoinsMatchTip, IbdBuilt, Up
<1> QED BY <1>2, <1>3, <1>4, <1>5 DEF ProofInv

\* A step that moves no thread and touches neither coins nor the session.
LEMMA StayKeeps ==
  ASSUME ProofInv, TypeInv', Up,
         UNCHANGED <<cache, disk, dir, dat, activeTip, pcoins, snapActive, bg, bgStatus, base,
                     expected, node, pc, loc>>
  PROVE  ProofInv'
<1>1. MutualExclusion' /\ Callers' /\ StepsOnIbd'
  BY DEF ProofInv, MutualExclusion, Callers, StepsOnIbd
<1>2. Downtime' /\ CoinsMatchTip' /\ Saved' /\ IbdBuilt'
  BY DEF ProofInv, Downtime, CoinsMatchTip, Saved, IbdBuilt, Up
<1>3. Plain' /\ Assumed'
  BY Zenon DEF ProofInv, Plain, Assumed, Up
<1> QED BY <1>1, <1>2, <1>3 DEF ProofInv

-----------------------------------------------------------------------------
(* Every action keeps ProofInv *)

\* Headers, blocks and ActivateBestChain: blocks are connected to, and removed
\* from, whichever coins are active, and their label follows the tip.
LEMMA NetKeepsProof ==
  ASSUME ProofInv, TypeInv', NetNext
  PROVE  ProofInv'
<1>n. Net \in Thread /\ TypeInv /\ TypeOK /\ pc' \in [Thread -> Pc]
  BY ZenonT(40), ValueTypes DEF ProofInv, TypeInv, TypeOK
<1>1. ASSUME NEW b \in Block, ReceiveHeader(b) PROVE ProofInv'
  BY Zenon, <1>1, StayKeeps DEF ReceiveHeader, Serving, diskVars, chainVars, proofVars
<1>2. ASSUME NEW b \in Block, ReceiveBlock(b) PROVE ProofInv'
  <2>1. pc'[Net] = "abc" /\ Up /\ \A u \in Thread \ {Net} : pc'[u] = pc[u] /\ loc'[u] = loc[u]
    BY <1>2, <1>n DEF ReceiveBlock, Serving, Goto, TypeOK
  <2>2. Moves(Net)
    BY <2>1 DEF Moves, Locked
  <2> QED BY <1>2, <1>n, <2>1, <2>2, MoveKeeps DEF ReceiveBlock, diskVars, proofVars
<1>3. ASSUME AbcRound PROVE ProofInv'
  <2>1. /\ pc'[Net] \in {"idle", "abc_step"} /\ Up /\ CsMainFree
        /\ \A u \in Thread \ {Net} : pc'[u] = pc[u] /\ loc'[u] = loc[u]
    BY <1>3, <1>n DEF AbcRound, Return, Goto, TypeOK
  <2>2. Moves(Net)
    BY <2>1 DEF Moves, Locked
  <2> QED BY <1>3, <1>n, <2>1, <2>2, MoveKeeps DEF AbcRound, diskVars, proofVars
<1>4. ASSUME AutoStepCheck PROVE ProofInv'
  <2>1. /\ pc'[Net] \in {"idle", "step_lock"} /\ Up
        /\ \A u \in Thread \ {Net} : pc'[u] = pc[u] /\ loc'[u] = loc[u]
    BY <1>4, <1>n DEF AutoStepCheck, Return, Goto, TypeOK
  <2>2. Moves(Net)
    BY <2>1 DEF Moves, Locked
  <2> QED BY <1>4, <1>n, <2>1, <2>2, MoveKeeps DEF AutoStepCheck, diskVars, chainVars, proofVars
<1> DEFINE advanced(v) ==
      /\ activeTip' = v.best /\ cache' = [cache EXCEPT ![pcoins] = v]
      /\ Built(cache[pcoins]) => Built(v)
      /\ Intact(cache[pcoins]) => Intact(v)
<1>5. ASSUME NEW v \in View, advanced(v), Up, Moves(Net),
             UNCHANGED <<disk, dir, dat, pcoins, snapActive, bg, bgStatus, base, expected, node>>
      PROVE  ProofInv'
  <2>1. pcoins \in Store /\ cache \in [Store -> View]
    BY <1>n DEF TypeOK
  <2>2. cache'[pcoins] = v /\ \A s \in Store \ {pcoins} : cache'[s] = cache[s]
    BY <1>5, <2>1
  <2>3. MutualExclusion' /\ Callers' /\ StepsOnIbd'
    BY Zenon, <1>5 DEF ProofInv, MutualExclusion, Callers, StepsOnIbd, Moves, CsMainFree
  <2>4. CoinsMatchTip' /\ Downtime' /\ Saved'
    BY <1>5, <2>2 DEF ProofInv, CoinsMatchTip, Downtime, Saved, Up
  <2>5. CASE snapActive
    <3>1. pcoins = "snap" /\ cache'["snap"] = v /\ cache'["ibd"] = cache["ibd"]
      BY Zenon, <2>2, <2>5 DEF ProofInv, Assumed, Store
    <3>2. Plain' /\ IbdBuilt'
      BY Zenon, <1>5, <2>5, <3>1 DEF ProofInv, Plain, IbdBuilt
    <3>3. Vouches(cache'["snap"], expected)
      BY Zenon, <1>5, <2>5, <3>1 DEF ProofInv, Assumed, Vouches
    <3>4. Assumed'
      BY Zenon, <1>5, <2>5, <3>1, <3>3 DEF ProofInv, Assumed, Moves
    <3> QED BY <2>3, <2>4, <3>2, <3>4 DEF ProofInv
  <2>6. CASE ~snapActive
    <3>1. pcoins = "ibd" /\ cache'["ibd"] = v /\ cache'["snap"] = cache["snap"]
      BY SMTT(40), <2>2, <2>6 DEF ProofInv, Plain, Store
    <3>2. Assumed' /\ IbdBuilt'
      BY Zenon, <1>5, <2>6, <3>1 DEF ProofInv, Assumed, IbdBuilt
    <3>3. Plain'
      BY Zenon, <1>5, <2>6, <3>1 DEF ProofInv, Plain, Moves, Up
    <3> QED BY <2>3, <2>4, <3>2, <3>3 DEF ProofInv
  <2> QED BY <2>5, <2>6
<1>6. ASSUME AbcDisconnect PROVE ProofInv'
  <2>1. /\ Up /\ pc[Net] = "abc_step" /\ loc[Net].most \in Block
        /\ activeTip \in Block /\ activeTip \notin Path[loc[Net].most]
        /\ UNCHANGED <<disk, dir, dat, pcoins, snapActive, bg, bgStatus, base, expected, node>>
    BY Zenon, <1>6, <1>n DEF AbcDisconnect, TypeInv, TypeOK, HasTarget, diskVars, proofVars
  <2>2. /\ pc'[Net] \in {"idle", "abc", "abc_step", "step_check"}
        /\ \A u \in Thread \ {Net} : pc'[u] = pc[u] /\ loc'[u] = loc[u]
    BY Zenon, <1>6, <1>n, <2>1 DEF AbcDisconnect, AbcError, AbcRoundEnd, Return, Goto, TypeOK
  <2>3. Moves(Net)
    BY Zenon, <2>1, <2>2 DEF Moves, Locked
  <2>4. CASE UNCHANGED <<activeTip, cache>>
    BY <1>n, <2>1, <2>3, <2>4, MoveKeeps
  <2>5. CASE /\ activeTip' = Parent[activeTip]
             /\ cache' = [cache EXCEPT ![pcoins] = DisconnectView(@, activeTip)]
    <3> DEFINE v == DisconnectView(cache[pcoins], activeTip)
    <3>1. Parent[activeTip] \in Block
      BY SMTT(40), <2>1, OffPathHasParent
    <3>2. cache[pcoins] \in View /\ cache[pcoins].best = activeTip
      BY Zenon, <1>n, <2>1 DEF ProofInv, CoinsMatchTip, TypeOK
    <3>3. v \in View
      BY Zenon, <2>1, <3>2, ValueTypes
    <3>4. advanced(v)
      BY Zenon, <2>1, <2>5, <3>1, <3>2, DisconnectKeeps
    <3> QED BY ZenonT(40), <1>5, <2>1, <2>3, <3>3, <3>4
  <2> QED BY Zenon, <1>6, <2>4, <2>5 DEF AbcDisconnect
<1>7. ASSUME AbcConnect PROVE ProofInv'
  <2> DEFINE next == Ancestor(loc[Net].most, Height[activeTip] + 1)
  <2>1. /\ Up /\ pc[Net] = "abc_step" /\ loc[Net].most \in Block /\ activeTip # loc[Net].most
        /\ activeTip \in Block /\ activeTip \in Path[loc[Net].most]
        /\ UNCHANGED <<disk, dir, dat, pcoins, snapActive, bg, bgStatus, base, expected, node>>
    BY Zenon, <1>7, <1>n DEF AbcConnect, TypeInv, TypeOK, HasTarget, diskVars, proofVars
  <2>2. next \in Block /\ Parent[next] = activeTip
    BY <2>1, NextExtends
  <2>3. /\ pc'[Net] \in {"idle", "abc", "abc_step", "step_check"}
        /\ \A u \in Thread \ {Net} : pc'[u] = pc[u] /\ loc'[u] = loc[u]
    BY Zenon, <1>7, <1>n, <2>1 DEF AbcConnect, AbcRoundEnd, Return, Goto, TypeOK
  <2>4. Moves(Net)
    BY Zenon, <2>1, <2>3 DEF Moves, Locked
  <2>5. CASE UNCHANGED <<activeTip, cache>>
    BY Zenon, <1>n, <2>1, <2>4, <2>5, MoveKeeps
  <2>6. CASE /\ TRUE \in Connects(cache[pcoins], next)
             /\ cache' = [cache EXCEPT ![pcoins] = ConnectView(@, next)]
             /\ activeTip' = next
    <3> DEFINE v == ConnectView(cache[pcoins], next)
    <3>1. cache[pcoins] \in View /\ cache[pcoins].best = activeTip
      BY Zenon, <1>n, <2>1 DEF ProofInv, CoinsMatchTip, TypeOK
    <3>2. v \in View
      BY Zenon, <2>2, <3>1, ValueTypes
    <3>3. advanced(v)
      BY Zenon, <2>2, <2>6, <3>1, ConnectKeeps
    <3> QED BY ZenonT(40), <1>5, <2>1, <2>4, <3>2, <3>3
  <2> QED BY Zenon, <1>7, <2>5, <2>6 DEF AbcConnect
<1> QED BY <1>1, <1>2, <1>3, <1>4, <1>6, <1>7 DEF NetNext

\* The steps of the proof and of a save.  Coins that match the claim were built by
\* full validation, so the claim is honest.
LEMMA StepKeepsProof ==
  ASSUME ProofInv, TypeInv', NEW t \in Thread, StepNext(t)
  PROVE  ProofInv'
<1>n. /\ TypeInv /\ TypeOK
      /\ pc \in [Thread -> Pc] /\ loc \in [Thread -> Local] /\ cache \in [Store -> View]
      /\ disk \in [Store -> View] /\ expected \in Hash /\ bg \in Slot
  BY Zenon DEF ProofInv, TypeInv, TypeOK
<1>s. Up /\ snapActive /\ pc[t] \in {"step_lock", "step_loop", "remove", "rename"}
  BY Zenon, <1>n DEF StepNext, StepLock, StepIter, StepEnd, PersistRemove, PersistRename, TypeInv,
              BeforeActive
<1>a. /\ pcoins = "snap" /\ dir = "snap" /\ Claimed(base, expected)
      /\ Vouches(disk["snap"], expected) /\ Built(cache["ibd"]) /\ Built(disk["ibd"])
      /\ bgStatus = "completed" => Honest(base, expected)
  BY Zenon, <1>s DEF ProofInv, Assumed, IbdBuilt
<1>l. pc[t] = "step_loop" => bg.coins = "ibd" /\ base \in Block
  BY Zenon, <1>n DEF ProofInv, StepsOnIbd, TypeInv, TypeOK, StepsToBase
\* Saving the session
<1>p. ASSUME NEW next \in {"idle", "stop", "step_loop"}, NEW l \in Local, Persist(t, next, l),
             pc[t] \in Locked \/ CsMainFree, next = "step_loop" => bg'.coins = "ibd"
      PROVE  Moves(t)
  <2>1. pc'[t] = "remove" /\ loc'[t].next = next
    BY <1>n, <1>p DEF Persist, Goto, Local
  <2>2. \A u \in Thread \ {t} : pc'[u] = pc[u] /\ loc'[u] = loc[u]
    BY <1>n, <1>p DEF Persist, Goto
  <2> QED BY Zenon, <1>p, <2>1, <2>2 DEF Moves, Locked
\* A verdict
<1>f. ASSUME Fail(t), pc[t] \in Locked \/ CsMainFree
      PROVE  Moves(t) /\ bg'.coins = bg.coins /\ bgStatus' # "completed"
  BY <1>f, <1>p, ValueTypes DEF Fail
<1>c. ASSUME pc[t] = "step_loop", CheckDigest(t)
      PROVE  /\ Moves(t) /\ bg'.coins \in {bg.coins, "none"}
             /\ disk'["snap"] = disk["snap"] /\ Built(disk'["ibd"])
             /\ bgStatus' = "completed" => Honest(base, expected)
  <2>1. bg.coins = "ibd" /\ disk' = [disk EXCEPT !["ibd"] = cache["ibd"]]
    BY Zenon, <1>c, <1>l DEF CheckDigest, Flushed
  <2>2. disk'["ibd"] = cache["ibd"] /\ disk'["snap"] = disk["snap"]
    BY <1>n, <2>1 DEF Store
  <2>3. CASE Digest(cache["ibd"]) = expected
    <3>1. Honest(base, expected)
      BY <1>n, <1>a, <2>3, MatchIsProof DEF Store
    <3>2. Complete(t)
      BY <1>c, <2>1, <2>2, <2>3 DEF CheckDigest
    <3>3. bg'.coins = "none"
      BY <3>2 DEF Complete, IdleSlot
    <3>4. Moves(t)
      BY SMTT(40), <1>c, <1>p, <3>2, ValueTypes DEF Complete, Locked
    <3> QED BY Zenon, <1>a, <2>2, <3>1, <3>3, <3>4
  <2>4. CASE Digest(cache["ibd"]) # expected
    <3>1. Fail(t)
      BY SMTT(40), <1>c, <2>1, <2>2, <2>4 DEF CheckDigest
    <3> QED BY Zenon, <1>a, <1>c, <1>f, <2>2, <3>1 DEF Locked
  <2> QED BY Zenon, <2>3, <2>4
<1>1. ASSUME StepLock(t) PROVE ProofInv'
  <2>1. /\ UNCHANGED <<cache, disk, dir, dat, activeTip, pcoins, snapActive, base, expected, node>>
        /\ CsMainFree
    BY ZenonT(40), <1>1 DEF StepLock, diskVars, chainVars
  <2>2. CASE Fail(t)
    BY ZenonT(40), <1>s, <1>a, <1>f, <2>1, <2>2, SessionKeeps
  <2>3. CASE bg.coins # "none" /\ Goto(t, "step_loop", loc[t]) /\ UNCHANGED <<bgStatus, bg>>
    <3>1. bg.coins = "ibd"
      BY Zenon, <1>s, <2>3 DEF ProofInv, Assumed
    <3>2. Moves(t)
      BY <1>n, <2>1, <2>3, <3>1 DEF Moves, Goto
    <3> QED BY Zenon, <1>s, <2>1, <2>3, <3>2, MoveKeeps
  <2> QED BY ZenonT(40), <1>1, <2>2, <2>3 DEF StepLock
<1>2. ASSUME StepIter(t) PROVE ProofInv'
  <2> DEFINE h == IF bg.tip = NoBlock THEN -1 ELSE Height[bg.tip]
             next == Ancestor(base, h + 1)
  <2>1. /\ UNCHANGED <<dir, dat, activeTip, pcoins, snapActive, base, expected, node>>
        /\ pc[t] = "step_loop" /\ bg.coins = "ibd" /\ base \in Block
    BY Zenon, <1>2, <1>l DEF StepIter, chainVars
  <2>2. pc[t] \in Locked /\ cache["ibd"] \in View
    BY SMTT(40), <1>n, <2>1 DEF Locked, Store
  <2>3. CASE CheckDigest(t) /\ UNCHANGED cache
    BY Zenon, <1>s, <1>a, <1>c, <2>1, <2>2, <2>3, SessionKeeps
  <2>4. CASE Fail(t) /\ UNCHANGED <<cache, disk>>
    BY Zenon, <1>s, <1>a, <1>f, <2>1, <2>2, <2>4, SessionKeeps
  <2>5. CASE bgStatus' = "waiting" /\ Persist(t, "idle", NoLocal) /\ UNCHANGED <<cache, disk, bg>>
    <3>1. Moves(t)
      BY <1>p, <2>2, <2>5, ValueTypes
    <3> QED BY Zenon, <1>s, <1>a, <2>1, <2>5, <3>1, SessionKeeps
  <2>6. CASE /\ Fail(t) /\ cache' = [cache EXCEPT !["ibd"].kind = "mixed"] /\ UNCHANGED disk
             /\ Parent[next] = bg.tip /\ cache["ibd"].best = bg.tip
             /\ FALSE \in Connects(cache["ibd"], next)
    <3>r. Invalid # {}
      BY Zenon, <1>a, <2>6 DEF Built, Connects
    <3>1. cache'["snap"] = cache["snap"] /\ cache'["ibd"].kind = "mixed"
      BY SMTT(40), <1>n, <2>2, <2>6 DEF Store, View
    <3>2. Built(cache'["ibd"])
      BY <3>r, <3>1 DEF Built
    <3> QED BY SMTT(40), <1>s, <1>a, <1>f, <2>1, <2>2, <2>6, <3>1, <3>2, SessionKeeps
  <2>7. CASE /\ h < Height[base] /\ Parent[next] = bg.tip
             /\ cache["ibd"].best = bg.tip /\ TRUE \in Connects(cache["ibd"], next)
             /\ cache' = [cache EXCEPT !["ibd"] = ConnectView(@, next)]
             /\ bg' = [bg EXCEPT !.tip = next]
             /\ bgStatus' = "running"
             /\ LET l == [loc[t] EXCEPT !.left = @ - 1, !.conn = @ + 1]
                IN IF l.conn % FlushEvery = 0
                   THEN /\ disk' = [disk EXCEPT !["ibd"] = cache'["ibd"]]
                        /\ Persist(t, "step_loop", l)
                   ELSE Goto(t, "step_loop", l) /\ UNCHANGED disk
             /\ loc[t].left > 0
    <3>1. h + 1 \in 0..Height[base]
      <4>1. bg.tip = NoBlock \/ (bg.tip \in Block /\ Height[bg.tip] \in Nat)
        BY Zenon, <1>n, TreeAssumption DEF Slot
      <4>2. Height[base] \in Nat
        BY Zenon, <2>1, TreeAssumption
      <4> QED BY SMTT(40), <2>7, <4>1, <4>2
    <3>2. next \in Block
      BY <2>1, <3>1, AncestorOnPath
    <3> DEFINE v == ConnectView(cache["ibd"], next)
    <3>3. Built(v) /\ v \in View
      BY Zenon, <1>a, <2>2, <2>7, <3>2, ConnectKeeps, ValueTypes
    <3>4. cache' = [cache EXCEPT !["ibd"] = v]
      BY SMTT(40), <2>7
    <3>5. cache'["ibd"] = v /\ cache'["snap"] = cache["snap"]
      BY Zenon, <1>n, <3>4 DEF Store
    <3>6. bg'.coins = "ibd"
      BY <1>n, <2>1, <2>7 DEF Slot
    <3> DEFINE l == [loc[t] EXCEPT !.left = @ - 1, !.conn = @ + 1]
    <3>7. l \in Local
      <4>1. loc[t] \in Local /\ loc[t].left - 1 \in Nat /\ loc[t].conn + 1 \in Nat
        BY <1>n, <2>7 DEF Local
      <4> QED BY Zenon, <4>1 DEF Local
    <3>8. CASE disk' = [disk EXCEPT !["ibd"] = cache'["ibd"]] /\ Persist(t, "step_loop", l)
      <4>1. disk'["ibd"] = v /\ disk'["snap"] = disk["snap"]
        BY <1>n, <3>5, <3>8 DEF Store
      <4> HIDE DEF l
      <4>2. Moves(t)
        BY SMTT(40), <1>p, <2>2, <3>6, <3>7, <3>8
      <4> HIDE DEF v
      <4> QED BY SMTT(40), <1>s, <1>a, <2>1, <2>7, <3>3, <3>5, <3>6, <4>1, <4>2, SessionKeeps
    <3>9. CASE Goto(t, "step_loop", l) /\ UNCHANGED disk
      <4> HIDE DEF l
      <4>2. Moves(t)
        BY SMTT(40), <1>n, <2>2, <3>6, <3>9 DEF Moves, Goto
      <4> HIDE DEF v
      <4> QED BY SMTT(40), <1>s, <1>a, <2>1, <2>7, <3>3, <3>5, <3>6, <3>9, <4>2, SessionKeeps
    <3> QED BY <2>7, <3>8, <3>9
  <2> HIDE DEF h, next
  <2> QED BY <1>2, <2>1, <2>3, <2>4, <2>5, <2>6, <2>7, Zenon DEF StepIter, h, next, coinVars
<1>3. ASSUME StepEnd(t) PROVE ProofInv'
  <2>1. /\ UNCHANGED <<cache, dir, dat, activeTip, pcoins, snapActive, base, expected, node>>
        /\ pc[t] = "step_loop"
    BY Zenon, <1>3 DEF StepEnd, chainVars
  <2>2. CASE CheckDigest(t)
    <3>1. pc[t] \in Locked
      BY <2>1 DEF Locked
    <3> QED BY Zenon, <1>s, <1>a, <1>c, <2>1, <2>2, <3>1, SessionKeeps
  <2>3. CASE Return(t) /\ UNCHANGED <<disk, bgStatus, bg>>
    <3>1. Moves(t)
      BY SMTT(40), <1>n, <2>3 DEF Moves, Return, Goto, Locked
    <3> QED BY SMTT(40), <1>s, <2>1, <2>3, <3>1, MoveKeeps
  <2> QED BY Zenon, <1>3, <2>2, <2>3 DEF StepEnd
<1>4. ASSUME PersistRemove(t) PROVE ProofInv'
  <2>1. /\ UNCHANGED <<cache, disk, dir, activeTip, pcoins, snapActive, bg, bgStatus, base, expected, node>>
        /\ pc[t] = "remove" /\ dat' = NoDat /\ Goto(t, "rename", loc[t])
    BY Zenon, <1>4 DEF PersistRemove, chainVars, proofVars
  <2>2. loc[t].next = "step_loop" => bg.coins = "ibd"
    BY Zenon, <2>1 DEF ProofInv, StepsOnIbd
  <2>3. Moves(t)
    BY SMTT(40), <1>n, <2>1, <2>2 DEF Moves, Goto, Locked
  <2> QED BY Zenon, <1>s, <1>a, <2>1, <2>3, SessionKeeps
<1>5. ASSUME PersistRename(t) PROVE ProofInv'
  <2>1. /\ pc[t] = "rename" /\ UNCHANGED <<disk, dir>>
        /\ dat' = [base |-> base, hash |-> expected, status |-> bgStatus]
    BY SMTT(40), <1>5 DEF PersistRename
  <2>2. CASE loc[t].next = "down"
    <3>1. node' = "down" /\ ForgetMemory
      BY SMTT(40), <1>5, <2>2 DEF PersistRename
    <3>2. Saved'
      BY Zenon, <1>a, <2>1 DEF Saved
    <3> QED BY Zenon, <1>a, <2>1, <3>1, <3>2, ForgetKeeps
  <2>3. CASE loc[t].next # "down"
    <3>1. UNCHANGED <<cache, activeTip, pcoins, snapActive, bg, bgStatus, base, expected, node>>
      BY SMTT(40), <1>5, <2>3 DEF PersistRename, chainVars, proofVars
    <3>2. loc[t].next = "step_loop" => bg.coins = "ibd"
      BY Zenon, <2>1 DEF ProofInv, StepsOnIbd
    <3>3. Moves(t)
      BY SMTT(40), <1>n, <1>5, <2>1, <2>3, <3>1, <3>2 DEF PersistRename, Moves, Return, Goto, Locked
    <3> QED BY Zenon, <1>s, <1>a, <2>1, <3>1, <3>3, SessionKeeps
  <2> QED BY Zenon, <2>2, <2>3
<1> QED BY SMTT(40), <1>1, <1>2, <1>3, <1>4, <1>5 DEF StepNext

\* Loading and activation by the one RPC worker.
LEMMA RpcKeepsProof ==
  ASSUME Sequential, ProofInv, TypeInv', NEW t \in Rpc, RpcNext(t)
  PROVE  ProofInv'
<1>n. /\ TypeInv /\ TypeOK /\ t \in Thread
      /\ pc \in [Thread -> Pc] /\ loc \in [Thread -> Local] /\ cache \in [Store -> View]
      /\ disk \in [Store -> View] /\ bg \in Slot
  BY Zenon DEF ProofInv, TypeInv, TypeOK, Thread
<1>o. \A u \in Thread \ {t} : pc[u] \notin {"loading", "act_lock"}
  BY SMTT(40) DEF Sequential, ProofInv, Callers
<1>b. ASSUME ~snapActive
      PROVE  \A u \in Thread : pc[u] \notin {"step_lock", "step_loop", "remove", "rename"}
  BY ZenonT(40), <1>b, <1>n DEF TypeInv, BeforeActive
\* A step of a worker before activation that takes no lock
<1>w. ASSUME ~snapActive, Up, UNCHANGED <<dat, activeTip, pcoins, snapActive, bgStatus, base, expected, node>>,
             NEW label \in {"idle", "loading", "act_lock"}, NEW l \in Local, Goto(t, label, l),
             cache'["ibd"] = cache["ibd"], disk'["ibd"] = disk["ibd"],
             dir' \in {dir, "snap"}, Plain'
      PROVE  ProofInv'
  <2>1. pc'[t] = label /\ \A u \in Thread \ {t} : pc'[u] = pc[u] /\ loc'[u] = loc[u]
    BY Zenon, <1>n, <1>w DEF Goto
  <2>2. MutualExclusion' /\ Callers' /\ StepsOnIbd'
    BY ZenonT(40), <1>b, <1>w, <2>1 DEF ProofInv, MutualExclusion, Callers, StepsOnIbd, Locked
  <2>3. dat = NoDat /\ pcoins = "ibd"
    BY ZenonT(40), <1>w DEF ProofInv, Plain
  <2>4. Downtime' /\ CoinsMatchTip' /\ Assumed' /\ Saved' /\ IbdBuilt'
    BY Zenon, <1>w, <2>3 DEF ProofInv, Downtime, CoinsMatchTip, Assumed, Saved, IbdBuilt, Up
  <2> QED BY ZenonT(40), <1>w, <2>2, <2>4 DEF ProofInv
<1>1. ASSUME NEW f \in Snapshot, LoadStart(t, f) PROVE ProofInv'
  <2>1. ~snapActive /\ LoadStore = "snap" /\ Up
    BY <1>1 DEF LoadStart, SnapshotDirOpen, LoadStore, Sequential, ProofInv, Assumed, Serving
  <2>2. /\ bg' = [IdleSlot EXCEPT !.coins = "snap"] /\ dir' = "snap"
        /\ cache' = [cache EXCEPT !["snap"] = EmptyView]
        /\ disk' = [disk EXCEPT !["snap"] = EmptyView]
        /\ Goto(t, "loading", [NoLocal EXCEPT !.file = f])
        /\ UNCHANGED <<dat, activeTip, pcoins, snapActive, bgStatus, base, expected, node>>
    BY <1>1, <2>1 DEF LoadStart, chainVars, proofVars
  <2>3. cache'["ibd"] = cache["ibd"] /\ disk'["ibd"] = disk["ibd"]
    BY <1>n, <2>2 DEF Store
  <2>4. bg'.coins = "snap" /\ bg'.base = NoBlock
    BY <2>2 DEF IdleSlot
  <2>5. f \in View
    BY ConfigAssumption DEF View, Kind
  <2> DEFINE l == [NoLocal EXCEPT !.file = f]
  <2>6. l \in Local /\ l.file = f
    BY ZenonT(40), <2>5, ValueTypes DEF Local, NoLocal
  <2> HIDE DEF l
  <2>7. Goto(t, "loading", l)
    BY <2>2 DEF l
  <2>8. pc'[t] = "loading" /\ loc'[t] = l /\ \A u \in Thread \ {t} : pc'[u] = pc[u] /\ loc'[u] = loc[u]
    BY <1>n, <2>7 DEF Goto
  <2>9. Plain'
    BY <1>o, <2>1, <2>2, <2>4, <2>6, <2>8 DEF ProofInv, Plain
  <2> QED BY <1>w, <2>1, <2>2, <2>3, <2>6, <2>7, <2>9
<1>2. ASSUME LoadFinish(t) PROVE ProofInv'
  <2> DEFINE f == loc[t].file
  <2>1. Up /\ pc[t] = "loading" /\ ~snapActive
    BY <1>2, <1>n DEF LoadFinish, ProofInv, Assumed
  <2>2. bg.coins = "snap" /\ f \in Snapshot /\ dir = "snap" /\ dat = NoDat
    BY Zenon, <1>n, <2>1 DEF ProofInv, Plain, TypeInv, BeforeActive
  <2>3. f \in View /\ f.best \in Block /\ f.kind \in {"true", "meta", "outs"}
    BY Zenon, <2>2, ConfigAssumption DEF View, Kind
  <2> HIDE DEF f
  <2>4. /\ cache' = [cache EXCEPT !["snap"] = f] /\ disk' = [disk EXCEPT !["snap"] = f]
        /\ bg' = [bg EXCEPT !.tip = IF idx[f.best] = "unknown" THEN NoBlock ELSE f.best,
                            !.base = f.best, !.hash = Digest(f)]
        /\ Goto(t, "idle", NoLocal)
        /\ UNCHANGED <<dir, dat, activeTip, pcoins, snapActive, bgStatus, base, expected, node>>
    BY <1>2, <2>2 DEF LoadFinish, f, Return, chainVars, proofVars
  <2>5. /\ cache'["ibd"] = cache["ibd"] /\ disk'["ibd"] = disk["ibd"]
        /\ cache'["snap"] = f /\ disk'["snap"] = f
    BY <1>n, <2>4 DEF Store
  <2>6. /\ bg'.coins = "snap" /\ bg'.base = f.best /\ bg'.hash = Digest(f)
        /\ bg'.tip \in {NoBlock, f.best}
    BY <1>n, <2>2, <2>4 DEF Slot
  <2>7. Claimed(f.best, Digest(f)) /\ Vouches(f, Digest(f))
    BY <2>3 DEF Claimed, Vouches, Intact, Digest, View, SoundKind
  <2>8. pc'[t] = "idle" /\ \A u \in Thread \ {t} : pc'[u] = pc[u] /\ loc'[u] = loc[u]
    BY <1>n, <2>4 DEF Goto
  <2>9. Plain'
    BY SMTT(40), <1>o, <2>1, <2>2, <2>4, <2>5, <2>6, <2>7, <2>8 DEF ProofInv, Plain
  <2> QED BY <1>w, <2>1, <2>4, <2>5, <2>9, ValueTypes
<1>3. ASSUME LoadFail(t) PROVE ProofInv'
  <2>1. Up /\ pc[t] = "loading" /\ ~snapActive
    BY Zenon, <1>3, <1>n DEF LoadFail, ProofInv, Assumed
  <2>2. /\ UNCHANGED <<cache, disk, dir, dat, activeTip, pcoins, snapActive, bgStatus, base, expected, node>>
        /\ Goto(t, "idle", NoLocal) /\ bg' = IdleSlot
    BY <1>3 DEF LoadFail, Return, diskVars, chainVars, proofVars
  <2>3. pc'[t] = "idle" /\ \A u \in Thread \ {t} : pc'[u] = pc[u] /\ loc'[u] = loc[u]
    BY <1>n, <2>2 DEF Goto
  <2>4. Plain'
    BY Zenon, <1>o, <2>1, <2>2, <2>3 DEF ProofInv, Plain, IdleSlot
  <2> QED BY Zenon, <1>w, <2>1, <2>2, <2>4, ValueTypes
<1>4. ASSUME ActivateCheck(t) PROVE ProofInv'
  <2>1. Up /\ ~snapActive /\ bg.base # NoBlock
    BY Zenon, <1>4 DEF ActivateCheck, Serving
  <2>2. /\ UNCHANGED <<cache, disk, dir, dat, activeTip, pcoins, snapActive, bg, bgStatus, base, expected, node>>
        /\ Goto(t, "act_lock", NoLocal)
    BY Zenon, <1>4 DEF ActivateCheck, diskVars, chainVars, proofVars
  <2>3. pc'[t] = "act_lock" /\ \A u \in Thread \ {t} : pc'[u] = pc[u] /\ loc'[u] = loc[u]
    BY <1>n, <2>2 DEF Goto
  <2>4. Plain'
    BY ZenonT(40), <1>o, <2>1, <2>2, <2>3 DEF ProofInv, Plain
  <2> QED BY Zenon, <1>w, <2>1, <2>2, <2>4, ValueTypes
<1>5. ASSUME ActivateRefuse(t) PROVE ProofInv'
  <2>1. Moves(t)
    BY Zenon, <1>5, <1>n DEF ActivateRefuse, Return, Goto, Moves, Locked
  <2> QED BY Zenon, <1>5, <1>n, <2>1, MoveKeeps
             DEF ActivateRefuse, diskVars, chainVars, proofVars
<1>6. ASSUME ActivateLocked(t) PROVE ProofInv'
  <2>1. Up /\ CsMainFree /\ pc[t] = "act_lock" /\ ~snapActive
    BY SMTT(40), <1>6, <1>n DEF ActivateLocked, ProofInv, Assumed
  <2>2. /\ bg.coins = "snap" /\ bg.base # NoBlock /\ dir = "snap" /\ dat = NoDat /\ pcoins = "ibd"
        /\ Claimed(bg.base, bg.hash) /\ cache["snap"].best = bg.base /\ bg.tip = bg.base
        /\ Vouches(cache["snap"], bg.hash) /\ Vouches(disk["snap"], bg.hash)
    BY Zenon, <1>n, <2>1 DEF ProofInv, Plain, TypeInv, BeforeActive
  <2>3. SnapTip = bg.base /\ SnapBase = bg.base /\ SnapHash = bg.hash
    BY Zenon, <2>1, <2>2 DEF SnapTip, SnapBase, SnapHash
  <2>4. /\ cache' = [cache EXCEPT !["snap"].best = bg.base]
        /\ disk' = IF AtBase THEN [Flushed("ibd") EXCEPT !["ibd"] = cache'["ibd"]] ELSE Flushed("ibd")
        /\ pcoins' = "snap" /\ activeTip' = bg.base /\ snapActive' = TRUE
        /\ base' = bg.base /\ expected' = bg.hash
        /\ bgStatus' = IF ~AtBase THEN "running"
                       ELSE IF Digest(disk'["ibd"]) = bg.hash THEN "completed" ELSE "failed"
        /\ bg' = IF bgStatus' = "completed" THEN IdleSlot ELSE ParkedIbd(activeTip)
        /\ Persist(t, IF bgStatus' = "failed" THEN "stop" ELSE "idle", NoLocal)
        /\ UNCHANGED <<dir, dat, node>>
    BY <1>6, <2>2, <2>3 DEF ActivateLocked
  <2>5. cache' = cache
    BY <1>n, <2>2, <2>4 DEF Store, View
  <2>6. disk'["ibd"] = cache["ibd"] /\ disk'["snap"] = disk["snap"]
    BY <1>n, <2>4, <2>5 DEF Flushed, Store
  <2>7. bgStatus' = "completed" => Honest(bg.base, bg.hash)
    <3>1. cache["ibd"] \in View /\ Built(cache["ibd"]) /\ bg.hash \in Hash
      BY <1>n DEF ProofInv, IbdBuilt, Store, Slot
    <3> QED BY <2>2, <2>4, <2>6, <3>1, MatchIsProof
  <2>8. bg'.coins \in {"none", "ibd"}
    BY <2>4 DEF IdleSlot, ParkedIbd
  <2>9. /\ pc'[t] = "remove" /\ loc'[t].next # "step_loop"
        /\ \A u \in Thread \ {t} : pc'[u] = pc[u] /\ loc'[u] = loc[u]
    BY SMTT(40), <1>n, <2>4 DEF Persist, Goto, NoLocal
  <2>10. MutualExclusion' /\ Callers' /\ StepsOnIbd'
    <3>1. \A u \in Thread \ {t} : pc[u] \notin Locked
      BY <2>1 DEF CsMainFree
    <3> QED BY Zenon, <1>n, <2>9, <3>1 DEF ProofInv, MutualExclusion, Callers, StepsOnIbd, Locked
  <2>11. Downtime' /\ Plain' /\ CoinsMatchTip'
    BY <2>1, <2>2, <2>4, <2>5 DEF Downtime, Plain, CoinsMatchTip, Up
  <2>12. Assumed'
    BY <1>o, <2>2, <2>4, <2>5, <2>6, <2>7, <2>8, <2>9 DEF Assumed
  <2>13. Saved' /\ IbdBuilt'
    BY <2>2, <2>4, <2>5, <2>6 DEF ProofInv, Saved, IbdBuilt
  <2> QED BY <2>10, <2>11, <2>12, <2>13 DEF ProofInv
<1>7. ASSUME ActivateAbort(t) PROVE ProofInv'
  <2>1. pc[t] = "act_lock" /\ ~snapActive /\ bg.coins = "none"
    BY Zenon, <1>7, <1>n DEF ActivateAbort, ProofInv, Assumed
  <2> QED BY ZenonT(40), <1>n, <2>1 DEF TypeInv, BeforeActive
<1>8. ASSUME NEW n \in RpcBatch, StepCheck(t, n) PROVE ProofInv'
  <2>1. pc'[t] = "step_lock" /\ Up /\ \A u \in Thread \ {t} : pc'[u] = pc[u] /\ loc'[u] = loc[u]
    BY <1>8, <1>n DEF StepCheck, Goto, Serving
  <2>2. Moves(t)
    BY Zenon, <2>1 DEF Moves, Locked
  <2> QED BY <1>8, <1>n, <2>1, <2>2, MoveKeeps DEF StepCheck, diskVars, chainVars, proofVars
<1> QED BY SMTT(40), <1>1, <1>2, <1>3, <1>4, <1>5, <1>6, <1>7, <1>8 DEF RpcNext

\* Stopping and starting.
LEMMA MainKeepsProof ==
  ASSUME ProofInv, TypeInv', MainNext
  PROVE  ProofInv'
<1>n. /\ TypeInv /\ TypeOK /\ Main \in Thread /\ Net \in Thread
      /\ pc \in [Thread -> Pc] /\ loc \in [Thread -> Local] /\ cache \in [Store -> View]
      /\ disk \in [Store -> View]
  BY ZenonT(40), ValueTypes DEF ProofInv, TypeInv, TypeOK
<1>1. ASSUME Interrupt PROVE ProofInv'
  <2>1. pc'[Main] = "joining" /\ Up /\ \A u \in Thread \ {Main} : pc'[u] = pc[u] /\ loc'[u] = loc[u]
    BY SMTT(40), <1>1, <1>n DEF Interrupt, Goto
  <2>2. Moves(Main)
    BY Zenon, <2>1 DEF Moves, Locked
  <2> QED BY Zenon, <1>1, <1>n, <2>1, <2>2, MoveKeeps DEF Interrupt, diskVars, chainVars, proofVars
<1>2. ASSUME Shutdown PROVE ProofInv'
  <2>1. /\ Up /\ disk' = [disk EXCEPT ![pcoins] = cache[pcoins]] /\ UNCHANGED <<dir, dat>>
        /\ \A u \in Thread : pc[u] \in {"idle", "joining"}
    BY <1>2 DEF Shutdown, Flushed, Thread
  <2>2. CASE snapActive
    <3>1. /\ Persist(Main, "down", NoLocal)
          /\ UNCHANGED <<cache, activeTip, pcoins, snapActive, bg, bgStatus, base, expected, node>>
      BY <1>2, <2>2 DEF Shutdown, chainVars, proofVars
    <3>2. /\ pc'[Main] = "remove" /\ loc'[Main].next = "down"
          /\ \A u \in Thread \ {Main} : pc'[u] = pc[u] /\ loc'[u] = loc[u]
      BY <1>n, <3>1 DEF Persist, Goto, NoLocal
    <3>3. CsMainFree
      BY SMTT(40), <2>1 DEF CsMainFree, Locked
    <3>4. Moves(Main)
      BY Zenon, <3>2, <3>3 DEF Moves
    <3>5. disk'["snap"] = cache["snap"] /\ disk'["ibd"] = disk["ibd"]
      BY Zenon, <1>n, <2>1, <2>2 DEF ProofInv, Assumed, Store
    <3>6. /\ Vouches(disk'["snap"], expected) /\ Built(cache'["ibd"]) /\ Built(disk'["ibd"])
          /\ bgStatus' = "completed" => Honest(base, expected)
      BY Zenon, <2>2, <3>1, <3>5 DEF ProofInv, Assumed, IbdBuilt
    <3> QED BY ZenonT(40), <1>n, <2>1, <2>2, <3>1, <3>4, <3>6, SessionKeeps
  <2>3. CASE ~snapActive
    <3>1. node' = "down" /\ ForgetMemory
      BY <1>2, <2>3 DEF Shutdown
    <3>2. pcoins = "ibd" /\ dat = NoDat
      BY Zenon, <2>1, <2>3 DEF ProofInv, Plain
    <3>3. Saved'
      BY Zenon, <2>1, <3>2 DEF ProofInv, Saved
    <3>4. Built(disk'["ibd"])
      BY SMTT(40), <1>n, <2>1, <3>2 DEF ProofInv, IbdBuilt, Store
    <3> QED BY <3>1, <3>3, <3>4, ForgetKeeps
  <2> QED BY <2>2, <2>3
<1>d. ASSUME Startable
      PROVE  /\ ~Up /\ ~snapActive /\ bg.coins = "none" /\ bg.base = NoBlock /\ cache = disk
             /\ \A u \in Thread : pc[u] = "idle" /\ loc[u] = NoLocal
             /\ pcoins = "ibd" /\ bgStatus = "none"
  BY Zenon, <1>d DEF Startable, ProofInv, Downtime, Up, Plain
<1>3. ASSUME StartFails PROVE ProofInv'
  <2>1. /\ Startable /\ node' \in {"corrupt", "refused"}
        /\ UNCHANGED <<cache, disk, dir, dat, activeTip, pcoins, snapActive, bg, bgStatus, base,
                       expected, pc, loc>>
    BY SMTT(40), <1>3 DEF StartFails, diskVars, chainVars, proofVars
  <2>2. MutualExclusion' /\ Callers' /\ StepsOnIbd' /\ Downtime' /\ CoinsMatchTip'
    BY Zenon, <1>d, <2>1
       DEF MutualExclusion, Callers, StepsOnIbd, Downtime, CoinsMatchTip, Up, Locked
  <2>3. Plain' /\ Assumed' /\ Saved' /\ IbdBuilt'
    BY Zenon, <1>d, <2>1 DEF ProofInv, Plain, Assumed, Saved, IbdBuilt, Up
  <2> QED BY <2>2, <2>3 DEF ProofInv
<1>4. ASSUME StartPlain PROVE ProofInv'
  <2>1. /\ Startable /\ node' = "up" /\ activeTip' = disk["ibd"].best /\ dat' = NoDat
        /\ Goto(Net, "abc", [NoLocal EXCEPT !.boot = TRUE])
        /\ UNCHANGED <<cache, disk, dir, pcoins, snapActive, bg, bgStatus, base, expected>>
    BY <1>4 DEF StartPlain, proofVars
  <2>2. \A u \in Thread : pc'[u] \in {"idle", "abc"}
    BY <1>n, <1>d, <2>1 DEF Goto
  <2>3. MutualExclusion' /\ Callers' /\ StepsOnIbd' /\ Downtime' /\ CoinsMatchTip'
    BY <1>d, <2>1, <2>2
       DEF MutualExclusion, Callers, StepsOnIbd, Downtime, CoinsMatchTip, Up, Locked
  <2>4. Plain' /\ Assumed' /\ Saved' /\ IbdBuilt'
    BY <1>d, <2>1, <2>2 DEF ProofInv, Plain, Assumed, Saved, IbdBuilt
  <2> QED BY <2>3, <2>4 DEF ProofInv
<1>5. ASSUME StartRestored PROVE ProofInv'
  <2> DEFINE ibdTip == IF IbdIndexed THEN disk["ibd"].best ELSE NoBlock
             settled == /\ dat.status # "completed" /\ ibdTip = dat.base
                        /\ Digest(disk["ibd"]) = dat.hash
  <2>1. /\ Startable /\ dat # NoDat
        /\ node' = "up"
        /\ disk' = [disk EXCEPT !["snap"] = disk[dir]] /\ cache' = disk' /\ dir' = "snap"
        /\ activeTip' = disk[dir].best /\ pcoins' = "snap" /\ snapActive' = TRUE
        /\ base' = dat.base /\ expected' = dat.hash /\ dat' = dat
        /\ bgStatus' = IF settled THEN "completed"
                       ELSE IF dat.status = "none" THEN "running" ELSE dat.status
        /\ bg' = IF settled THEN IdleSlot ELSE ParkedIbd(ibdTip)
        /\ pc' = [pc EXCEPT ![Net] = "abc", ![Main] = IF settled THEN "remove" ELSE "idle"]
        /\ loc' = [loc EXCEPT ![Net] = [NoLocal EXCEPT !.boot = TRUE]]
    BY <1>5, Zenon DEF StartRestored, Resuming
  <2>2. /\ dir = "snap" /\ Claimed(dat.base, dat.hash) /\ Vouches(disk["snap"], dat.hash)
        /\ dat.status = "completed" => Honest(dat.base, dat.hash)
    BY <2>1 DEF ProofInv, Saved
  <2>3. disk' = disk /\ cache' = disk
    BY <1>n, <2>1, <2>2
  <2>4. bgStatus' = "completed" => Honest(dat.base, dat.hash)
    <3>1. disk["ibd"] \in View /\ Built(disk["ibd"]) /\ dat.hash \in Hash
      BY Zenon, <1>n DEF ProofInv, IbdBuilt, Store, TypeOK, Dat
    <3>2. settled => Honest(dat.base, dat.hash)
      BY Zenon, <2>2, <3>1, MatchIsProof
    <3> HIDE DEF settled
    <3> QED BY SMTT(40), <2>1, <2>2, <3>2
  <2>5. bg'.coins \in {"none", "ibd"}
    BY <2>1 DEF IdleSlot, ParkedIbd
  <2>6. Main # Net /\ pc'[Net] = "abc" /\ loc'[Main] = loc[Main]
    BY <1>n, <2>1, ConfigAssumption
  <2>7. pc'[Main] \in {"idle", "remove"} /\ \A u \in Thread \ {Net, Main} : pc'[u] = "idle"
    BY <1>n, <1>d, <2>1
  <2>8. loc[Main].next # "step_loop"
    BY SMTT(40), <1>n, <1>d, <2>1 DEF NoLocal
  <2>9. MutualExclusion' /\ Callers' /\ StepsOnIbd'
    BY Zenon, <2>6, <2>7, <2>8 DEF MutualExclusion, Callers, StepsOnIbd, Locked
  <2>10. Downtime' /\ Plain' /\ CoinsMatchTip'
    BY <2>1, <2>2, <2>3 DEF Downtime, Plain, CoinsMatchTip, Up
  <2>11. Assumed'
    BY Zenon, <2>1, <2>2, <2>3, <2>4, <2>5, <2>6, <2>7 DEF Assumed
  <2>12. Saved' /\ IbdBuilt'
    BY <2>1, <2>2, <2>3 DEF ProofInv, Saved, IbdBuilt
  <2> QED BY Zenon, <2>9, <2>10, <2>11, <2>12 DEF ProofInv
<1> QED BY <1>1, <1>2, <1>3, <1>4, <1>5 DEF MainNext

\* Flushes, pruning, crashes and the operator.
LEMMA EnvKeepsProof ==
  ASSUME ProofInv, TypeInv', EnvNext
  PROVE  ProofInv'
<1>n. TypeOK /\ cache \in [Store -> View] /\ disk \in [Store -> View]
  BY Zenon DEF ProofInv, TypeInv, TypeOK
<1>f. ASSUME Up, disk' = Flushed(pcoins),
             UNCHANGED <<cache, dir, dat, activeTip, pcoins, snapActive, bg, bgStatus, base,
                         expected, node, pc, loc>>
      PROVE  ProofInv'
  <2>1. MutualExclusion' /\ Callers' /\ StepsOnIbd' /\ Downtime' /\ CoinsMatchTip'
    BY Zenon, <1>f DEF ProofInv, MutualExclusion, Callers, StepsOnIbd, Downtime, CoinsMatchTip, Up
  <2>2. CASE snapActive
    <3>1. disk'["ibd"] = disk["ibd"] /\ disk'["snap"] = cache["snap"]
      BY Zenon, <1>n, <1>f, <2>2 DEF ProofInv, Assumed, Flushed, Store
    <3>2. Plain' /\ IbdBuilt'
      BY Zenon, <1>f, <2>2, <3>1 DEF ProofInv, Plain, IbdBuilt
    <3>3. Assumed' /\ Saved'
      BY ZenonT(40), <1>f, <2>2, <3>1 DEF ProofInv, Assumed, Saved
    <3> QED BY SMTT(40), <2>1, <3>2, <3>3 DEF ProofInv
  <2>3. CASE ~snapActive
    <3>1. disk'["ibd"] = cache["ibd"] /\ disk'["snap"] = disk["snap"] /\ dat = NoDat
      BY ZenonT(40), <1>n, <1>f, <2>3 DEF ProofInv, Plain, Flushed, Store
    <3>2. Plain' /\ IbdBuilt'
      BY Zenon, <1>f, <2>3, <3>1 DEF ProofInv, Plain, IbdBuilt, Up
    <3>3. Assumed' /\ Saved'
      BY Zenon, <1>f, <2>3, <3>1 DEF ProofInv, Assumed, Saved
    <3> QED BY <2>1, <3>2, <3>3 DEF ProofInv
  <2> QED BY <2>2, <2>3
<1>1. CASE FlushIndex
  BY Zenon, <1>1, StayKeeps DEF FlushIndex, MayFlush, chainVars, coinVars, proofVars
<1>2. CASE FlushStateToDisk
  BY Zenon, <1>2, <1>f DEF FlushStateToDisk, MayFlush, chainVars, proofVars
<1>3. ASSUME NEW b \in Block, Prune(b) PROVE ProofInv'
  BY Zenon, <1>3, <1>f DEF Prune, MayFlush, chainVars, proofVars
<1>4. CASE RequestShutdown
  BY Zenon, <1>4, StayKeeps DEF RequestShutdown, diskVars, chainVars, proofVars
<1>5. CASE Crash
  <2>1. node' = "down" /\ ForgetMemory /\ UNCHANGED <<disk, dir, dat>>
    BY SMTT(40), <1>5 DEF Crash, diskVars
  <2>2. Saved' /\ Built(disk'["ibd"])
    BY Zenon, <2>1 DEF ProofInv, Saved, IbdBuilt
  <2> QED BY <2>1, <2>2, ForgetKeeps
<1>6. CASE OperatorReset
  <2>1. /\ ~Up /\ node' = "down" /\ dat' = NoDat /\ dir' = "none"
        /\ UNCHANGED <<cache, disk, activeTip, pcoins, snapActive, bg, bgStatus, base, expected, pc, loc>>
    BY Zenon, <1>6 DEF OperatorReset, Up, chainVars, proofVars
  <2>2. ~snapActive /\ bg.coins = "none" /\ bg.base = NoBlock
    BY Zenon, <2>1 DEF ProofInv, Downtime
  <2>3. MutualExclusion' /\ Callers' /\ StepsOnIbd' /\ Downtime' /\ CoinsMatchTip'
    BY Zenon, <2>1 DEF ProofInv, MutualExclusion, Callers, StepsOnIbd, Downtime, CoinsMatchTip, Up
  <2>4. Plain' /\ Assumed' /\ Saved' /\ IbdBuilt'
    BY ZenonT(40), <2>1, <2>2 DEF ProofInv, Plain, Assumed, Saved, IbdBuilt, Up
  <2> QED BY <2>3, <2>4 DEF ProofInv
<1> QED BY <1>1, <1>2, <1>3, <1>4, <1>5, <1>6 DEF EnvNext

-----------------------------------------------------------------------------
(* The theorems *)

\* All threads are idle at the start, and nothing is claimed.
LEMMA InitProof == Init => ProofInv
<1> SUFFICES ASSUME Init PROVE ProofInv
  OBVIOUS
<1>1. TypeInv
  BY SMTT(40), InitTypes
<1>2. \A t \in Thread : pc[t] = "idle"
  BY Zenon DEF Init
<1>3. MutualExclusion /\ Callers /\ StepsOnIbd /\ Downtime
  BY Zenon, <1>2 DEF Init, MutualExclusion, Callers, StepsOnIbd, Downtime, Up, Locked
<1>4. cache["ibd"] = TrueView(Genesis) /\ disk["ibd"] = TrueView(Genesis)
  BY Zenon DEF Init, Store
<1>5. CoinsMatchTip
  BY SMTT(40), <1>4 DEF Init, CoinsMatchTip, TrueView
<1>6. Plain /\ Assumed /\ Saved
  BY ZenonT(40), <1>2 DEF Init, Plain, Assumed, Saved, IdleSlot
<1>7. Built(TrueView(Genesis))
  BY ZenonT(40), TreeAssumption, ConfigAssumption DEF Built, TrueView
<1> QED BY Zenon, <1>1, <1>3, <1>4, <1>5, <1>6, <1>7 DEF ProofInv, IbdBuilt

\* Every step of a sequential node keeps the invariant.
LEMMA ProofInvStep == Sequential /\ ProofInv /\ [Next]_vars => ProofInv'
<1> SUFFICES ASSUME Sequential, ProofInv, [Next]_vars PROVE ProofInv'
  OBVIOUS
<1>1. TypeInv'
  BY TypeInvStep DEF ProofInv
<1>2. ASSUME NEW t \in Rpc, RpcNext(t) PROVE ProofInv'
  BY <1>1, <1>2, RpcKeepsProof
<1>3. ASSUME NEW t \in Thread, StepNext(t) PROVE ProofInv'
  BY <1>1, <1>3, StepKeepsProof
<1>4. CASE NetNext
  BY <1>1, <1>4, NetKeepsProof
<1>5. CASE MainNext
  BY SMTT(40), <1>1, <1>5, MainKeepsProof
<1>6. CASE EnvNext
  BY <1>1, <1>6, EnvKeepsProof
<1>7. CASE UNCHANGED vars
  <2>1. MutualExclusion' /\ Callers' /\ StepsOnIbd' /\ Downtime' /\ CoinsMatchTip'
    BY Zenon, <1>7
       DEF ProofInv, MutualExclusion, Callers, StepsOnIbd, Downtime, CoinsMatchTip, Up, vars
  <2>2. Plain' /\ Assumed' /\ Saved' /\ IbdBuilt'
    BY Zenon, <1>7 DEF ProofInv, Plain, Assumed, Saved, IbdBuilt, Up, vars
  <2> QED BY Zenon, <1>1, <2>1, <2>2 DEF ProofInv
<1> QED BY <1>2, <1>3, <1>4, <1>5, <1>6, <1>7 DEF Next

\* The strengthening holds throughout.
THEOREM ProofInvariant == Sequential /\ Spec => []ProofInv
<1> SUFFICES ASSUME Sequential PROVE Spec => []ProofInv
  OBVIOUS
<1>1. ProofInv /\ [Next]_vars => ProofInv'
  BY ProofInvStep
<1> QED BY <1>1, InitProof, PTL DEF Spec

\* Neither the node nor assumeutxo.dat ever says `completed' of a snapshot that
\* full validation would not confirm: the verdicts of StepBackgroundValidation,
\* ActivateLoadedSnapshot and MaybeRestoreAssumeUtxo are sound, and the coins
\* they are about are the ones served and reopened.
THEOREM Validated == Sequential /\ Spec => []ValidatedIsProven
<1>1. ProofInv => ValidatedIsProven
  <2> SUFFICES ASSUME ProofInv PROVE ValidatedIsProven
    BY SMTT(40)
  <2>1. ASSUME Up, bgStatus = "completed"
        PROVE  Honest(base, expected) /\ cache[pcoins].kind \in SoundKind
    <3>1. snapActive
      BY Zenon, <2>1 DEF ProofInv, Plain
    <3>2. Honest(base, expected) /\ Vouches(cache["snap"], expected) /\ pcoins = "snap"
      BY Zenon, <2>1, <3>1 DEF ProofInv, Assumed
    <3> QED BY Zenon, <3>2, HonestVouches DEF Intact
  <2>2. ASSUME dat.status = "completed"
        PROVE  Honest(dat.base, dat.hash) /\ disk[dir].kind \in SoundKind
    <3>1. dat # NoDat
      BY <2>2 DEF NoDat
    <3>2. Honest(dat.base, dat.hash) /\ Vouches(disk["snap"], dat.hash) /\ dir = "snap"
      BY <2>2, <3>1 DEF ProofInv, Saved
    <3> QED BY Zenon, <3>2, HonestVouches DEF Intact
  <2> QED BY Zenon, <2>1, <2>2 DEF ValidatedIsProven
<1> QED BY <1>1, ProofInvariant, PTL

\* ConnectBlock and DisconnectBlock are always given coins labelled with the
\* active tip, across activation, stepping, stops, crashes and restores.
THEOREM CoinsFollowTip == Sequential /\ Spec => []CoinsMatchTip
BY ProofInvariant, PTL DEF ProofInv

\* The parked IBD chainstate and the active one never share a coins database.
THEOREM StoresApart == Sequential /\ Spec => []StoresSeparate
<1>1. ProofInv => StoresSeparate
  BY Zenon DEF ProofInv, Assumed, StoresSeparate
<1> QED BY <1>1, ProofInvariant, PTL

\* While ConnectBlock rejects no block, chainstate/ is the UTXO set of the block it
\* names: a snapshot that is loaded, activated, proved or dropped never writes to it,
\* and the flushes of StepBackgroundValidation and FlushStateToDisk write whole sets.
THEOREM IbdHonest == Sequential /\ Invalid = {} /\ Spec => []IbdStoreHonest
<1> SUFFICES ASSUME Sequential, Invalid = {} PROVE Spec => []IbdStoreHonest
  BY SMTT(40)
<1>1. ProofInv => IbdStoreHonest
  BY Zenon DEF ProofInv, IbdBuilt, Built, IbdStoreHonest
<1> QED BY <1>1, ProofInvariant, PTL
=============================================================================
