--------------------------- MODULE Session_proofs ---------------------------
(***************************************************************************)
(* When RPC calls do not overlap and the coins are kept in LevelDB, the    *)
(* session that a stop or a crash leaves in assumeutxo.dat is whole: all   *)
(* that MaybeRestoreAssumeUtxo looks up is there.                          *)
(* If the blocks form one chain, too, and the proof is stepped by the node *)
(* alone, then the node keeps the promise that TrustState states.          *)
(***************************************************************************)
EXTENDS DualChainstate_proofs

-----------------------------------------------------------------------------
(* The inductive invariant *)

\* A block index holds the parent of every block it holds.
Closed(i) ==
  /\ i[Genesis] # "unknown"
  /\ \A b \in Block \ {Genesis} : i[b] # "unknown" => i[Parent[b]] # "unknown"
\* What index i knows, index k knows.
Within(i, k) == \A b \in Block : i[b] # "unknown" => k[b] # "unknown"

\* The index on disk is behind the one in memory, which knows the active tip.
Indexed ==
  /\ Closed(idx) /\ Closed(idxDisk) /\ Within(idxDisk, idx)
  /\ idx[activeTip] # "unknown"

\* The snapshot store has a label, and the index on disk knows it and block b.
Findable(b) ==
  /\ idxDisk[b] # "unknown"
  /\ disk["snap"].best # NoBlock /\ idxDisk[disk["snap"].best] # "unknown"

\* A loaded snapshot is flushed under its base; its tip, once attached, is indexed.
Loaded ==
  ~snapActive /\ bg.base # NoBlock =>
    /\ disk["snap"].best = bg.base
    /\ bg.tip # NoBlock => idx[bg.tip] # "unknown"

SessionInv ==
  /\ Indexed /\ Loaded
  /\ snapActive => Findable(base)
  /\ dat # NoDat => Findable(dat.base)

-----------------------------------------------------------------------------
(* The block index *)

\* An index whose entries change without being forgotten stays closed.
LEMMA UpdateCloses ==
  ASSUME NEW i \in [Block -> Stored], Closed(i), NEW b \in Block, NEW s \in Stored \ {"unknown"},
         b = Genesis \/ i[Parent[b]] # "unknown"
  PROVE  Closed([i EXCEPT ![b] = s]) /\ Within(i, [i EXCEPT ![b] = s])
<1> DEFINE k == [i EXCEPT ![b] = s]
<1>1. \A a \in Block : k[a] = IF a = b THEN s ELSE i[a]
  OBVIOUS
<1>2. Genesis \in Block /\ \A a \in Block \ {Genesis} : Parent[a] \in Block
  BY TreeAssumption
<1> QED BY <1>1, <1>2 DEF Closed, Within

\* A known block stays known, and its parent is known.
LEMMA KnownCloses ==
  ASSUME NEW i \in [Block -> Stored], Closed(i), NEW b \in Block, i[b] # "unknown",
         NEW s \in Stored \ {"unknown"}
  PROVE  Closed([i EXCEPT ![b] = s]) /\ Within(i, [i EXCEPT ![b] = s])
BY Zenon, UpdateCloses DEF Closed

\* While the process runs the index in memory only grows, and is what is written.
Grows ==
  /\ idx' \in [Block -> Stored] /\ Closed(idx') /\ Within(idx, idx')
  /\ idxDisk' \in {idxDisk, idx'}

\* Every step either lets the index grow or forgets what is not on disk.
LEMMA GrowsOrForgets ==
  ASSUME ProofInv, Indexed, Next
  PROVE  Grows \/ (idx' = idxDisk' /\ idxDisk' \in {idxDisk, idx} /\ node' = "down")
<1>n. idx \in [Block -> Stored] /\ activeTip \in Block /\ Closed(idx) /\ Within(idx, idx)
  BY DEF ProofInv, TypeInv, TypeOK, Indexed, Within
<1>g. ASSUME NEW b \in Block, idx[b] # "unknown", NEW s \in Stored \ {"unknown"},
             idx' = [idx EXCEPT ![b] = s], idxDisk' \in {idxDisk, idx'}
      PROVE  Grows
  <2>1. [idx EXCEPT ![b] = s] \in [Block -> Stored]
    BY <1>n
  <2> QED BY Zenon, <1>g, <1>n, <2>1, KnownCloses DEF Grows
<1>u. ASSUME idx' = idx, idxDisk' \in {idxDisk, idx}
      PROVE  Grows
  BY <1>n, <1>u DEF Grows
<1>w. \A b \in Block : HaveData(idx, b) => idx[b] # "unknown"
  BY DEF HaveData
<1>v. ASSUME NEW b \in Block, HaveData(idx, b), idxDisk' \in {idxDisk, idx'},
             idx' \in {WithUndo(idx, b), Rejected(idx, b), Pruned(idx, b)}
      PROVE  Grows
  <2>1. \E s \in Stored \ {"unknown"} : idx' = [idx EXCEPT ![b] = s]
    BY <1>v DEF WithUndo, Rejected, Pruned, Stored
  <2> QED BY Zenon, <1>v, <1>g, <1>w, <2>1
<1>1. ASSUME NEW t \in Rpc, RpcNext(t)
      PROVE  Grows \/ (idx' = idxDisk' /\ idxDisk' \in {idxDisk, idx} /\ node' = "down")
  BY Zenon, <1>1, <1>u DEF RpcNext, LoadStart, LoadFinish, LoadFail, ActivateCheck, ActivateRefuse,
     ActivateLocked, ActivateAbort, StepCheck, ForgetMemory, diskVars
<1>2. ASSUME NEW t \in Thread, StepNext(t)
      PROVE  Grows \/ (idx' = idxDisk' /\ idxDisk' \in {idxDisk, idx} /\ node' = "down")
  <2>1. CASE StepIter(t)
    <3> DEFINE h == IF bg.tip = NoBlock THEN -1 ELSE Height[bg.tip]
               next == Ancestor(base, h + 1)
    <3>1. idxDisk' = idxDisk /\ pc[t] = "step_loop"
      BY Zenon, <2>1 DEF StepIter
    <3>2. base \in Block /\ Height[base] \in Nat /\ (bg.tip # NoBlock => Height[bg.tip] \in Nat)
      BY <3>1, TreeAssumption DEF ProofInv, TypeInv, TypeOK, StepsToBase, Slot
    <3>3. CASE h < Height[base] /\ HaveData(idx, next) /\ idx' = WithUndo(idx, next)
      <4>1. h + 1 \in 0..Height[base]
        BY <3>2, <3>3
      <4>2. next \in Block
        BY <3>2, <4>1, AncestorOnPath
      <4> QED BY <1>v, <3>1, <3>3, <4>2
    <3>4. CASE idx' = idx
      BY <1>u, <3>1, <3>4
    <3> QED BY Zenon, <2>1, <3>3, <3>4 DEF StepIter
  <2>2. CASE StepLock(t) \/ StepEnd(t) \/ PersistRemove(t) \/ PersistRename(t)
    BY <2>2, <1>u DEF StepLock, StepEnd, PersistRemove, PersistRename, ForgetMemory, diskVars
  <2> QED BY <1>2, <2>1, <2>2 DEF StepNext
<1>3. ASSUME NetNext PROVE Grows
  <2>1. ASSUME NEW b \in Block, ReceiveHeader(b) PROVE Grows
    <3>1. [idx EXCEPT ![b] = "header"] \in [Block -> Stored]
      BY <1>n DEF Stored
    <3> QED BY Zenon, <2>1, <1>n, <3>1, UpdateCloses DEF ReceiveHeader, Grows, diskVars, Stored
  <2>2. ASSUME NEW b \in Block, ReceiveBlock(b) PROVE Grows
    BY Zenon, <2>2, <1>g DEF ReceiveBlock, diskVars, Stored
  <2>3. CASE AbcConnect
    <3> DEFINE next == Ancestor(loc[Net].most, Height[activeTip] + 1)
    <3>1. /\ idxDisk' = idxDisk /\ loc[Net].most \in Block /\ activeTip # loc[Net].most
          /\ activeTip \in Path[loc[Net].most]
      BY Zenon, <2>3 DEF AbcConnect, diskVars, ProofInv, TypeInv, HasTarget
    <3>2. next \in Block
      BY <3>1, NextExtends
    <3>3. CASE HaveData(idx, next) /\ idx' \in {WithUndo(idx, next), Rejected(idx, next)}
      BY <1>v, <3>1, <3>2, <3>3
    <3>4. CASE idx' = idx
      BY <1>u, <3>1, <3>4
    <3> QED BY Zenon, <2>3, <3>3, <3>4 DEF AbcConnect
  <2>4. CASE AbcRound \/ AbcDisconnect \/ AutoStepCheck
    BY Zenon, <2>4, <1>u DEF AbcRound, AbcDisconnect, AutoStepCheck, diskVars
  <2> QED BY <1>3, <2>1, <2>2, <2>3, <2>4 DEF NetNext
<1>4. ASSUME MainNext
      PROVE  Grows \/ (idx' = idxDisk' /\ idxDisk' \in {idxDisk, idx} /\ node' = "down")
  BY <1>4, <1>u DEF MainNext, Interrupt, Shutdown, StartFails, StartPlain, StartRestored,
     ForgetMemory, diskVars
<1>5. ASSUME EnvNext
      PROVE  Grows \/ (idx' = idxDisk' /\ idxDisk' \in {idxDisk, idx} /\ node' = "down")
  <2>1. ASSUME NEW b \in Block, Prune(b) PROVE Grows
    BY <2>1, <1>v DEF Prune
  <2>2. CASE FlushIndex \/ FlushStateToDisk \/ RequestShutdown \/ Crash \/ OperatorReset
    BY <2>2, <1>u DEF FlushIndex, FlushStateToDisk, RequestShutdown, Crash, OperatorReset,
       ForgetMemory, diskVars
  <2> QED BY <1>5, <2>1, <2>2 DEF EnvNext
<1> QED BY <1>1, <1>2, <1>3, <1>4, <1>5 DEF Next

-----------------------------------------------------------------------------
(* Kinds of steps *)

\* Growing keeps what was indexed; what the disk index knew it goes on knowing.
LEMMA GrowthKeeps ==
  ASSUME TypeOK, Indexed, Grows, activeTip' \in Block, idx'[activeTip'] # "unknown"
  PROVE  Indexed' /\ Within(idxDisk, idxDisk') /\ Within(idx, idx')
BY DEF TypeOK, Indexed, Grows, Closed, Within

\* A step within one process that neither loads nor activates.  The snapshot store
\* is left alone, or written together with the index when it is the active one.
LEMMA RunKeeps ==
  ASSUME ProofInv, TypeInv', SessionInv, Grows,
         idx'[activeTip'] # "unknown", snapActive' = snapActive, base' = base,
         \/ disk'["snap"] = disk["snap"]
         \/ snapActive /\ Up /\ disk'["snap"] = cache["snap"] /\ idxDisk' = idx',
         snapActive \/ (bg'.base = bg.base /\ bg'.tip = bg.tip) \/ bg'.base = NoBlock,
         dat' \in {dat, NoDat} \/ (snapActive /\ dat'.base = base)
  PROVE  SessionInv'
<1>1. /\ base \in Block \cup {NoBlock} /\ activeTip \in Block /\ activeTip' \in Block
      /\ disk["snap"].best \in Block \cup {NoBlock} /\ bg.tip \in Block \cup {NoBlock}
      /\ dat.base \in Block \cup {NoBlock} /\ TypeOK
  BY Zenon DEF ProofInv, TypeInv, TypeOK, View, Store, Slot, Dat
<1>2. Indexed' /\ Within(idxDisk, idxDisk') /\ Within(idx, idx')
  BY <1>1, GrowthKeeps DEF SessionInv
<1>3. (snapActive => base \in Block) /\ (dat # NoDat => dat.base \in Block)
  BY DEF ProofInv, Assumed, Saved, Claimed
<1>4. \A b \in Block : Findable(b) => Findable(b)'
  <2>1. CASE disk'["snap"] = disk["snap"]
    BY <1>1, <1>2, <2>1 DEF Findable, Within
  <2>2. CASE snapActive /\ Up /\ disk'["snap"] = cache["snap"] /\ idxDisk' = idx'
    <3>1. disk'["snap"].best = activeTip
      BY <2>2 DEF ProofInv, Assumed, CoinsMatchTip
    <3>2. idx[activeTip] # "unknown" /\ NoBlock \notin Block
      BY TreeAssumption DEF SessionInv, Indexed
    <3> QED BY SMTT(40), <1>1, <1>2, <2>2, <3>1, <3>2 DEF Findable, Within
  <2> QED BY <2>1, <2>2
<1>5. Loaded'
  BY <1>1, <1>2 DEF SessionInv, Loaded, Within
<1>6. (snapActive => Findable(base))'
  BY <1>3, <1>4 DEF SessionInv
<1>7. (dat # NoDat => Findable(dat.base))'
  <2>1. CASE dat' \in {dat, NoDat}
    BY SMTT(40), <1>3, <1>4, <2>1 DEF SessionInv, NoDat
  <2>2. CASE snapActive /\ dat'.base = base
    BY <1>3, <1>4, <2>2 DEF SessionInv, Findable
  <2> QED BY <2>1, <2>2
<1> QED BY SMTT(40), <1>2, <1>5, <1>6, <1>7 DEF SessionInv

\* The end of the process, by a stop or a crash.
LEMMA EndKeeps ==
  ASSUME ProofInv, TypeInv', SessionInv, ForgetMemory, Up, idxDisk' \in {idxDisk, idx},
         disk'["snap"] = disk["snap"],
         dat' = dat \/ (snapActive /\ dat'.base = base)
  PROVE  SessionInv'
<1>1. /\ Genesis \in Block /\ dat.base \in Block \cup {NoBlock}
      /\ disk["snap"].best \in Block \cup {NoBlock}
  BY Zenon, TreeAssumption DEF ProofInv, TypeInv, TypeOK, View, Store, Dat
<1>2. Indexed'
  BY DEF SessionInv, Indexed, ForgetMemory, Closed, Within
<1>3. ~snapActive' /\ bg'.base = NoBlock
  BY DEF ForgetMemory, IdleSlot
<1>4. Within(idxDisk, idxDisk')
  BY DEF SessionInv, Indexed, Within
<1>5. (snapActive => base \in Block) /\ (dat # NoDat => dat.base \in Block)
  BY DEF ProofInv, Assumed, Saved, Claimed
<1>6. \A b \in Block : Findable(b) => Findable(b)'
  BY <1>1, <1>4 DEF Findable, Within
<1>7. (dat # NoDat => Findable(dat.base))'
  BY <1>5, <1>6 DEF SessionInv, Findable
<1> QED BY SMTT(40), <1>2, <1>3, <1>7 DEF SessionInv, Loaded

-----------------------------------------------------------------------------
(* Every action keeps SessionInv *)

\* Headers, blocks and ActivateBestChain: the tip only moves to indexed blocks.
LEMMA NetKeepsSession ==
  ASSUME ProofInv, TypeInv', SessionInv, NetNext, Grows
  PROVE  SessionInv'
<1>1. UNCHANGED <<disk, dat, snapActive, base, bg>>
  BY Zenon DEF NetNext, ReceiveHeader, ReceiveBlock, AbcRound, AbcDisconnect, AbcConnect,
     AutoStepCheck, diskVars, proofVars
<1>2. activeTip \in Block /\ activeTip' \in Block /\ idx[activeTip] # "unknown" /\ Closed(idx)
  BY Zenon DEF ProofInv, TypeInv, TypeOK, SessionInv, Indexed
<1>3. idx'[activeTip'] # "unknown"
  <2>1. CASE activeTip' = activeTip
    BY <1>2, <2>1 DEF Grows, Within
  <2>2. CASE AbcDisconnect /\ activeTip' = Parent[activeTip]
    <3>1. activeTip # Genesis /\ idx' = idx
      BY Zenon, <1>2, <2>2, TreeAssumption DEF AbcDisconnect
    <3> QED BY SMTT(40), <1>2, <2>2, <3>1 DEF Closed
  <2>3. CASE AbcConnect /\ HaveData(idx, activeTip') 
    <3>1. idx[activeTip'] # "unknown"
      BY <2>3 DEF HaveData
    <3> QED BY <1>2, <3>1 DEF Grows, Within
  <2> QED BY Zenon, <2>1, <2>2, <2>3
             DEF NetNext, ReceiveHeader, ReceiveBlock, AbcRound, AbcDisconnect,
             AbcConnect, AutoStepCheck, chainVars
<1> QED BY <1>1, <1>3, RunKeeps

\* StepBackgroundValidation and the saves: the proof writes chainstate/ only, and
\* what is saved is the live session.
LEMMA StepKeepsSession ==
  ASSUME ProofInv, TypeInv', SessionInv, NEW t \in Thread, StepNext(t), Grows \/ node' = "down"
  PROVE  SessionInv'
<1>1. CASE PersistRename(t) /\ loc[t].next = "down"
  <2>1. snapActive
    BY SMTT(40), <1>1 DEF PersistRename, ProofInv, TypeInv, BeforeActive
  <2> QED BY <1>1, <2>1, EndKeeps DEF PersistRename
<1>2. CASE ~(PersistRename(t) /\ loc[t].next = "down")
  <2>1. snapActive
    BY Zenon DEF StepNext, StepLock, StepIter, StepEnd, PersistRemove, PersistRename, ProofInv,
       TypeInv, BeforeActive
  <2>2. Up /\ UNCHANGED <<activeTip, snapActive, base, node>>
    BY Zenon, <1>2
       DEF StepNext, StepLock, StepIter, StepEnd, PersistRemove, PersistRename, chainVars,
       proofVars
  <2>3. dat' \in {dat, NoDat} \/ dat'.base = base
    <3>1. CASE PersistRemove(t) \/ PersistRename(t)
      BY <3>1 DEF PersistRemove, PersistRename
    <3>2. CASE StepLock(t) \/ StepIter(t) \/ StepEnd(t)
      BY ZenonT(40), <3>2 DEF StepLock, StepIter, StepEnd, diskVars
    <3> QED BY <3>1, <3>2 DEF StepNext
  <2>4. disk'["snap"] = disk["snap"]
    <3>1. bg.coins # "snap" /\ disk \in [Store -> View]
      BY <2>1 DEF ProofInv, Assumed, TypeInv, TypeOK
    <3>2. CASE StepLock(t) \/ PersistRemove(t) \/ PersistRename(t)
      BY <3>2 DEF StepLock, PersistRemove, PersistRename, diskVars
    <3>3. CASE StepEnd(t)
      BY Zenon, <3>1, <3>3 DEF StepEnd, CheckDigest, Flushed, Store
    <3>4. CASE StepIter(t)
      <4>1. \E v \in {cache[bg.coins], cache'[bg.coins]} :
               disk' \in {disk, [disk EXCEPT ![bg.coins] = v]}
        BY Zenon, <3>4 DEF StepIter, CheckDigest, Flushed, coinVars
      <4> QED BY <3>1, <4>1 DEF Store
    <3> QED BY SMTT(40), <3>2, <3>3, <3>4 DEF StepNext
  <2>5. Grows /\ idx'[activeTip'] # "unknown"
    BY <2>2 DEF Grows, Within, Up, SessionInv, Indexed, ProofInv, TypeInv, TypeOK
  <2> QED BY Zenon, <2>1, <2>2, <2>3, <2>4, <2>5, RunKeeps
<1> QED BY <1>1, <1>2

\* loadtxoutset and activatesnapshot: the store is labelled before it can be
\* activated, and the index is written before the session is saved.
LEMMA RpcKeepsSession ==
  ASSUME Sequential, ProofInv, TypeInv', SessionInv, NEW t \in Rpc, RpcNext(t),
         Grows \/ node' = "down"
  PROVE  SessionInv'
<1>t. t \in Thread /\ TypeOK /\ TypeOK' /\ idx[activeTip] # "unknown" /\ activeTip \in Block
  BY Zenon DEF Thread, ProofInv, TypeInv, TypeOK, SessionInv, Indexed
<1>u. ASSUME UNCHANGED <<activeTip, snapActive, base, dat, node>>, Up,
             disk'["snap"] = disk["snap"], bg' = bg \/ bg'.base = NoBlock
      PROVE  SessionInv'
  <2>1. Grows /\ idx'[activeTip'] # "unknown"
    BY Zenon, <1>t, <1>u DEF Grows, Within, Up
  <2> QED BY Zenon, <1>u, <2>1, RunKeeps
<1>1. ASSUME NEW f \in Snapshot, LoadStart(t, f) PROVE SessionInv'
  <2>1. ~snapActive /\ dat = NoDat
    BY <1>1 DEF LoadStart, SnapshotDirOpen, Sequential, ProofInv, Assumed, Plain, Serving
  <2>2. UNCHANGED <<idx, idxDisk, activeTip, snapActive, dat>> /\ bg'.base = NoBlock
    BY SMTT(30), <1>1 DEF LoadStart, chainVars, IdleSlot
  <2> QED BY ZenonT(20), <2>1, <2>2 DEF SessionInv, Indexed, Loaded
<1>2. CASE LoadFinish(t)
  <2>1. ~snapActive /\ loc[t].file \in Snapshot
    BY SMTT(40), <1>2, <1>t DEF LoadFinish, ProofInv, Assumed, Plain
  <2>2. bg.coins = "snap" /\ dat = NoDat
    BY Zenon, <1>2, <1>t, <2>1 DEF LoadFinish, ProofInv, TypeInv, BeforeActive, Plain
  <2>3. UNCHANGED <<idx, idxDisk, activeTip, snapActive, dat>>
    BY SMTT(40), <1>2 DEF LoadFinish, chainVars
  <2>4. /\ disk'["snap"].best = loc[t].file.best /\ bg'.base = loc[t].file.best
        /\ bg'.tip # NoBlock => idx[bg'.tip] # "unknown"
    BY Zenon, <1>2, <1>t, <2>2 DEF LoadFinish, TypeOK, Store, Slot
  <2> QED BY <2>1, <2>2, <2>3, <2>4 DEF SessionInv, Indexed, Loaded
<1>3. CASE ActivateLocked(t) \/ ActivateAbort(t)
  <2>1. ~snapActive /\ bg.base # NoBlock
    BY <1>3, <1>t DEF ActivateLocked, ActivateAbort, ProofInv, Assumed, Plain
  <2>2. /\ bg.coins = "snap" /\ pcoins = "ibd" /\ bg.tip \in {NoBlock, bg.base} /\ dat = NoDat
        /\ bg.base \in Block
    BY <1>3, <2>1 DEF ActivateLocked, ActivateAbort, ProofInv, Plain, Claimed
  <2>3. ActivateLocked(t)
    BY <1>3, <2>2 DEF ActivateAbort
  <2>4. bg.tip # NoBlock
    BY <1>t, <2>1, <2>3 DEF ActivateLocked, ProofInv, TypeInv, BeforeActive
  <2>5. /\ idxDisk' = idx /\ idx' = idx /\ activeTip' = bg.base /\ base' = bg.base
        /\ snapActive' /\ dat' = dat
    BY <2>1, <2>2, <2>3, <2>4 DEF ActivateLocked, SnapTip, SnapBase
  <2>6. disk'["snap"] = disk["snap"]
    BY SMTT(40), <1>t, <2>2, <2>3 DEF ActivateLocked, Flushed, TypeOK, Store
  <2>7. disk["snap"].best = bg.base /\ idx[bg.base] # "unknown" /\ NoBlock \notin Block
    BY Zenon, <2>1, <2>2, <2>4, TreeAssumption DEF SessionInv, Loaded
  <2>8. Findable(base)' /\ Loaded'
    BY SMTT(40), <2>2, <2>5, <2>6, <2>7 DEF Findable, Loaded
  <2>9. Indexed'
    BY <2>5, <2>7 DEF SessionInv, Indexed, Within
  <2> QED BY SMTT(40), <2>2, <2>5, <2>8, <2>9 DEF SessionInv
<1>4. CASE LoadFail(t)
  <2>1. bg'.base = NoBlock
    BY SMTT(40), <1>4 DEF LoadFail, IdleSlot
  <2> QED BY SMTT(40), <1>4, <1>u, <2>1 DEF LoadFail, diskVars, chainVars, proofVars
<1>5. CASE ActivateCheck(t) \/ ActivateRefuse(t)
  BY Zenon, <1>5, <1>u DEF ActivateCheck, ActivateRefuse, Serving, diskVars, chainVars, proofVars
<1>6. ASSUME NEW n \in RpcBatch, StepCheck(t, n) PROVE SessionInv'
  BY <1>6, <1>u DEF StepCheck, Serving, diskVars, chainVars, proofVars
<1> QED BY SMTT(40), <1>1, <1>2, <1>3, <1>4, <1>5, <1>6 DEF RpcNext

\* Stopping and starting: a restored session is found where it was saved.
LEMMA MainKeepsSession ==
  ASSUME ProofInv, TypeInv', SessionInv, MainNext, Grows \/ node' = "down"
  PROVE  SessionInv'
<1>t. /\ TypeOK /\ TypeOK' /\ Closed(idx) /\ Closed(idxDisk) /\ Within(idxDisk, idx)
      /\ activeTip \in Block /\ idx[activeTip] # "unknown"
  BY Zenon DEF ProofInv, TypeInv, TypeOK, SessionInv, Indexed
<1>1. CASE Interrupt \/ StartFails
  <2>1. UNCHANGED <<idx, idxDisk, disk, dat, activeTip, snapActive, base, bg>>
    BY SMTT(40), <1>1 DEF Interrupt, StartFails, diskVars, chainVars, proofVars
  <2> QED BY Zenon, <2>1 DEF SessionInv, Indexed, Loaded, Findable
<1>2. CASE Shutdown /\ snapActive
  <2>1. /\ UNCHANGED <<idx, dat, activeTip, snapActive, base, bg>> /\ idxDisk' = idx /\ Up
        /\ disk' = Flushed(pcoins)
    BY <1>2 DEF Shutdown, chainVars, proofVars
  <2>2. disk'["snap"] = cache["snap"]
    BY ZenonT(40), <1>2, <1>t, <2>1 DEF Flushed, TypeOK, Store, ProofInv, Assumed
  <2>3. Grows
    BY Zenon, <1>t, <2>1 DEF Grows, Within, TypeOK
  <2> QED BY Zenon, <1>2, <1>t, <2>1, <2>2, <2>3, RunKeeps
<1>3. CASE Shutdown /\ ~snapActive
  <2>1. pcoins = "ibd"
    BY Zenon, <1>3 DEF ProofInv, Plain
  <2>2. disk'["snap"] = disk["snap"]
    BY Zenon, <1>3, <1>t, <2>1 DEF Shutdown, Flushed, TypeOK, Store
  <2> QED BY Zenon, <1>3, <2>2, EndKeeps DEF Shutdown
<1>4. CASE StartPlain
  <2>1. /\ UNCHANGED <<idx, idxDisk, disk, snapActive, base, bg>> /\ dat' = NoDat
        /\ activeTip' = disk["ibd"].best
    BY <1>4 DEF StartPlain, proofVars
  <2>2. idxDisk[activeTip'] # "unknown" /\ activeTip' \in Block
    BY SMTT(40), <1>4, <1>t, <2>1 DEF StartPlain, IbdIndexed, TypeOK
  <2>3. idx'[activeTip'] # "unknown" /\ Grows
    BY Zenon, <1>t, <2>1, <2>2 DEF Grows, Within, TypeOK
  <2> QED BY Zenon, <2>1, <2>3, RunKeeps
<1>5. CASE StartRestored
  <2>1. dir = "snap" /\ RestoreAccepts /\ dat # NoDat
    BY <1>5 DEF StartRestored, Resuming, ProofInv, Saved
  <2>2. /\ UNCHANGED <<idx, idxDisk, dat>> /\ snapActive' /\ base' = dat.base
        /\ activeTip' = disk["snap"].best
    BY <1>5, <2>1 DEF StartRestored
  <2>3. disk'["snap"] = disk["snap"]
    BY <1>5, <1>t, <2>1 DEF StartRestored, TypeOK, Store
  <2>4. Findable(dat.base)
    BY SMTT(40), <2>1 DEF SessionInv
  <2>5. idx'[activeTip'] # "unknown"
    BY Zenon, <1>t, <2>2, <2>4 DEF Findable, Within, TypeOK
  <2> QED BY Zenon, <1>t, <2>2, <2>3, <2>4, <2>5 DEF SessionInv, Indexed, Loaded, Findable
<1> QED BY SMTT(40), <1>1, <1>2, <1>3, <1>4, <1>5 DEF MainNext

\* Flushes, pruning, crashes and the operator's reset.
LEMMA EnvKeepsSession ==
  ASSUME ProofInv, TypeInv', SessionInv, EnvNext, Grows \/ node' = "down"
  PROVE  SessionInv'
<1>t. TypeOK /\ activeTip \in Block /\ idx[activeTip] # "unknown"
  BY Zenon DEF ProofInv, TypeInv, TypeOK, SessionInv, Indexed
<1>1. CASE Crash
  BY SMTT(40), <1>1, EndKeeps DEF Crash, diskVars
<1>2. CASE OperatorReset
  BY Zenon, <1>2
     DEF OperatorReset, chainVars, proofVars, SessionInv, Indexed, Loaded, Findable, NoDat
<1>3. CASE FlushIndex \/ FlushStateToDisk \/ (\E b \in Block : Prune(b)) \/ RequestShutdown
  <2>1. Up /\ UNCHANGED <<activeTip, snapActive, base, bg, dat, node>>
    BY Zenon, <1>3 DEF FlushIndex, FlushStateToDisk, Prune, RequestShutdown, MayFlush, chainVars,
       proofVars, diskVars
  <2>2. disk' = disk \/ (disk' = Flushed(pcoins) /\ idxDisk' = idx')
    BY SMTT(40), <1>3 DEF FlushIndex, FlushStateToDisk, Prune, RequestShutdown, coinVars, diskVars
  <2>3. pcoins = IF snapActive THEN "snap" ELSE "ibd"
    BY Zenon DEF ProofInv, Assumed, Plain
  <2>4. \/ disk'["snap"] = disk["snap"]
        \/ snapActive /\ disk'["snap"] = cache["snap"] /\ idxDisk' = idx'
    BY Zenon, <1>t, <2>2, <2>3 DEF Flushed, TypeOK, Store
  <2>5. Grows /\ idx'[activeTip'] # "unknown"
    BY SMTT(40), <1>t, <2>1 DEF Grows, Within, Up
  <2> QED BY Zenon, <2>1, <2>4, <2>5, RunKeeps
<1> QED BY SMTT(40), <1>1, <1>2, <1>3 DEF EnvNext

-----------------------------------------------------------------------------
\* At the start no snapshot is in use, and the index is a tree.
LEMMA InitSession == Init => SessionInv
<1> SUFFICES ASSUME Init PROVE SessionInv
  BY SMTT(40)
<1>1. /\ Genesis \in Block
      /\ \A b \in Block : idx[b] # "unknown" <=> b = Genesis \/ b \in KnownAtStart
  BY Zenon, TreeAssumption DEF Init
<1>2. Closed(idx)
  BY Zenon, <1>1, TreeAssumption, ConfigAssumption, HeadersAssumption DEF Closed
<1>3. Indexed
  BY <1>1, <1>2 DEF Init, Indexed, Within
<1> QED BY Zenon, <1>3 DEF Init, SessionInv, Loaded, IdleSlot

\* Every step keeps the invariant of the session.
LEMMA SessionInvStep ==
  Sequential /\ ProofInv /\ ProofInv' /\ SessionInv /\ [Next]_vars => SessionInv'
<1> SUFFICES ASSUME Sequential, ProofInv, ProofInv', SessionInv, [Next]_vars PROVE SessionInv'
  OBVIOUS
<1>1. TypeInv'
  BY SMTT(40) DEF ProofInv
<1>2. CASE UNCHANGED vars
  BY Zenon, <1>2 DEF vars, SessionInv, Indexed, Loaded, Findable
<1>3. CASE Next
  <2>1. Grows \/ node' = "down"
    BY <1>3, GrowsOrForgets DEF SessionInv
  <2>2. ASSUME NEW t \in Rpc, RpcNext(t) PROVE SessionInv'
    BY <1>1, <2>1, <2>2, RpcKeepsSession
  <2>3. ASSUME NEW t \in Thread, StepNext(t) PROVE SessionInv'
    BY <1>1, <2>1, <2>3, StepKeepsSession
  <2>4. CASE NetNext
    <3>1. Up /\ node' = node
      BY Zenon, <2>4 DEF NetNext, ReceiveHeader, ReceiveBlock, AbcRound, AbcDisconnect, AbcConnect,
         AutoStepCheck, Serving
    <3> QED BY <1>1, <2>1, <2>4, <3>1, NetKeepsSession DEF Up
  <2>5. CASE MainNext
    BY <1>1, <2>1, <2>5, MainKeepsSession
  <2>6. CASE EnvNext
    BY <1>1, <2>1, <2>6, EnvKeepsSession
  <2> QED BY <1>3, <2>2, <2>3, <2>4, <2>5, <2>6 DEF Next
<1> QED BY <1>2, <1>3

\* Whenever the process is down, whatever ended it, a session in assumeutxo.dat has
\* its directory, a labelled snapshot store, and an index on disk that knows its base
\* and that label: MaybeRestoreAssumeUtxo finds everything it looks up.
THEOREM SessionWhole == Sequential /\ Spec => []SavedSessionWhole
<1> SUFFICES ASSUME Sequential PROVE Spec => []SavedSessionWhole
  BY SMTT(40)
<1>1. ProofInv /\ SessionInv => SavedSessionWhole
  BY Zenon DEF ProofInv, Saved, SessionInv, Findable, SavedSessionWhole, Resuming
<1>2. ProofInv /\ ProofInv' /\ SessionInv /\ [Next]_vars => SessionInv'
  BY SessionInvStep
<1>3. Spec => []ProofInv
  BY ProofInvariant
<1> QED BY <1>1, <1>2, <1>3, InitSession, PTL DEF Spec

-----------------------------------------------------------------------------
(* The promise to the user: the invariant under which every step maps to a step of
   TrustState *)

\* The blocks form one chain.
OneChain == \A b, c \in Block : Height[b] = Height[c] => b = c
\* The proof is stepped by ActivateBestChain alone, in batches that end before the
\* background coins are flushed (32 blocks of 100).
Automatic == RpcBatch = {} /\ AutoBatch < FlushEvery

\* Only the network thread steps the proof, and never saves in the middle of it.
OneStepper ==
  /\ \A t \in Thread \ {Net} : pc[t] \notin {"step_lock", "step_loop"}
  /\ \A t \in Thread : pc[t] \in {"remove", "rename"} => loc[t].next # "step_loop"
  /\ pc[Net] \in {"step_lock", "step_loop"} =>
       ProofRunning /\ loc[Net].conn + loc[Net].left <= AutoBatch

\* While a proof runs the parked tip is the block of the parked coins, not above the
\* base.
Underway ==
  ProofRunning => /\ bg.coins = "ibd" /\ bg.tip = cache["ibd"].best
                  /\ Height[bg.tip] <= Height[base]

\* chainstate/ is the set of an indexed block, and the coins above it are, too, until
\* a block is rejected.
IbdSound ==
  /\ disk["ibd"].kind = "true" /\ idxDisk[disk["ibd"].best] # "unknown"
  /\ cache["ibd"].kind = "true" \/ (snapActive /\ bgStatus = "failed")
  /\ snapActive => Height[disk["ibd"].best] <= Height[base]
  /\ dat # NoDat => Height[disk["ibd"].best] <= Height[dat.base]

\* A verdict on disk is the one in memory.
VerdictSaved ==
  snapActive /\ dat # NoDat /\ dat.status \in {"completed", "failed"} => bgStatus = dat.status

PromiseInv == OneStepper /\ Underway /\ IbdSound /\ VerdictSaved

-----------------------------------------------------------------------------
(* What a user is told *)

\* On one chain a lower block is an ancestor.
LEMMA OnOneChain ==
  ASSUME OneChain, NEW a \in Block, NEW b \in Block, Height[a] <= Height[b]
  PROVE  a \in Path[b]
<1>1. Height[a] \in 0..Height[b]
  BY TreeAssumption
<1>2. Ancestor(b, Height[a]) \in Path[b] /\ Height[Ancestor(b, Height[a])] = Height[a]
      /\ Ancestor(b, Height[a]) \in Block
  BY <1>1, AncestorOnPath
<1> QED BY Zenon, <1>2 DEF OneChain

\* Coins that full validation built at the base match the claim exactly if it is
\* honest.
LEMMA VerdictIsRight ==
  ASSUME NEW v \in View, Built(v), v.kind = "true", NEW b, v.best = b, NEW h \in Hash, Claimed(b, h)
  PROVE  Digest(v) = h <=> Honest(b, h)
<1>1. v = TrueView(b)
  BY DEF View, Built, TrueView
<1>2. Honest(b, h) => h = Digest(v)
  BY Zenon, <1>1 DEF Honest
<1> QED BY Zenon, <1>2, MatchIsProof

\* The blocks that the two IBD views stand for.
LEMMA IbdBlocks ==
  ASSUME ProofInv, PromiseInv
  PROVE  /\ disk["ibd"] \in View /\ cache["ibd"] \in View
         /\ disk["ibd"].best \in Block
         /\ cache["ibd"].kind = "true" =>
              cache["ibd"].best \in Block /\ cache["ibd"].at = cache["ibd"].best
         /\ ~snapActive \/ ProofRunning => cache["ibd"].kind = "true"
<1>1. disk["ibd"] \in View /\ cache["ibd"] \in View
  BY Zenon DEF ProofInv, TypeInv, TypeOK, Store
<1>2. Built(disk["ibd"]) /\ Built(cache["ibd"])
  BY Zenon DEF ProofInv, IbdBuilt
<1>3. disk["ibd"].best \in Block
  BY Zenon, <1>2 DEF PromiseInv, IbdSound, Built
<1>4. cache["ibd"].kind = "true" =>
        cache["ibd"].best \in Block /\ cache["ibd"].at = cache["ibd"].best
  BY Zenon, <1>2 DEF Built
<1>5. ~snapActive \/ ProofRunning => cache["ibd"].kind = "true"
  BY DEF PromiseInv, IbdSound, ProofRunning
<1> QED BY Zenon, <1>1, <1>3, <1>4, <1>5

\* One thread moves, and no proof begins or ends under another's feet.
LEMMA StepperMoves ==
  ASSUME OneStepper, NEW t \in Thread,
         \A u \in Thread \ {t} : pc'[u] = pc[u] /\ loc'[u] = loc[u],
         pc'[t] \notin {"step_lock", "step_loop"},
         pc'[t] \in {"remove", "rename"} => loc'[t].next # "step_loop",
         t = Net \/ (ProofRunning => ProofRunning')
  PROVE  OneStepper'
<1>1. Net \in Thread
  BY Zenon DEF Thread
<1> QED BY Zenon, <1>1 DEF OneStepper

\* A step that leaves the session and the IBD coins alone.
LEMMA PromiseStays ==
  ASSUME ProofInv, PromiseInv, SessionInv, Within(idxDisk, idxDisk'), OneStepper',
         UNCHANGED <<snapActive, bg, bgStatus, base, dat>>,
         cache'["ibd"] = cache["ibd"], disk'["ibd"] = disk["ibd"]
  PROVE  PromiseInv'
<1>1. disk["ibd"].best \in Block
  BY Zenon, IbdBlocks
<1>2. Underway' /\ VerdictSaved'
  BY Zenon DEF PromiseInv, Underway, VerdictSaved, ProofRunning
<1>3. IbdSound'
  BY Zenon, <1>1 DEF PromiseInv, IbdSound, Within
<1> QED BY Zenon, <1>2, <1>3 DEF PromiseInv

\* The live session is what the user is told.
LEMMA LiveTold ==
  ASSUME Up, snapActive
  PROVE  Trusted = Outcome(bgStatus) /\ Session = [base |-> base, hash |-> expected]
BY Zenon DEF Trusted, Session, Live

\* Without a session nothing is told.
LEMMA NothingTold ==
  ASSUME dat = NoDat \/ dir = "none", ~Up \/ ~snapActive
  PROVE  Trusted = "none" /\ Session = NoSession
BY Zenon DEF Trusted, Session, Live, Resuming

\* A saved session is told while the process is down.
LEMMA SavedTold ==
  ASSUME dat # NoDat, dir # "none", ~Up \/ ~snapActive
  PROVE  Trusted = Outcome(dat.status) /\ Session = [base |-> dat.base, hash |-> dat.hash]
BY Zenon DEF Trusted, Session, Live, Resuming

\* A step of TrustState, or nothing new.
Told == [Promise!Next]_(Promise!trustVars)

\* Nothing new is told when the session and the process stay as they are.
LEMMA SameTold ==
  ASSUME UNCHANGED <<node, snapActive, bgStatus, base, expected, dat>>,
         dir' = dir \/ dat = NoDat \/ (Up /\ snapActive)
  PROVE  Told
<1>1. Trusted' = Trusted /\ Session' = Session
  BY Zenon DEF Trusted, Session, Live, Resuming, Up
<1> QED BY Zenon, <1>1 DEF Told, Promise!trustVars

\* Headers, blocks and ActivateBestChain: nothing is told, and the proof is stepped
\* only while it runs.
LEMMA NetKeepsPromise ==
  ASSUME ProofInv, ProofInv', SessionInv, PromiseInv, NetNext
  PROVE  PromiseInv' /\ Told
<1>n. TypeOK /\ Net \in Thread
  BY Zenon DEF ProofInv, TypeInv, Thread
<1>1. /\ UNCHANGED <<idxDisk, disk, dir, dat, pcoins, snapActive, bg, bgStatus, base, expected, node>>
      /\ Up
  BY Zenon DEF NetNext, ReceiveHeader, ReceiveBlock, AbcRound, AbcDisconnect, AbcConnect,
     AutoStepCheck, diskVars, proofVars, Serving
<1>2. Told
  BY Zenon, <1>1, SameTold
<1>3. OneStepper'
  <2>1. CASE UNCHANGED <<pc, loc>>
    BY Zenon, <1>1, <2>1 DEF PromiseInv, OneStepper, ProofRunning
  <2>2. CASE \E label \in {"idle", "abc", "abc_step", "step_check"} : \E l : Goto(Net, label, l)
    <3>0. PICK label \in {"idle", "abc", "abc_step", "step_check"} : \E l : Goto(Net, label, l)
      BY <2>2
    <3>1. PICK l : Goto(Net, label, l)
      BY <3>0
    <3>2. pc'[Net] = label /\ \A u \in Thread \ {Net} : pc'[u] = pc[u] /\ loc'[u] = loc[u]
      BY Zenon, <1>n, <3>1 DEF Goto, TypeOK
    <3> QED BY <1>n, <3>1, <3>2, StepperMoves DEF PromiseInv
  <2>3. CASE ProofRunning /\ Goto(Net, "step_lock", [NoLocal EXCEPT !.left = AutoBatch])
    <3>1. /\ pc'[Net] = "step_lock" /\ loc'[Net] = [NoLocal EXCEPT !.left = AutoBatch]
          /\ \A u \in Thread \ {Net} : pc'[u] = pc[u] /\ loc'[u] = loc[u]
      BY Zenon, <1>n, <2>3 DEF Goto, TypeOK
    <3>2. loc'[Net].conn + loc'[Net].left <= AutoBatch
      BY <3>1, ConfigAssumption DEF NoLocal
    <3>3. ProofRunning'
      BY Zenon, <1>1, <2>3 DEF ProofRunning
    <3> QED BY <3>1, <3>2, <3>3 DEF PromiseInv, OneStepper
  <2>4. CASE (\E b \in Block : ReceiveHeader(b) \/ ReceiveBlock(b)) \/ AbcRound
    BY Zenon, <2>1, <2>2, <2>4 DEF ReceiveHeader, ReceiveBlock, AbcRound, Return
  <2>5. CASE AbcDisconnect \/ AbcConnect
    BY Zenon, <2>1, <2>2, <2>5 DEF AbcDisconnect, AbcConnect, AbcError, AbcRoundEnd, Return
  <2>6. CASE AutoStepCheck
    BY Zenon, <2>2, <2>3, <2>6 DEF AutoStepCheck, Return
  <2> QED BY Zenon, <2>4, <2>5, <2>6 DEF NetNext
<1>4. cache'["ibd"] = cache["ibd"] \/ (~snapActive /\ cache'["ibd"].kind = "true")
  <2>1. pcoins = IF snapActive THEN "snap" ELSE "ibd"
    BY Zenon DEF ProofInv, Assumed, Plain
  <2>2. ~snapActive =>
          /\ cache["ibd"].kind = "true" /\ cache["ibd"].at = activeTip
    BY Zenon, <1>1, <2>1, IbdBlocks DEF ProofInv, CoinsMatchTip
  <2>3. ASSUME NEW v \in View, cache' = [cache EXCEPT ![pcoins] = v], ~snapActive => v.kind = "true"
        PROVE  cache'["ibd"] = cache["ibd"] \/ (~snapActive /\ cache'["ibd"].kind = "true")
    BY Zenon, <1>n, <2>1, <2>3 DEF TypeOK, Store
  <2>4. cache[pcoins] \in View /\ activeTip \in Block
    BY Zenon, <1>n DEF TypeOK
  <2>5. CASE UNCHANGED cache
    BY Zenon, <2>5
  <2>6. CASE AbcDisconnect /\ cache' = [cache EXCEPT ![pcoins] = DisconnectView(@, activeTip)]
    <3>1. ~snapActive => DisconnectView(cache[pcoins], activeTip).kind = "true"
      BY Zenon, <2>1, <2>2 DEF DisconnectView
    <3>2. DisconnectView(cache[pcoins], activeTip) \in View
      BY Zenon, <2>4, ValueTypes
    <3> QED BY Zenon, <2>3, <2>6, <3>1, <3>2
  <2>7. CASE AbcConnect /\ cache' # cache
    <3> DEFINE next == Ancestor(loc[Net].most, Height[activeTip] + 1)
    <3>1. cache' = [cache EXCEPT ![pcoins] = ConnectView(@, next)]
      BY Zenon, <2>7 DEF AbcConnect
    <3>2. loc[Net].most \in Block /\ activeTip \in Path[loc[Net].most] /\ activeTip # loc[Net].most
      BY Zenon, <2>7 DEF AbcConnect, ProofInv, TypeInv, HasTarget
    <3>3. next \in Block /\ Parent[next] = activeTip
      BY Zenon, <3>2, NextExtends
    <3>4. ~snapActive => ConnectView(cache[pcoins], next).kind = "true"
      BY Zenon, <2>1, <2>2, <3>3 DEF ConnectView
    <3>5. ConnectView(cache[pcoins], next) \in View
      BY Zenon, <2>4, <3>3, ValueTypes
    <3> HIDE DEF next
    <3> QED BY Zenon, <2>3, <3>1, <3>4, <3>5
  <2> QED BY Zenon, <2>5, <2>6, <2>7
             DEF NetNext, ReceiveHeader, ReceiveBlock, AbcRound, AbcDisconnect, AutoStepCheck
<1>5. Within(idxDisk, idxDisk')
  BY Zenon, <1>1 DEF Within
<1>6. CASE cache'["ibd"] = cache["ibd"]
  BY Zenon, <1>1, <1>2, <1>3, <1>5, <1>6, PromiseStays
<1>7. CASE ~snapActive /\ cache'["ibd"].kind = "true"
  <2>1. Underway' /\ VerdictSaved'
    BY Zenon, <1>1, <1>7 DEF Underway, VerdictSaved, ProofRunning
  <2>2. IbdSound'
    BY Zenon, <1>1, <1>7 DEF PromiseInv, IbdSound
  <2> QED BY Zenon, <1>2, <1>3, <2>1, <2>2 DEF PromiseInv
<1> QED BY Zenon, <1>4, <1>6, <1>7

\* The process ends, and what was saved is told.
LEMMA EndTold ==
  ASSUME ProofInv, ProofInv', PromiseInv, Up, ~Up', dir' = dir,
         dat' = dat \/ (snapActive /\ dat' = [base |-> base, hash |-> expected, status |-> bgStatus])
  PROVE  Told
<1>1. CASE ~snapActive
  <2>1. dat = NoDat /\ dat' = NoDat
    BY Zenon, <1>1 DEF ProofInv, Plain
  <2>2. Trusted = "none" /\ Session = NoSession
    BY Zenon, <1>1, <2>1, NothingTold
  <2>3. Trusted' = "none" /\ Session' = NoSession
    BY Zenon, <2>1 DEF Trusted, Session, Live, Resuming
  <2> QED BY Zenon, <2>2, <2>3 DEF Told, Promise!trustVars
<1>2. CASE snapActive
  <2>1. Trusted = Outcome(bgStatus) /\ Session = [base |-> base, hash |-> expected]
    BY Zenon, <1>2, LiveTold
  <2>2. dir' = "snap" /\ Outcome(bgStatus) # "none"
    BY Zenon, <1>2 DEF ProofInv, Assumed, Outcome
  <2>3. CASE dat' = NoDat
    <3>1. Trusted' = "none" /\ Session' = NoSession
      BY Zenon, <2>3 DEF Trusted, Session, Live, Resuming
    <3> QED BY Zenon, <2>1, <2>2, <3>1 DEF Told, Promise!Next, Promise!Forget
  <2>4. CASE dat' # NoDat
    <3>1. Trusted' = Outcome(dat'.status) /\ Session' = [base |-> dat'.base, hash |-> dat'.hash]
      BY Zenon, <2>2, <2>4 DEF Trusted, Session, Live, Resuming
    <3>a. dat # NoDat =>
            /\ dat.base = base /\ dat.hash = expected
            /\ dat.status = bgStatus \/ dat.status \notin {"completed", "failed"}
      BY Zenon, <1>2 DEF ProofInv, Assumed, PromiseInv, VerdictSaved
    <3>2. /\ dat'.base = base /\ dat'.hash = expected
          /\ dat'.status = bgStatus \/ dat'.status \notin {"completed", "failed"}
      BY <2>4, <3>a
    <3>4. CASE dat'.status = bgStatus
      BY Zenon, <2>1, <3>1, <3>2, <3>4 DEF Told, Promise!trustVars
    <3>5. CASE dat'.status \notin {"completed", "failed"}
      <4>1. Trusted' = "assumed"
        BY Zenon, <3>1, <3>5 DEF Outcome
      <4>2. Trusted \in {"assumed", "validated", "failed"}
        BY Zenon, <2>1 DEF Outcome
      <4> QED BY Zenon, <2>1, <3>1, <3>2, <4>1, <4>2
                 DEF Told, Promise!Next, Promise!Revert, Promise!trustVars
    <3> QED BY Zenon, <3>2, <3>4, <3>5
  <2> QED BY Zenon, <2>3, <2>4
<1> QED BY Zenon, <1>1, <1>2

\* What is left of the process keeps the invariant.
LEMMA EndPromise ==
  ASSUME ProofInv, ProofInv', SessionInv, PromiseInv, Up, ForgetMemory, dir' = dir,
         dat' = dat \/ (snapActive /\ dat'.base = base),
         Within(idxDisk, idxDisk'),
         \/ disk'["ibd"] = disk["ibd"]
         \/ ~snapActive /\ disk'["ibd"] = cache["ibd"] /\ idxDisk' = idx
  PROVE  PromiseInv'
<1>1. ~snapActive' /\ cache' = disk' /\ \A t \in Thread : pc'[t] = "idle"
  BY Zenon DEF ForgetMemory
<1>2. OneStepper' /\ Underway' /\ VerdictSaved'
  <2>1. Net \in Thread
    BY Zenon DEF Thread
  <2> QED BY <1>1, <2>1 DEF OneStepper, Underway, VerdictSaved, ProofRunning
<1>3. CASE disk'["ibd"] = disk["ibd"]
  <2>1. disk["ibd"].best \in Block
    BY Zenon, IbdBlocks
  <2>2. disk'["ibd"].kind = "true" /\ idxDisk'[disk'["ibd"].best] # "unknown"
    BY Zenon, <1>3, <2>1 DEF PromiseInv, IbdSound, Within
  <2>3. dat' # NoDat => Height[disk'["ibd"].best] <= Height[dat'.base]
    BY Zenon, <1>3 DEF PromiseInv, IbdSound
  <2> QED BY Zenon, <1>1, <1>2, <2>2, <2>3 DEF PromiseInv, IbdSound
<1>4. CASE ~snapActive /\ disk'["ibd"] = cache["ibd"] /\ idxDisk' = idx
  <2>1. dat' = NoDat /\ pcoins = "ibd"
    BY Zenon, <1>4 DEF ProofInv, Plain
  <2>2. cache["ibd"].kind = "true" /\ cache["ibd"].best = activeTip
    BY Zenon, <1>4, <2>1, IbdBlocks DEF ProofInv, CoinsMatchTip
  <2>3. idx[activeTip] # "unknown"
    BY Zenon DEF SessionInv, Indexed
  <2> QED BY Zenon, <1>1, <1>2, <1>4, <2>1, <2>2, <2>3 DEF PromiseInv, IbdSound
<1> QED BY Zenon, <1>3, <1>4

\* Flushes, pruning, crashes and the operator's reset.
LEMMA EnvKeepsPromise ==
  ASSUME ProofInv, ProofInv', SessionInv, SessionInv', PromiseInv, EnvNext
  PROVE  PromiseInv' /\ Told
<1>n. TypeOK /\ TypeOK'
  BY Zenon DEF ProofInv, TypeInv
<1>1. CASE Crash
  <2>1. dat' = dat /\ dir' = dir /\ disk' = disk /\ idxDisk' = idxDisk /\ Up /\ ~Up'
    BY <1>1 DEF Crash, diskVars, Up
  <2>2. ForgetMemory /\ Within(idxDisk, idxDisk')
    BY Zenon, <1>1, <2>1 DEF Crash, Within
  <2> QED BY Zenon, <2>1, <2>2, EndTold, EndPromise
<1>2. CASE OperatorReset
  <2>1. /\ UNCHANGED <<idxDisk, disk, cache, snapActive, bg, bgStatus, base, pc, loc>>
        /\ dat' = NoDat /\ dir' = "none" /\ ~Up /\ ~Up'
    BY <1>2 DEF OperatorReset, chainVars, proofVars, Up
  <2>2. PromiseInv'
    BY Zenon, <2>1 DEF PromiseInv, OneStepper, Underway, IbdSound, VerdictSaved, ProofRunning
  <2>3. Trusted' = "none" /\ Session' = NoSession
    BY Zenon, <2>1 DEF Trusted, Session, Live, Resuming
  <2>4. Trusted # "none" \/ Session = NoSession
    BY Zenon, <2>1 DEF Trusted, Session, Live, Outcome
  <2>5. Told
    BY Zenon, <2>3, <2>4 DEF Told, Promise!Next, Promise!Forget, Promise!trustVars
  <2> QED BY Zenon, <2>2, <2>5
<1>3. CASE FlushIndex \/ FlushStateToDisk \/ (\E b \in Block : Prune(b)) \/ RequestShutdown
  <2>1. Up /\ UNCHANGED <<cache, pcoins, snapActive, bg, bgStatus, base, expected, dat, dir,
                         node, pc, loc>>
    BY Zenon, <1>3 DEF FlushIndex, FlushStateToDisk, Prune, RequestShutdown, MayFlush, chainVars,
       coinVars, proofVars, diskVars
  <2>2. /\ disk' = disk \/ (disk' = Flushed(pcoins) /\ idxDisk' = idx')
        /\ idxDisk' \in {idxDisk, idx'}
    BY Zenon, <1>3 DEF FlushIndex, FlushStateToDisk, Prune, RequestShutdown, coinVars, diskVars
  <2>3. pcoins = IF snapActive THEN "snap" ELSE "ibd"
    BY Zenon DEF ProofInv, Assumed, Plain
  <2>4. \/ disk'["ibd"] = disk["ibd"]
        \/ ~snapActive /\ disk'["ibd"] = cache["ibd"] /\ idxDisk' = idx'
    BY Zenon, <1>n, <2>2, <2>3 DEF Flushed, TypeOK, Store
  <2>5. OneStepper' /\ Told
    BY Zenon, <2>1, SameTold DEF PromiseInv, OneStepper, ProofRunning
  <2>6. Within(idxDisk, idxDisk')
    <3>1. Within(idxDisk, idx) /\ Within(idx, idx')
      BY Zenon, <1>3, GrowsOrForgets, <2>1 DEF SessionInv, Indexed, Grows, Next, EnvNext, Up
    <3> QED BY Zenon, <2>2, <3>1 DEF Within
  <2>7. CASE disk'["ibd"] = disk["ibd"]
    BY Zenon, <2>1, <2>5, <2>6, <2>7, PromiseStays
  <2>8. CASE ~snapActive /\ disk'["ibd"] = cache["ibd"] /\ idxDisk' = idx'
    <3>1. dat' = NoDat /\ pcoins = "ibd"
      BY Zenon, <2>1, <2>8 DEF ProofInv, Plain
    <3>2. cache["ibd"].kind = "true" /\ cache["ibd"].best = activeTip /\ activeTip' = activeTip
      BY Zenon, <1>3, <2>1, <2>8, <3>1, IbdBlocks
         DEF ProofInv, CoinsMatchTip, FlushIndex, FlushStateToDisk, Prune, RequestShutdown, chainVars
    <3>3. idx'[activeTip] # "unknown"
      BY Zenon, <3>2 DEF SessionInv, Indexed
    <3>4. IbdSound'
      BY Zenon, <2>1, <2>8, <3>1, <3>2, <3>3 DEF IbdSound
    <3>5. Underway' /\ VerdictSaved'
      BY Zenon, <2>1, <2>8 DEF Underway, VerdictSaved, ProofRunning
    <3> QED BY Zenon, <2>5, <3>4, <3>5 DEF PromiseInv
  <2> QED BY Zenon, <2>4, <2>5, <2>7, <2>8
<1> QED BY Zenon, <1>1, <1>2, <1>3 DEF EnvNext

\* Loading tells nothing; activation makes the claim, and gives the verdict at once
\* when the validated chain is at the base already.
LEMMA RpcKeepsPromise ==
  ASSUME Sequential, Automatic, OneChain, ProofInv, ProofInv', SessionInv, PromiseInv,
         NEW t \in Rpc, RpcNext(t)
  PROVE  PromiseInv' /\ Told
<1>n. TypeOK /\ TypeOK' /\ t \in Thread /\ t # Net
  BY Zenon, ConfigAssumption DEF ProofInv, TypeInv, Thread
<1>a. ~snapActive /\ Up /\ dat = NoDat /\ pcoins = "ibd"
  <2>1. ~snapActive
    <3>1. CASE \E f \in Snapshot : LoadStart(t, f)
      BY Zenon, <3>1 DEF LoadStart, SnapshotDirOpen, Sequential, ProofInv, Assumed
    <3>2. CASE LoadFinish(t) \/ LoadFail(t) \/ ActivateCheck(t)
      BY Zenon, <1>n, <3>2 DEF LoadFinish, LoadFail, ActivateCheck, ProofInv, Assumed
    <3>3. CASE ActivateRefuse(t) \/ ActivateLocked(t) \/ ActivateAbort(t)
      BY Zenon, <1>n, <3>3 DEF ActivateRefuse, ActivateLocked, ActivateAbort, ProofInv, Assumed
    <3> QED BY Zenon, <3>1, <3>2, <3>3 DEF RpcNext, Automatic
  <2>2. Up
    BY Zenon DEF RpcNext, LoadStart, LoadFinish, LoadFail, ActivateCheck, ActivateRefuse,
       ActivateLocked, ActivateAbort, StepCheck, Serving
  <2> QED BY Zenon, <2>1, <2>2 DEF ProofInv, Plain
<1>b. cache["ibd"].kind = "true" /\ cache["ibd"].best = activeTip /\ cache["ibd"] \in View
  BY Zenon, <1>a, IbdBlocks DEF ProofInv, CoinsMatchTip
<1>1. CASE (\E f \in Snapshot : LoadStart(t, f)) \/ LoadFinish(t) \/ LoadFail(t) \/ ActivateCheck(t)
           \/ ActivateRefuse(t)
  <2>1. UNCHANGED <<idxDisk, dat, snapActive, bgStatus, base, expected, node>>
    BY Zenon, <1>1 DEF LoadStart, LoadFinish, LoadFail, ActivateCheck, ActivateRefuse, diskVars,
       proofVars
  <2>2. \E label \in {"idle", "loading", "act_lock"} : \E l : Goto(t, label, l)
    BY Zenon, <1>1 DEF LoadStart, LoadFinish, LoadFail, ActivateCheck, ActivateRefuse, Return
  <2>p. PICK label \in {"idle", "loading", "act_lock"} : \E l : Goto(t, label, l)
    BY <2>2
  <2>3. PICK l : Goto(t, label, l)
    BY <2>p
  <2>4. pc'[t] = label /\ \A u \in Thread \ {t} : pc'[u] = pc[u] /\ loc'[u] = loc[u]
    BY Zenon, <1>n, <2>3 DEF Goto, TypeOK
  <2>5. OneStepper'
    <3>1. ~ProofRunning
      BY Zenon, <1>a DEF ProofRunning
    <3> QED BY <1>n, <2>3, <2>4, <3>1, StepperMoves DEF PromiseInv
  <2>6. cache'["ibd"] = cache["ibd"] /\ disk'["ibd"] = disk["ibd"]
    <3>1. CASE \E f \in Snapshot : LoadStart(t, f)
      BY Zenon, <1>a, <1>n, <3>1 DEF LoadStart, LoadStore, SnapshotDirOpen, TypeOK, Store
    <3>2. CASE LoadFinish(t)
      <4>1. bg.coins = "snap"
        BY Zenon, <1>a, <1>n, <3>2 DEF LoadFinish, ProofInv, TypeInv, BeforeActive, Plain
      <4> QED BY Zenon, <1>n, <3>2, <4>1 DEF LoadFinish, TypeOK, Store
    <3>3. CASE LoadFail(t) \/ ActivateCheck(t) \/ ActivateRefuse(t)
      BY Zenon, <3>3 DEF LoadFail, ActivateCheck, ActivateRefuse, diskVars
    <3> QED BY Zenon, <1>1, <3>1, <3>2, <3>3
  <2>7. Underway' /\ VerdictSaved' /\ IbdSound'
    BY Zenon, <1>a, <2>1, <2>6 DEF PromiseInv, Underway, VerdictSaved, IbdSound, ProofRunning
  <2> QED BY Zenon, <1>a, <2>1, <2>5, <2>7, SameTold DEF PromiseInv
<1>2. CASE ActivateLocked(t) \/ ActivateAbort(t)
  <2>1. bg.base # NoBlock
    BY Zenon, <1>2, <1>n, <1>a DEF ActivateLocked, ActivateAbort, ProofInv, Plain
  <2>2. /\ bg.coins = "snap" /\ bg.tip \in {NoBlock, bg.base}
        /\ Claimed(bg.base, bg.hash) /\ bg.base \in Block /\ bg.hash \in Hash
    BY ZenonT(40), <1>n, <1>a, <2>1 DEF ProofInv, Plain, Claimed, TypeOK, Slot
  <2>3. ActivateLocked(t)
    BY <1>2, <2>2 DEF ActivateAbort
  <2>4. bg.tip = bg.base
    BY Zenon, <1>n, <1>a, <2>2, <2>3 DEF ActivateLocked, ProofInv, TypeInv, BeforeActive
  <2>5. SnapTip = bg.base /\ SnapBase = bg.base /\ SnapHash = bg.hash
    BY Zenon, <1>a, <2>4 DEF SnapTip, SnapBase, SnapHash
  <2>6. /\ idxDisk' = idx /\ snapActive' /\ base' = bg.base /\ expected' = bg.hash
        /\ UNCHANGED <<dat, node>> /\ Height[bg.base] >= Height[activeTip]
        /\ cache' = [cache EXCEPT !["snap"].best = bg.base]
        /\ disk' \in {[Flushed("ibd") EXCEPT !["ibd"] = cache'["ibd"]], Flushed("ibd")}
    BY <1>a, <2>2, <2>3, <2>5 DEF ActivateLocked
  <2>7. cache'["ibd"] = cache["ibd"] /\ disk'["ibd"] = cache["ibd"]
    BY Zenon, <1>n, <2>6 DEF Flushed, TypeOK, Store
  <2>8. /\ bgStatus' = IF ~AtBase THEN "running"
                       ELSE IF Digest(cache["ibd"]) = bg.hash THEN "completed" ELSE "failed"
        /\ bgStatus' # "completed" => bg' = ParkedIbd(activeTip)
    BY Zenon, <2>3, <2>5, <2>7 DEF ActivateLocked
  <2>9. activeTip \in Block /\ Height[activeTip] \in Nat /\ Height[bg.base] \in Nat
    BY ZenonT(40), <1>n, <2>2, TreeAssumption DEF TypeOK
  <2>10. Height[activeTip] <= Height[bg.base]
    BY <2>6, <2>9
  <2>11. OneStepper'
    <3>1. \E next \in {"stop", "idle"} : Persist(t, next, NoLocal)
      BY Zenon, <2>3 DEF ActivateLocked
    <3>2. PICK next \in {"stop", "idle"} : Persist(t, next, NoLocal)
      BY <3>1
    <3>3. NoLocal \in Local /\ next \in {"idle", "stop", "step_loop", "down"} /\ next # "step_loop"
      BY <3>2, ValueTypes
    <3>4. /\ pc'[t] = "remove" /\ loc'[t].next = next
          /\ \A u \in Thread \ {t} : pc'[u] = pc[u] /\ loc'[u] = loc[u]
      BY Zenon, <1>n, <3>2, <3>3, PersistType
    <3>5. ~ProofRunning
      BY Zenon, <1>a DEF ProofRunning
    <3> QED BY <1>n, <3>3, <3>4, <3>5, StepperMoves DEF PromiseInv
  <2>12. Underway'
    <3>1. ProofRunning' => bgStatus' # "completed"
      BY DEF ProofRunning
    <3>2. ProofRunning' => bg'.coins = "ibd" /\ bg'.tip = activeTip
      BY Zenon, <2>8, <3>1 DEF ParkedIbd, IdleSlot
    <3> QED BY Zenon, <1>b, <2>6, <2>7, <2>10, <3>2 DEF Underway
  <2>13. IbdSound' /\ VerdictSaved'
    <3>1. idx[activeTip] # "unknown"
      BY Zenon DEF SessionInv, Indexed
    <3> QED BY Zenon, <1>a, <1>b, <2>6, <2>7, <2>10, <3>1 DEF IbdSound, VerdictSaved
  <2>14. Told
    <3>1. Trusted = "none"
      BY Zenon, <1>a, NothingTold
    <3>2. Trusted' = Outcome(bgStatus') /\ Session' = [base |-> bg.base, hash |-> bg.hash]
      BY Zenon, <1>a, <2>6 DEF Trusted, Session, Live, Up
    <3> DEFINE c == [base |-> bg.base, hash |-> bg.hash]
    <3>3. c \in Claims /\ c.base = bg.base /\ c.hash = bg.hash
      BY <2>2 DEF Claims
    <3>4. AtBase => (Digest(cache["ibd"]) = bg.hash <=> Honest(bg.base, bg.hash))
      BY Zenon, <1>b, <2>2, <2>5, VerdictIsRight DEF AtBase, ProofInv, IbdBuilt
    <3>5. Promise!Verdict(c) = IF Honest(bg.base, bg.hash) THEN "validated" ELSE "failed"
      BY <3>3 DEF Promise!Verdict
    <3>6. Outcome(bgStatus') \in {"assumed", Promise!Verdict(c)}
      BY <2>8, <3>4, <3>5 DEF Outcome
    <3> HIDE DEF c
    <3>7. Promise!Assume
      BY Zenon, <3>1, <3>2, <3>3, <3>6 DEF Promise!Assume, c
    <3> QED BY Zenon, <3>7 DEF Told, Promise!Next
  <2> QED BY Zenon, <2>11, <2>12, <2>13, <2>14 DEF PromiseInv
<1>3. ~\E n \in RpcBatch : StepCheck(t, n)
  BY Zenon DEF Automatic
<1> QED BY Zenon, <1>1, <1>2, <1>3 DEF RpcNext

\* Where the network thread is while it steps the proof.
LEMMA Stepping ==
  ASSUME OneChain, ProofInv, SessionInv, PromiseInv,
         NEW t \in Thread, pc[t] \in {"step_lock", "step_loop"}
  PROVE  /\ t = Net /\ ProofRunning /\ loc[t].conn + loc[t].left <= AutoBatch
         /\ bg.coins = "ibd" /\ base \in Block /\ base # NoBlock /\ idx[base] # "unknown"
         /\ bg.tip = cache["ibd"].best /\ bg.tip \in Block /\ bg.tip # NoBlock
         /\ cache["ibd"].kind = "true" /\ cache["ibd"].at = bg.tip
         /\ bg.tip \in Path[base] /\ Claimed(base, expected)
<1>1. t = Net /\ ProofRunning /\ loc[t].conn + loc[t].left <= AutoBatch
  BY Zenon DEF PromiseInv, OneStepper
<1>2. bg.coins = "ibd" /\ bg.tip = cache["ibd"].best /\ Height[bg.tip] <= Height[base]
  BY Zenon, <1>1 DEF PromiseInv, Underway
<1>3. Claimed(base, expected) /\ base \in Block /\ base # NoBlock
  BY Zenon, <1>1, TreeAssumption DEF ProofInv, Assumed, ProofRunning, Claimed
<1>4. idx[base] # "unknown"
  BY Zenon, <1>1, <1>3 DEF SessionInv, Findable, Indexed, Within, ProofRunning
<1>5. /\ bg.tip \in Block /\ bg.tip # NoBlock
      /\ cache["ibd"].kind = "true" /\ cache["ibd"].at = bg.tip
  BY Zenon, <1>1, <1>2, IbdBlocks, TreeAssumption
<1>6. bg.tip \in Path[base]
  BY Zenon, <1>2, <1>3, <1>5, OnOneChain
<1> QED BY Zenon, <1>1, <1>2, <1>3, <1>4, <1>5, <1>6

\* A running proof says nothing about the claim, in memory or on disk.
LEMMA RunsOn ==
  ASSUME ProofInv, PromiseInv, Up, ProofRunning, ProofRunning', OneStepper', Underway',
         UNCHANGED <<idxDisk, disk, dir, dat, snapActive, base, expected, node>>,
         cache'["ibd"].kind = "true"
  PROVE  PromiseInv' /\ Told
<1>1. VerdictSaved'
  BY DEF PromiseInv, VerdictSaved, ProofRunning
<1>2. IbdSound'
  BY Zenon DEF PromiseInv, IbdSound
<1>3. Trusted' = Trusted /\ Session' = Session
  <2>1. Outcome(bgStatus) = "assumed" /\ Outcome(bgStatus') = "assumed"
    BY DEF ProofRunning, Outcome
  <2> QED BY Zenon, <2>1 DEF Trusted, Session, Live, Up, ProofRunning
<1> QED BY Zenon, <1>1, <1>2, <1>3 DEF PromiseInv, Told, Promise!trustVars

\* A verdict that full validation reaches.
LEMMA VerdictTold ==
  ASSUME OneChain, ProofInv, SessionInv, PromiseInv, Up, NEW t \in Thread, pc[t] = "step_loop",
         Complete(t) \/ Fail(t), bgStatus' = "completed" <=> Honest(base, expected),
         UNCHANGED <<idxDisk, dir, dat, snapActive, base, expected, node>>,
         cache'["ibd"] = cache["ibd"] \/ bgStatus' = "failed",
         disk'["ibd"] = disk["ibd"] \/ (disk'["ibd"] = cache["ibd"] /\ bg.tip = base)
  PROVE  PromiseInv' /\ Told
<1>n. TypeInv /\ expected \in Hash
  BY Zenon DEF ProofInv, TypeInv, TypeOK
<1>s. /\ t = Net /\ ProofRunning /\ bg.tip = cache["ibd"].best /\ base \in Block
      /\ cache["ibd"].kind = "true"
  BY Zenon, Stepping
<1>1. bgStatus' \in {"completed", "failed"}
  BY Zenon DEF Complete, Fail
<1>2. /\ pc'[t] = "remove" /\ loc'[t].next \in {"idle", "stop"}
      /\ \A u \in Thread \ {t} : pc'[u] = pc[u] /\ loc'[u] = loc[u]
  BY Zenon, <1>n, SettleType
<1>3. OneStepper'
  BY <1>s, <1>2, StepperMoves DEF PromiseInv
<1>4. ~ProofRunning' /\ snapActive
  BY <1>s, <1>1 DEF ProofRunning
<1>5. dat # NoDat => dat.base = base /\ dat.status \notin {"completed", "failed"}
  <2>1. dat # NoDat => dat.base = base
    BY Zenon, <1>4 DEF ProofInv, Assumed
  <2>2. dat # NoDat => dat.status \notin {"completed", "failed"}
    BY <1>s DEF PromiseInv, VerdictSaved, ProofRunning
  <2> QED BY Zenon, <2>1, <2>2
<1>6. IbdSound'
  <2>1. cache'["ibd"].kind = "true" \/ (snapActive' /\ bgStatus' = "failed")
    BY Zenon, <1>s, <1>4
  <2>2. CASE disk'["ibd"] = disk["ibd"]
    BY Zenon, <2>1, <2>2 DEF PromiseInv, IbdSound
  <2>3. CASE disk'["ibd"] = cache["ibd"] /\ bg.tip = base
    <3>1. idxDisk'[base] # "unknown"
      BY Zenon, <1>4 DEF SessionInv, Findable
    <3>2. Height[base] <= Height[base]
      <4>1. Height[base] \in Nat
        BY Zenon, <1>s, TreeAssumption
      <4> QED BY <4>1
    <3> QED BY Zenon, <1>s, <1>5, <2>1, <2>3, <3>1, <3>2 DEF IbdSound
  <2> QED BY Zenon, <2>2, <2>3
<1>7. Told
  <2> DEFINE c == [base |-> base, hash |-> expected]
  <2>1. c \in Claims /\ c.base = base /\ c.hash = expected
    BY <1>n, <1>s DEF Claims
  <2>2. Outcome(bgStatus) = "assumed" /\ Outcome(bgStatus') = Promise!Verdict(c)
    BY <1>s, <1>1, <2>1 DEF ProofRunning, Outcome, Promise!Verdict
  <2> HIDE DEF c
  <2>3. Trusted = "assumed" /\ Trusted' = Promise!Verdict(Session) /\ Session' = Session
    BY Zenon, <1>4, <2>2 DEF Trusted, Session, Live, Up, c
  <2> QED BY Zenon, <2>3 DEF Told, Promise!Next, Promise!Settle
<1> QED BY Zenon, <1>3, <1>4, <1>5, <1>6, <1>7 DEF PromiseInv, Underway, VerdictSaved

\* The digest is compared at the base, where it decides.
LEMMA DigestTold ==
  ASSUME OneChain, ProofInv, SessionInv, PromiseInv, Up, NEW t \in Thread, pc[t] = "step_loop",
         bg.tip = base, CheckDigest(t), cache' = cache,
         UNCHANGED <<idxDisk, dir, dat, snapActive, base, expected, node>>
  PROVE  PromiseInv' /\ Told
<1>s. /\ bg.coins = "ibd" /\ cache["ibd"].best = base /\ cache["ibd"].kind = "true"
      /\ Claimed(base, expected)
  BY Zenon, Stepping
<1>n. cache["ibd"] \in View /\ disk \in [Store -> View] /\ expected \in Hash /\ Built(cache["ibd"])
  BY Zenon DEF ProofInv, TypeInv, TypeOK, Store, IbdBuilt
<1>1. disk'["ibd"] = cache["ibd"]
  BY Zenon, <1>s, <1>n DEF CheckDigest, Flushed, Store
<1>2. Digest(cache["ibd"]) = expected <=> Honest(base, expected)
  BY Zenon, <1>s, <1>n, VerdictIsRight
<1>3. IF Digest(cache["ibd"]) = expected THEN Complete(t) ELSE Fail(t)
  BY Zenon, <1>s, <1>1 DEF CheckDigest
<1>4. bgStatus' = "completed" <=> Honest(base, expected)
  BY <1>2, <1>3 DEF Complete, Fail
<1> QED BY Zenon, <1>1, <1>3, <1>4, VerdictTold

\* The view of a chain that was connected block by block.
LEMMA TrueViewFields ==
  ASSUME NEW b
  PROVE  TrueView(b).best = b /\ TrueView(b).kind = "true"
BY DEF TrueView

\* ConnectBlock on a true view that stands at the block's parent leaves a true view.
LEMMA ConnectsTrue ==
  ASSUME NEW v, NEW b, v.at = Parent[b], v.kind = "true"
  PROVE  ConnectView(v, b).best = b /\ ConnectView(v, b).kind = "true"
BY DEF ConnectView

\* One iteration of the loop: the tip reaches the base, a block is missing, a block on
\* the way to the base is invalid, or the tip moves up.
LEMMA IterKeepsPromise ==
  ASSUME OneChain, Automatic, ProofInv, ProofInv', SessionInv, PromiseInv,
         NEW t \in Thread, StepIter(t)
  PROVE  PromiseInv' /\ Told
<1> DEFINE h == Height[bg.tip]
           next == Ancestor(base, h + 1)
           view == cache["ibd"]
<1>n. TypeOK /\ cache \in [Store -> View] /\ view \in View /\ loc[t] \in Local /\ bg \in Slot
  BY Zenon DEF ProofInv, TypeInv, TypeOK, Store
<1>1. /\ Up /\ pc[t] = "step_loop" /\ loc[t].left > 0
      /\ UNCHANGED <<idxDisk, dir, dat, snapActive, base, expected, node>>
  BY Zenon DEF StepIter
<1>s. /\ t = Net /\ ProofRunning /\ loc[t].conn + loc[t].left <= AutoBatch
      /\ bg.coins = "ibd" /\ base \in Block
      /\ bg.tip = view.best /\ bg.tip \in Block /\ bg.tip # NoBlock
      /\ view.kind = "true" /\ view.at = bg.tip
      /\ bg.tip \in Path[base] /\ Claimed(base, expected)
  BY Zenon, <1>1, Stepping
<1>h. h \in Nat /\ Height[base] \in Nat
  BY Zenon, <1>s, TreeAssumption
<1>2. CASE h >= Height[base]
  <2>1. bg.tip = base
    <3>1. bg.tip = base \/ h < Height[base]
      BY Zenon, <1>s, TreeAssumption
    <3> HIDE DEF h
    <3> QED BY <1>h, <1>2, <3>1
  <2>2. ~(h < Height[base])
    <3> HIDE DEF h
    <3> QED BY <1>h, <1>2
  <2>3. CheckDigest(t) /\ UNCHANGED cache
    BY Zenon, <1>s, <2>1, <2>2 DEF StepIter
  <2> QED BY ZenonT(40), <1>1, <2>1, <2>3, DigestTold
<1>3. CASE h < Height[base]
  <2>1. bg.tip # base /\ ~(h >= Height[base])
    BY <1>h, <1>3
  <2>2. /\ h + 1 \in 0..Height[base] /\ next \in Block \ {Genesis} /\ Parent[next] = bg.tip
        /\ next \in Path[base] /\ Height[next] = h + 1
    BY Zenon, <1>s, <2>1, NextExtends, AncestorOnPath
  <2>3. CASE bgStatus' = "waiting" /\ Persist(t, "idle", NoLocal) /\ UNCHANGED <<cache, disk, bg>>
    <3>1. /\ pc'[t] = "remove" /\ loc'[t].next = "idle"
          /\ \A u \in Thread \ {t} : pc'[u] = pc[u] /\ loc'[u] = loc[u]
      BY Zenon, <1>n, <2>3, PersistType, ValueTypes
    <3>2. OneStepper'
      BY SMTT(30), <1>s, <3>1, StepperMoves DEF PromiseInv
    <3>3. ProofRunning'
      BY <1>1, <1>s, <2>3 DEF ProofRunning
    <3>4. Underway' /\ cache'["ibd"].kind = "true"
      BY Zenon, <1>1, <1>s, <2>3 DEF PromiseInv, Underway
    <3> QED BY Zenon, <1>1, <1>s, <2>3, <3>2, <3>3, <3>4, RunsOn
  <2>4. CASE /\ FALSE \in Connects(view, next) /\ cache' = [cache EXCEPT !["ibd"].kind = "mixed"]
             /\ Fail(t) /\ UNCHANGED disk
    <3>1. next \in Invalid
      BY Zenon, <1>s, <2>2, <2>4 DEF Connects
    <3>2. ~Honest(base, expected) /\ bgStatus' = "failed"
      BY Zenon, <2>2, <2>4, <3>1 DEF Honest, Fail
    <3>3. bgStatus' # "completed"
      BY <3>2
    <3> QED BY Zenon, <1>1, <2>4, <3>2, <3>3, VerdictTold
  <2>5. CASE /\ cache' = [cache EXCEPT !["ibd"] = ConnectView(@, next)]
             /\ bg' = [bg EXCEPT !.tip = next] /\ bgStatus' = "running"
             /\ LET l == [loc[t] EXCEPT !.left = @ - 1, !.conn = @ + 1]
                IN IF l.conn % FlushEvery = 0
                   THEN /\ disk' = [disk EXCEPT !["ibd"] = cache'["ibd"]]
                        /\ Persist(t, "step_loop", l)
                   ELSE Goto(t, "step_loop", l) /\ UNCHANGED disk
    <3> DEFINE l == [loc[t] EXCEPT !.left = @ - 1, !.conn = @ + 1]
    <3>1. /\ l.conn = loc[t].conn + 1 /\ l.left = loc[t].left - 1
          /\ loc[t].conn \in Nat /\ loc[t].left \in Nat
      BY <1>n DEF Local
    <3>2. l.conn \in 1..(FlushEvery - 1) /\ l.conn + l.left <= AutoBatch
      BY <1>1, <1>s, <3>1, ConfigAssumption DEF Automatic
    <3> HIDE DEF l
    <3>3. l.conn % FlushEvery # 0
      BY <3>2, ConfigAssumption
    <3>4. Goto(t, "step_loop", l) /\ UNCHANGED disk
      BY Zenon, <2>5, <3>3 DEF l
    <3>5. ProofRunning'
      BY <1>1, <1>s, <2>5 DEF ProofRunning
    <3>6. /\ pc'[t] = "step_loop" /\ loc'[t] = l
          /\ \A u \in Thread \ {t} : pc'[u] = pc[u] /\ loc'[u] = loc[u]
      BY ZenonT(40), <1>n, <3>4 DEF Goto, TypeOK
    <3>7. OneStepper'
      BY <1>s, <3>2, <3>5, <3>6 DEF PromiseInv, OneStepper
    <3>8. bg'.tip = next /\ bg'.coins = "ibd"
      BY <1>n, <1>s, <2>5 DEF Slot
    <3>9. cache'["ibd"] = ConnectView(view, next)
      BY ZenonT(40), <1>n, <2>5 DEF Store
    <3>10. cache'["ibd"].best = next /\ cache'["ibd"].kind = "true"
      <4>1. view.at = Parent[next] /\ view.kind = "true"
        BY ZenonT(40), <1>s, <2>2
      <4> HIDE DEF view, next
      <4>2. ConnectView(view, next).best = next /\ ConnectView(view, next).kind = "true"
        BY ZenonT(30), <4>1, ConnectsTrue
      <4> QED BY ZenonT(30), <3>9, <4>2
    <3>11. Height[next] <= Height[base]
      <4> HIDE DEF h, next
      <4> QED BY <1>h, <1>3, <2>2
    <3>12. Underway'
      BY Zenon, <1>1, <3>8, <3>10, <3>11 DEF Underway
    <3> QED BY Zenon, <1>1, <1>s, <3>4, <3>5, <3>7, <3>10, <3>12, RunsOn
  <2> HIDE DEF h, next, view
  <2>6. h = (IF bg.tip = NoBlock THEN -1 ELSE Height[bg.tip])
    BY Zenon, <1>s DEF h
  <2> QED BY Zenon, <1>s, <1>3, <2>1, <2>2, <2>3, <2>4, <2>5, <2>6
             DEF StepIter, h, next, view, coinVars
<1> HIDE DEF h
<1> QED BY <1>h, <1>2, <1>3

\* The stepper and the saving of the session.
LEMMA StepKeepsPromise ==
  ASSUME OneChain, Automatic, ProofInv, ProofInv', SessionInv, PromiseInv,
         NEW t \in Thread, StepNext(t)
  PROVE  PromiseInv' /\ Told
<1>n. TypeOK /\ Within(idxDisk, idxDisk)
  BY Zenon DEF ProofInv, TypeInv, Within
<1>1. CASE StepLock(t)
  <2>1. /\ t = Net /\ ProofRunning /\ loc[t].conn + loc[t].left <= AutoBatch
        /\ bg.coins = "ibd" /\ base # NoBlock /\ idx[base] # "unknown"
    BY Zenon, <1>1, Stepping DEF StepLock
  <2>2. bg.coins # "none"
    BY <2>1
  <2>3. /\ Goto(t, "step_loop", loc[t])
        /\ UNCHANGED <<idxDisk, disk, dat, dir, cache, snapActive, bg, bgStatus, base, expected, node>>
    BY Zenon, <1>1, <2>1, <2>2 DEF StepLock, diskVars
  <2>4. /\ pc'[t] = "step_loop" /\ \A u \in Thread : loc'[u] = loc[u]
        /\ \A u \in Thread \ {t} : pc'[u] = pc[u]
    BY Zenon, <1>n, <2>3 DEF Goto, TypeOK
  <2>5. ProofRunning'
    BY Zenon, <2>1, <2>3 DEF ProofRunning
  <2>6. OneStepper'
    BY <2>1, <2>4, <2>5 DEF PromiseInv, OneStepper
  <2> QED BY Zenon, <1>n, <2>3, <2>6, PromiseStays, SameTold
<1>2. CASE StepIter(t)
  BY Zenon, <1>2, IterKeepsPromise
<1>3. CASE StepEnd(t)
  <2>1. /\ Up /\ pc[t] = "step_loop"
        /\ UNCHANGED <<idxDisk, dir, dat, cache, snapActive, base, expected, node>>
    BY Zenon, <1>3 DEF StepEnd
  <2>2. CASE bg.tip = base /\ CheckDigest(t)
    BY Zenon, <2>1, <2>2, DigestTold
  <2>3. CASE Return(t) /\ UNCHANGED <<disk, bgStatus, bg>>
    <3>1. pc'[t] = "idle" /\ \A u \in Thread \ {t} : pc'[u] = pc[u] /\ loc'[u] = loc[u]
      BY Zenon, <1>n, <2>3, ReturnType
    <3>2. t = Net
      BY Zenon, <2>1, Stepping
    <3>3. OneStepper'
      BY <3>1, <3>2, StepperMoves DEF PromiseInv
    <3> QED BY Zenon, <1>n, <2>1, <2>3, <3>3, PromiseStays, SameTold
  <2> QED BY Zenon, <1>3, <2>2, <2>3 DEF StepEnd
<1>4. CASE PersistRemove(t)
  <2>1. /\ Up /\ pc[t] = "remove" /\ dat' = NoDat /\ Goto(t, "rename", loc[t])
        /\ UNCHANGED <<idxDisk, disk, dir, cache, snapActive, bg, bgStatus, base, expected, node>>
    BY ZenonT(40), <1>4 DEF PersistRemove, proofVars
  <2>2. snapActive
    BY <2>1 DEF ProofInv, TypeInv, BeforeActive
  <2>3. /\ pc'[t] = "rename" /\ \A u \in Thread : loc'[u] = loc[u]
        /\ \A u \in Thread \ {t} : pc'[u] = pc[u]
    BY Zenon, <1>n, <2>1 DEF Goto, TypeOK
  <2>4. ProofRunning' = ProofRunning
    BY Zenon, <2>1 DEF ProofRunning
  <2>5. loc[t].next # "step_loop"
    BY ZenonT(40), <2>1 DEF PromiseInv, OneStepper
  <2>6. OneStepper'
    BY <2>3, <2>4, <2>5, StepperMoves DEF PromiseInv
  <2>7. Underway' /\ VerdictSaved' /\ IbdSound'
    BY Zenon, <2>1, <2>4 DEF PromiseInv, Underway, VerdictSaved, IbdSound
  <2>8. Told
    BY Zenon, <2>1, <2>2 DEF Told, Promise!trustVars, Trusted, Session, Live, Up
  <2> QED BY Zenon, <2>6, <2>7, <2>8 DEF PromiseInv
<1>5. CASE PersistRename(t)
  <2>1. /\ Up /\ pc[t] = "rename" /\ UNCHANGED <<idxDisk, disk, dir>>
        /\ dat' = [base |-> base, hash |-> expected, status |-> bgStatus]
    BY ZenonT(40), <1>5 DEF PersistRename
  <2>2. snapActive /\ dat'.base = base /\ dat'.status = bgStatus
    BY Zenon, <2>1 DEF ProofInv, TypeInv, BeforeActive
  <2>3. CASE loc[t].next = "down"
    <3>1. node' = "down" /\ ForgetMemory
      BY Zenon, <1>5, <2>3 DEF PersistRename
    <3>2. ~Up'
      BY <3>1 DEF Up
    <3>3. Within(idxDisk, idxDisk')
      BY Zenon, <2>1 DEF Within
    <3> QED BY Zenon, <2>1, <2>2, <3>1, <3>2, <3>3, EndTold, EndPromise
  <2>4. CASE loc[t].next # "down"
    <3>1. loc[t].next # "step_loop"
      BY Zenon, <2>1 DEF PromiseInv, OneStepper
    <3>2. /\ Return(t) /\ UNCHANGED <<cache, snapActive, bg, bgStatus, base, expected, node>>
      BY Zenon, <1>5, <2>4, <3>1 DEF PersistRename, proofVars
    <3>3. pc'[t] = "idle" /\ \A u \in Thread \ {t} : pc'[u] = pc[u] /\ loc'[u] = loc[u]
      BY Zenon, <1>n, <3>2, ReturnType
    <3>4. ProofRunning' = ProofRunning
      BY ZenonT(40), <3>2 DEF ProofRunning
    <3>5. OneStepper'
      BY Zenon, <3>3, <3>4, StepperMoves DEF PromiseInv
    <3>6. Underway' /\ VerdictSaved' /\ IbdSound'
      BY Zenon, <2>1, <2>2, <3>2, <3>4 DEF PromiseInv, Underway, VerdictSaved, IbdSound
    <3>7. Told
      BY Zenon, <2>2, <2>1, <3>2 DEF Told, Promise!trustVars, Trusted, Session, Live, Up
    <3> QED BY Zenon, <3>5, <3>6, <3>7 DEF PromiseInv
  <2> QED BY Zenon, <2>3, <2>4
<1> QED BY Zenon, <1>1, <1>2, <1>3, <1>4, <1>5 DEF StepNext

\* A restart takes up the saved session, and may find it settled.
LEMMA RestoreKeepsPromise ==
  ASSUME ProofInv, ProofInv', PromiseInv, StartRestored
  PROVE  PromiseInv' /\ Told
<1> DEFINE tip == disk["ibd"].best
           settled == /\ dat.status # "completed" /\ tip = dat.base
                      /\ Digest(disk["ibd"]) = dat.hash
<1>n. /\ disk["ibd"] \in View /\ disk \in [Store -> View] /\ dat \in Dat /\ tip \in Block
      /\ pc \in [Thread -> Pc] /\ loc \in [Thread -> Local] /\ Net \in Thread /\ Main \in Thread
      /\ Net # Main
  BY Zenon, IbdBlocks, ConfigAssumption DEF ProofInv, TypeInv, TypeOK, Thread
<1>1. ~Up /\ Up' /\ dat # NoDat /\ dir # "none" /\ dat.status # "failed"
  BY DEF StartRestored, Startable, Resuming, RestoreAccepts, Up
<1>2. /\ ~snapActive /\ \A t \in Thread : pc[t] = "idle" /\ loc[t] = NoLocal
  BY Zenon, <1>1 DEF ProofInv, Downtime
<1>3. /\ dir = "snap" /\ Claimed(dat.base, dat.hash) /\ Built(disk["ibd"])
      /\ dat.base \in Block /\ dat.hash \in Hash
  <2>1. dir = "snap" /\ Claimed(dat.base, dat.hash) /\ Built(disk["ibd"])
    BY Zenon, <1>1 DEF ProofInv, Saved, IbdBuilt
  <2>2. dat.hash \in Hash
    BY <1>n, <1>1, ValueTypes DEF Dat, NoDat
  <2> QED BY Zenon, <2>1, <2>2 DEF Claimed
<1>4. IbdIndexed
  BY Zenon, <1>n, TreeAssumption DEF PromiseInv, IbdSound, IbdIndexed
<1>5. /\ snapActive' /\ base' = dat.base /\ expected' = dat.hash
      /\ dat' = dat /\ idxDisk' = idxDisk /\ dir' = "snap"
      /\ disk' = [disk EXCEPT !["snap"] = disk["snap"]] /\ cache' = disk'
      /\ pc' = [pc EXCEPT ![Net] = "abc", ![Main] = IF settled THEN "remove" ELSE "idle"]
      /\ loc' = [loc EXCEPT ![Net] = [NoLocal EXCEPT !.boot = TRUE]]
  BY <1>3, <1>4 DEF StartRestored
<1>6. /\ bgStatus' = IF settled THEN "completed"
                     ELSE IF dat.status = "none" THEN "running" ELSE dat.status
      /\ bg' = IF settled THEN IdleSlot ELSE ParkedIbd(tip)
  BY <1>4 DEF StartRestored
<1>7. disk'["ibd"] = disk["ibd"] /\ cache'["ibd"] = disk["ibd"]
  BY Zenon, <1>n, <1>5 DEF Store
<1>8. /\ disk["ibd"].kind = "true" /\ idxDisk[tip] # "unknown" /\ Height[tip] <= Height[dat.base]
  BY Zenon, <1>1 DEF PromiseInv, IbdSound
<1> HIDE DEF settled
<1>9. OneStepper'
  <2>1. /\ pc'[Net] = "abc" /\ pc'[Main] \in {"remove", "idle"} /\ loc'[Main] = NoLocal
        /\ \A t \in Thread \ {Net, Main} : pc'[t] = "idle"
    BY <1>n, <1>2, <1>5
  <2>2. NoLocal.next # "step_loop"
    BY DEF NoLocal
  <2>3. \A t \in Thread : pc'[t] \notin {"step_lock", "step_loop"}
    BY <2>1
  <2>4. \A t \in Thread : pc'[t] \in {"remove", "rename"} => loc'[t].next # "step_loop"
    BY <2>1, <2>2
  <2> QED BY Zenon, <1>n, <2>3, <2>4 DEF OneStepper
<1>10. Underway'
  <2>1. ProofRunning' => ~settled
    BY <1>6 DEF ProofRunning
  <2>2. ProofRunning' => bg'.coins = "ibd" /\ bg'.tip = tip
    BY <1>6, <2>1 DEF ParkedIbd, IdleSlot
  <2> QED BY Zenon, <1>5, <1>7, <1>8, <2>2 DEF Underway
<1>11. IbdSound'
  BY Zenon, <1>5, <1>7, <1>8 DEF IbdSound
<1>12. VerdictSaved'
  BY <1>1, <1>5, <1>6 DEF VerdictSaved, settled
<1>13. Told
  <2> DEFINE c == [base |-> dat.base, hash |-> dat.hash]
  <2>1. Trusted = Outcome(dat.status) /\ Session = c
    BY Zenon, <1>1, SavedTold
  <2>2. Trusted' = Outcome(bgStatus') /\ Session' = c
    BY ZenonT(40), <1>1, <1>5 DEF Trusted, Session, Live
  <2>3. c \in Claims /\ c.base = dat.base /\ c.hash = dat.hash
    BY <1>3 DEF Claims
  <2>4. CASE settled
    <3>1. Honest(dat.base, dat.hash)
      BY Zenon, <1>n, <1>3, <2>4, MatchIsProof DEF settled
    <3>2. Promise!Verdict(c) = "validated"
      BY Zenon, <2>3, <3>1 DEF Promise!Verdict
    <3>3. Outcome(dat.status) = "assumed" /\ Outcome(bgStatus') = "validated"
      BY <1>1, <1>6, <2>4 DEF Outcome, settled
    <3> HIDE DEF c
    <3> QED BY Zenon, <2>1, <2>2, <3>2, <3>3 DEF Told, Promise!Next, Promise!Settle
  <2>5. CASE ~settled
    <3>1. Outcome(dat.status) = Outcome(bgStatus')
      BY <1>1, <1>6, <2>5 DEF Outcome
    <3> HIDE DEF c
    <3> QED BY Zenon, <2>1, <2>2, <3>1 DEF Told, Promise!trustVars
  <2> QED BY Zenon, <2>4, <2>5
<1> QED BY Zenon, <1>9, <1>10, <1>11, <1>12, <1>13 DEF PromiseInv

\* Shutdown and start.
LEMMA MainKeepsPromise ==
  ASSUME ProofInv, ProofInv', SessionInv, PromiseInv, MainNext
  PROVE  PromiseInv' /\ Told
<1>n. /\ TypeOK /\ Main \in Thread /\ Net \in Thread /\ Main # Net /\ NoLocal \in Local
      /\ Within(idxDisk, idxDisk) /\ Within(idxDisk, idx) /\ disk \in [Store -> View]
  BY Zenon, ConfigAssumption, ValueTypes
     DEF ProofInv, TypeInv, TypeOK, Thread, Within, SessionInv, Indexed
<1>1. CASE Interrupt
  <2>1. /\ Goto(Main, "joining", NoLocal)
        /\ UNCHANGED <<idxDisk, disk, dat, dir, cache, snapActive, bg, bgStatus, base, expected, node>>
    BY Zenon, <1>1 DEF Interrupt, diskVars, proofVars
  <2>2. pc'[Main] = "joining" /\ \A u \in Thread \ {Main} : pc'[u] = pc[u] /\ loc'[u] = loc[u]
    BY Zenon, <1>n, <2>1 DEF Goto, TypeOK
  <2>3. ProofRunning' = ProofRunning
    BY ZenonT(40), <2>1 DEF ProofRunning
  <2>4. OneStepper'
    BY Zenon, <1>n, <2>2, <2>3, StepperMoves DEF PromiseInv
  <2> QED BY Zenon, <1>n, <2>1, <2>4, PromiseStays, SameTold
<1>2. CASE Shutdown
  <2>1. Up /\ idxDisk' = idx /\ disk' = Flushed(pcoins) /\ UNCHANGED <<dir, dat>>
    BY Zenon, <1>2 DEF Shutdown
  <2>2. CASE snapActive
    <3>1. /\ Persist(Main, "down", NoLocal)
          /\ UNCHANGED <<cache, snapActive, bg, bgStatus, base, expected, node>>
      BY Zenon, <1>2, <2>2 DEF Shutdown, proofVars
    <3>2. disk'["ibd"] = disk["ibd"]
      <4>1. pcoins = "snap"
        BY Zenon, <2>2 DEF ProofInv, Assumed
      <4> QED BY Zenon, <1>n, <2>1, <4>1 DEF Flushed, Store
    <3>3. /\ pc'[Main] = "remove" /\ loc'[Main].next = "down"
          /\ \A u \in Thread \ {Main} : pc'[u] = pc[u] /\ loc'[u] = loc[u]
      BY Zenon, <1>n, <3>1, PersistType
    <3>4. ProofRunning' = ProofRunning
      BY Zenon, <3>1 DEF ProofRunning
    <3>5. OneStepper'
      BY <1>n, <3>3, <3>4, StepperMoves DEF PromiseInv
    <3> QED BY Zenon, <1>n, <2>1, <3>1, <3>2, <3>5, PromiseStays, SameTold
  <2>3. CASE ~snapActive
    <3>1. node' = "down" /\ ForgetMemory
      BY Zenon, <1>2, <2>3 DEF Shutdown
    <3>2. disk'["ibd"] = cache["ibd"]
      <4>1. pcoins = "ibd"
        BY Zenon, <2>3 DEF ProofInv, Plain
      <4> QED BY Zenon, <1>n, <2>1, <4>1 DEF Flushed, Store
    <3>3. ~Up'
      BY <3>1 DEF Up
    <3> QED BY Zenon, <1>n, <2>1, <2>3, <3>1, <3>2, <3>3, EndTold, EndPromise
  <2> QED BY Zenon, <2>2, <2>3
<1>3. CASE StartFails
  <2>1. /\ UNCHANGED <<idxDisk, disk, dat, dir, cache, snapActive, bg, bgStatus, base, expected,
                       pc, loc>>
        /\ ~Up /\ ~Up'
    BY <1>3 DEF StartFails, diskVars, proofVars, Startable, Up
  <2>2. OneStepper'
    BY Zenon, <2>1 DEF PromiseInv, OneStepper, ProofRunning
  <2>3. Told
    BY Zenon, <2>1 DEF Told, Promise!trustVars, Trusted, Session, Live, Resuming
  <2> QED BY Zenon, <1>n, <2>1, <2>2, <2>3, PromiseStays
<1>4. CASE StartPlain
  <2>1. /\ UNCHANGED <<idxDisk, disk, dir, cache, snapActive, bg, bgStatus, base>>
        /\ dat' = NoDat /\ ~Resuming /\ ~Up /\ Goto(Net, "abc", [NoLocal EXCEPT !.boot = TRUE])
    BY <1>4 DEF StartPlain, proofVars, Startable, Up
  <2>2. ~snapActive
    BY Zenon, <2>1 DEF ProofInv, Downtime
  <2>3. Told
    BY Zenon, <2>1, <2>2 DEF Told, Promise!trustVars, Trusted, Session, Live, Resuming
  <2>4. pc'[Net] = "abc" /\ \A u \in Thread \ {Net} : pc'[u] = pc[u] /\ loc'[u] = loc[u]
    BY Zenon, <1>n, <2>1 DEF Goto, TypeOK
  <2>5. OneStepper'
    BY <1>n, <2>4, StepperMoves DEF PromiseInv
  <2>6. Underway' /\ VerdictSaved' /\ IbdSound'
    BY Zenon, <2>1, <2>2 DEF PromiseInv, Underway, VerdictSaved, IbdSound, ProofRunning
  <2> QED BY Zenon, <2>3, <2>5, <2>6 DEF PromiseInv
<1>5. CASE StartRestored
  BY Zenon, <1>5, RestoreKeepsPromise
<1> QED BY Zenon, <1>1, <1>2, <1>3, <1>4, <1>5 DEF MainNext

\* The initial states map to the initial state of TrustState.
LEMMA InitPromise == Init => PromiseInv /\ Promise!Init
<1> SUFFICES ASSUME Init PROVE PromiseInv /\ Promise!Init
  OBVIOUS
<1>1. /\ disk["ibd"] = TrueView(Genesis) /\ cache["ibd"] = TrueView(Genesis) /\ dat = NoDat
      /\ dir = "none" /\ ~snapActive /\ idxDisk[Genesis] = "data" /\ \A t \in Thread : pc[t] = "idle"
  BY TreeAssumption DEF Init, Store
<1>2. OneStepper
  <2>1. Net \in Thread
    BY ZenonT(40) DEF Thread
  <2> QED BY <1>1, <2>1 DEF OneStepper
<1>3. Underway /\ IbdSound /\ VerdictSaved
  <2>1. disk["ibd"].kind = "true" /\ disk["ibd"].best = Genesis /\ cache["ibd"].kind = "true"
    BY ZenonT(30), <1>1, TrueViewFields
  <2> QED BY Zenon, <1>1, <2>1 DEF Underway, IbdSound, VerdictSaved, ProofRunning
<1>4. Promise!Init
  BY Zenon, <1>1, NothingTold DEF Promise!Init
<1> QED BY Zenon, <1>2, <1>3, <1>4 DEF PromiseInv

\* Every step keeps the invariant, and maps to a step of TrustState or to none.
LEMMA PromiseStep ==
  ASSUME Sequential, OneChain, Automatic, ProofInv, ProofInv', SessionInv, SessionInv', PromiseInv,
         [Next]_vars
  PROVE  PromiseInv' /\ Told
<1>1. CASE UNCHANGED vars
  <2>1. UNCHANGED <<idxDisk, disk, dat, dir, cache, snapActive, bg, bgStatus, base, expected,
                    pc, loc, node>>
    BY Zenon, <1>1 DEF vars, diskVars, chainVars, proofVars
  <2>2. OneStepper' /\ Within(idxDisk, idxDisk')
    BY Zenon, <2>1 DEF PromiseInv, OneStepper, ProofRunning, Within
  <2> QED BY Zenon, <2>1, <2>2, PromiseStays, SameTold
<1>2. CASE Next
  BY Zenon, <1>2, RpcKeepsPromise, StepKeepsPromise, NetKeepsPromise, MainKeepsPromise,
     EnvKeepsPromise DEF Next
<1> QED BY Zenon, <1>1, <1>2

\* Loading, activation, stepping, saving, crash and restore together implement
\* TrustState: no verdict is invented, swapped or contradicted.  It takes one chain of
\* blocks (on a fork off the base a proof fails whatever the claim is worth) and a
\* proof that no RPC worker steps (it may fail one that has just succeeded).
THEOREM PromiseKept == Sequential /\ OneChain /\ Automatic /\ Spec => KeepsPromise
<1> SUFFICES ASSUME Sequential, OneChain, Automatic PROVE Spec => KeepsPromise
  OBVIOUS
<1>1. Spec => []ProofInv
  BY ProofInvariant
<1>2. ProofInv /\ ProofInv' /\ SessionInv /\ [Next]_vars => SessionInv'
  BY SessionInvStep
<1>3. ProofInv /\ ProofInv' /\ SessionInv /\ SessionInv' /\ PromiseInv /\ [Next]_vars =>
        PromiseInv' /\ [Promise!Next]_(Promise!trustVars)
  BY Zenon, PromiseStep DEF Told
<1> QED BY <1>1, <1>2, <1>3, InitSession, InitPromise, PTL DEF Spec, KeepsPromise, Promise!Spec

=============================================================================
