--------------------------- MODULE DualChainstate ---------------------------
(***************************************************************************)
(* The AssumeUTXO dual chainstate of the node.  One process owns an active *)
(* chain (chainActive, pcoinsTip), a background chainstate object, the     *)
(* block index, two coins databases (chainstate/, chainstate_snapshot/)    *)
(* and the state file assumeutxo.dat.  RPC workers load a snapshot,        *)
(* activate it and step its background proof; the message handler stores   *)
(* blocks, moves the active tip and steps the proof as well; the process   *)
(* may stop, crash and start again.                                        *)
(*                                                                         *)
(* cs_main is not a variable: the thread whose pc is in Locked holds it.   *)
(***************************************************************************)
EXTENDS Integers, FiniteSets

CONSTANTS
  Block,          \* the blocks of the tree (headers that have proof of work)
  NoBlock,        \* the null block index / null hash
  Genesis,
  Parent,         \* CBlockIndex::pprev
  Height,         \* CBlockIndex::nHeight; every block carries one unit of work
  Path,           \* Path[b]: b and its ancestors
  KnownAtStart,   \* the headers in the block index of the first state
  Invalid,        \* the blocks ConnectBlock rejects on a true UTXO set
  Snapshot,       \* the snapshot files loadtxoutset may be given (views)
  Attested,       \* the digests of chainparams' mapAssumeutxo
  DevActivation,  \* regtest or -assumeutxodev
  Rpc,            \* the HTTP worker threads
  Net,            \* the thread that runs ActivateBestChain
  Main,           \* the thread that runs AppInit and Shutdown
  Engine,         \* "leveldb" or "mdbx"
  PruneMode,      \* -prune is set
  KeepDepth,      \* MIN_BLOCKS_TO_KEEP (288 in the code)
  RpcBatch,       \* nblocks of stepbackgroundvalidation (1..10000)
  AutoBatch,      \* blocks of an automatic step (32)
  FlushEvery      \* connected blocks between two background flushes (100)

\* Block trees: parents, heights and ancestor sets agree.
ASSUME TreeAssumption ==
  /\ NoBlock \notin Block
  /\ Genesis \in Block
  /\ Parent \in [Block -> Block \cup {NoBlock}]
  /\ Height \in [Block -> Nat]
  /\ Path \in [Block -> SUBSET Block]
  /\ Parent[Genesis] = NoBlock /\ Height[Genesis] = 0 /\ Path[Genesis] = {Genesis}
  /\ \A b \in Block \ {Genesis} :
        /\ Parent[b] \in Block
        /\ Height[b] = Height[Parent[b]] + 1
        /\ Path[b] = Path[Parent[b]] \cup {b}
  /\ \A b \in Block : /\ Genesis \in Path[b] /\ b \in Path[b]
                      /\ \A a \in Path[b] : /\ Path[a] \subseteq Path[b]
                                            /\ a = b \/ Height[a] < Height[b]
                      /\ \A a, c \in Path[b] : Height[a] = Height[c] => a = c
                      /\ \A h \in 0..Height[b] : \E a \in Path[b] : Height[a] = h

Kind == {"true", "meta", "outs", "mixed"}
View == [best : Block \cup {NoBlock}, at : Block \cup {NoBlock}, kind : Kind]
Hash == [best : Block \cup {NoBlock}, at : Block \cup {NoBlock}, kind : Kind]
NoHash == [best |-> NoBlock, at |-> NoBlock, kind |-> "true"]

\* The configuration: threads are distinct, batches are positive, a snapshot file
\* names a base block.  A reload beside an open MDBX environment is only considered
\* with one RPC worker and automatic steps: a manual step that meets the reload
\* would use coins another thread is freeing.
ASSUME ConfigAssumption ==
  /\ KnownAtStart \subseteq Block /\ Genesis \in KnownAtStart
  /\ Invalid \subseteq Block \ {Genesis}
  /\ Snapshot \subseteq [best : Block, at : Block, kind : {"true", "meta", "outs"}]
  /\ Attested \subseteq Hash
  /\ DevActivation \in BOOLEAN /\ PruneMode \in BOOLEAN
  /\ Net # Main /\ Net \notin Rpc /\ Main \notin Rpc
  /\ Engine \in {"leveldb", "mdbx"}
  /\ Engine = "mdbx" => RpcBatch = {} /\ \A t, u \in Rpc : t = u
  /\ KeepDepth \in Nat
  /\ RpcBatch \subseteq Nat \ {0} /\ AutoBatch \in Nat \ {0} /\ FlushEvery \in Nat \ {0}

\* AcceptBlockHeader indexes no header before its parent.
ASSUME HeadersAssumption == \A b \in KnownAtStart \ {Genesis} : Parent[b] \in KnownAtStart

VARIABLES
  idx,        \* mapBlockIndex: what is stored of each block
  idxDisk,    \* blocks/index as last written
  cand,       \* setBlockIndexCandidates
  cache,      \* CCoinsViewCache of each coins store
  disk,       \* coins database of each store
  dir,        \* the store whose files are at chainstate_snapshot/
  dat,        \* assumeutxo.dat
  activeTip,  \* chainActive.Tip()
  pcoins,     \* the store pcoinsTip points to
  snapActive, \* g_snapshot_is_active
  bg,         \* g_background_chainstate
  bgStatus,   \* g_bg_status; the validated/failed/collapsed flags follow it
  bgHeight,   \* g_bg_height
  bgTarget,   \* g_bg_target_height
  base,       \* g_snapshot_base_hash
  expected,   \* g_expected_coins_hash
  stopping,   \* fRequestShutdown
  node,       \* whether the process runs, and how the last start ended
  pc, loc     \* where each thread is, and its locals

diskVars == <<idxDisk, disk, dir, dat>>
coinVars == <<cache, disk>>
chainVars == <<activeTip, cand>>
proofVars == <<bgStatus, bgHeight, bgTarget, base, expected>>
vars == <<idx, idxDisk, cand, cache, disk, dir, dat, activeTip, pcoins, snapActive,
          bg, bgStatus, bgHeight, bgTarget, base, expected, stopping, node, pc, loc>>

Thread == Rpc \cup {Net, Main}
Store == {"ibd", "snap", "reload"}
Stored == {"unknown", "header", "data", "undo", "pruned", "failed", "failed_undo",
           "failed_pruned"}
Status == {"none", "running", "waiting", "completed", "failed"}
NoDat == [base |-> NoBlock, hash |-> NoHash, status |-> "none"]
Dat == [base : Block \cup {NoBlock}, hash : Hash, status : Status]
Locked == {"abc_step", "step_loop", "remove", "rename"}
Pc == Locked \cup {"idle", "loading", "act_lock", "abc", "step_check", "step_lock", "joining"}
Local == [left : Nat, conn : Nat, next : {"idle", "stop", "step_loop", "down"},
          most : Block \cup {NoBlock}, old : Block \cup {NoBlock}, boot : BOOLEAN,
          file : View]
EmptyView == [best |-> NoBlock, at |-> NoBlock, kind |-> "outs"]
NoLocal == [left |-> 0, conn |-> 0, next |-> "idle", most |-> NoBlock, old |-> NoBlock,
            boot |-> FALSE, file |-> EmptyView]
Slot == [tip : Block \cup {NoBlock}, coins : Store \cup {"none"},
         base : Block \cup {NoBlock}, hash : Hash]

-----------------------------------------------------------------------------
(* Block index and block tree *)

\* BLOCK_HAVE_DATA, BLOCK_HAVE_UNDO, BLOCK_FAILED_VALID.
HaveData(i, b) == i[b] \in {"data", "undo", "failed", "failed_undo"}
HaveUndo(i, b) == i[b] \in {"undo", "failed_undo"}
Failed(i, b) == i[b] \in {"failed", "failed_undo", "failed_pruned"}
\* nTx # 0
Received(i, b) == i[b] \notin {"unknown", "header"}
OnFailedChain(i, b) == \E a \in Path[b] : Failed(i, a)
\* ConnectBlock stores undo data, and pruning removes data and undo data; neither
\* clears a failure mark.
WithUndo(i, b) == [i EXCEPT ![b] = IF Failed(i, b) THEN "failed_undo" ELSE "undo"]
Pruned(i, b) == [i EXCEPT ![b] = IF Failed(i, b) THEN "failed_pruned" ELSE "pruned"]
\* InvalidBlockFound
Rejected(i, b) == [i EXCEPT ![b] = IF HaveUndo(i, b) THEN "failed_undo" ELSE "failed"]
\* nChainTx # 0: the transactions of b and all its ancestors were received once.
Linked(i, b) == \A a \in Path[b] : Received(i, a)
Ancestor(b, h) == CHOOSE a \in Path[b] : Height[a] = h

\* Not worse than tip under CBlockIndexWorkComparator; ties favour the tip.
Competes(b, tip) == b = tip \/ Height[b] > Height[tip]

-----------------------------------------------------------------------------
(* Coins: a view is the UTXO set of block `at' (intact, with altered per-coin
   metadata, with altered outputs, or mixed up), labelled with `best'. *)

\* Mutant: the outputs are left out of the digest.
DigestOfTxids(v) == [v EXCEPT !.kind = "true"]

\* ComputeCoinsHashSerialized covers the label, the txids and the outputs; the
\* height, coinbase flag and version of a coin are not hashed.
Digest(v) == [v EXCEPT !.kind = IF @ = "meta" THEN "true" ELSE @]

TrueView(b) == [best |-> b, at |-> b, kind |-> "true"]

\* Mutant: ConnectBlock does not move the label.
ConnectViewUnlabelled(v, b) == [v EXCEPT !.at = b]
\* Mutant: DisconnectBlock does not move the label back.
DisconnectViewUnlabelled(v, b) == [v EXCEPT !.at = Parent[b]]

\* The outcomes ConnectBlock can have: determined on a true view only.
Connects(v, b) == IF v.kind = "true" /\ v.at = Parent[b] THEN {b \notin Invalid} ELSE BOOLEAN
ConnectView(v, b) == [best |-> b, at |-> IF v.at = Parent[b] THEN b ELSE v.at,
                      kind |-> IF v.at = Parent[b] THEN v.kind ELSE "mixed"]
Disconnects(v, b) == IF v.kind = "true" /\ v.at = b THEN {TRUE} ELSE BOOLEAN
DisconnectView(v, b) == [best |-> Parent[b], at |-> IF v.at = b THEN Parent[b] ELSE v.at,
                         kind |-> IF v.at = b THEN v.kind ELSE "mixed"]

-----------------------------------------------------------------------------
IdleSlot == [tip |-> NoBlock, coins |-> "none", base |-> NoBlock, hash |-> NoHash]
\* Mutant: the parked chainstate is given pcoinsTip after it was switched.
ParkedSwitched(tip) == [IdleSlot EXCEPT !.tip = tip, !.coins = "snap"]
ParkedIbd(tip) == [IdleSlot EXCEPT !.tip = tip, !.coins = "ibd"]

Init ==
  /\ idx = [b \in Block |-> IF b = Genesis THEN "data"
                            ELSE IF b \in KnownAtStart THEN "header" ELSE "unknown"]
  /\ idxDisk = idx
  /\ cand = {Genesis}
  /\ cache = [s \in Store |-> IF s = "ibd" THEN TrueView(Genesis) ELSE EmptyView]
  /\ disk = cache
  /\ dir = "none" /\ dat = NoDat
  /\ activeTip = Genesis /\ pcoins = "ibd" /\ snapActive = FALSE
  /\ bg = IdleSlot
  /\ bgStatus = "none" /\ bgHeight = -1 /\ bgTarget = -1
  /\ base = NoBlock /\ expected = NoHash
  /\ stopping = FALSE /\ node = "up"
  /\ pc = [t \in Thread |-> "idle"]
  /\ loc = [t \in Thread |-> NoLocal]

Up == node = "up"
\* Until Interrupt, the RPC server and the network take new work.
Serving == Up /\ pc[Main] # "joining"
CsMainFree == \A t \in Thread : pc[t] \notin Locked
Goto(t, label, l) == pc' = [pc EXCEPT ![t] = label] /\ loc' = [loc EXCEPT ![t] = l]
Return(t) == Goto(t, "idle", NoLocal)
\* PersistAssumeUtxoStateUnlocked: the file is removed, then renamed into place.
Persist(t, next, l) == Goto(t, "remove", [l EXCEPT !.next = next])
Flushed(s) == [disk EXCEPT ![s] = cache[s]]

-----------------------------------------------------------------------------
(* Blocks *)

ProofRunning == snapActive /\ bgStatus \in {"running", "waiting"}

\* GetBackgroundValidationMissingBlocks
MissingBlocks ==
  IF ~ProofRunning \/ base = NoBlock THEN {}
  ELSE {b \in Path[base] : Height[b] > bgHeight /\ ~HaveData(idx, b)}

\* Historical blocks first, then blocks on the way to a better known header.
Requested(b) ==
  \/ b \in MissingBlocks
  \/ /\ b \notin Path[activeTip]
     /\ \E h \in Block : idx[h] # "unknown" /\ b \in Path[h] /\ Height[h] > Height[activeTip]

ReceiveHeader(b) ==
  /\ Serving /\ CsMainFree
  /\ idx[b] = "unknown" /\ b # Genesis /\ idx[Parent[b]] # "unknown"
  /\ ~OnFailedChain(idx, b)
  /\ idx' = [idx EXCEPT ![b] = "header"]
  /\ UNCHANGED <<diskVars, chainVars, cache, pcoins, snapActive, bg, proofVars, stopping,
                 node, pc, loc>>

\* ProcessNewBlock: AcceptBlock under cs_main, then ActivateBestChain.
ReceiveBlock(b) ==
  /\ Serving /\ CsMainFree /\ pc[Net] = "idle"
  /\ idx[b] \in {"header", "pruned"} /\ ~OnFailedChain(idx, b)
  /\ Requested(b)
  /\ idx' = [idx EXCEPT ![b] = "data"]
  /\ cand' = cand \cup {c \in Block : b \in Path[c] /\ Linked(idx', c) /\ Competes(c, activeTip)}
  /\ Goto(Net, "abc", NoLocal)
  /\ UNCHANGED <<diskVars, activeTip, cache, pcoins, snapActive, bg, proofVars, stopping, node>>

\* FlushStateToDisk: the block index alone, or the index and then pcoinsTip.
\* ConnectTip and DisconnectTip call it between two blocks of one step.
MayFlush == Up /\ \A t \in Thread : pc[t] \notin Locked \ {"abc_step"}

FlushIndex ==
  /\ MayFlush
  /\ idxDisk' = idx
  /\ UNCHANGED <<idx, chainVars, coinVars, dir, dat, pcoins, snapActive, bg, proofVars,
                 stopping, node, pc, loc>>

FlushStateToDisk ==
  /\ MayFlush
  /\ idxDisk' = idx /\ disk' = Flushed(pcoins)
  /\ UNCHANGED <<idx, chainVars, cache, dir, dat, pcoins, snapActive, bg, proofVars,
                 stopping, node, pc, loc>>

\* FindFilesToPrune inside FlushStateToDisk: it looks at the active tip only,
\* so it also takes blocks the background proof has not connected yet.
Prune(b) ==
  /\ MayFlush /\ PruneMode
  /\ HaveData(idx, b) /\ Height[b] <= Height[activeTip] - KeepDepth
  /\ idx' = Pruned(idx, b)
  /\ idxDisk' = idx' /\ disk' = Flushed(pcoins)
  /\ UNCHANGED <<chainVars, cache, dir, dat, pcoins, snapActive, bg, proofVars,
                 stopping, node, pc, loc>>

-----------------------------------------------------------------------------
(* ActivateBestChain (thread Net).  "abc": between two rounds, cs_main free;
   "abc_step": inside ActivateBestChainStep. *)

Usable(c) == \A a \in Path[c] \ Path[activeTip] : idx[a] \in {"data", "undo"}

\* FindMostWorkChain: the best usable candidate, after dropping the better ones
\* that are not usable.
IsMostWork(m) ==
  IF \E c \in cand : Usable(c)
  THEN /\ m \in cand /\ Usable(m)
       /\ \A c \in cand : Usable(c) => Height[c] <= Height[m]
       /\ activeTip \in cand => Competes(m, activeTip)
  ELSE m = NoBlock
Dropped(m) == {c \in cand : ~Usable(c) /\ (m = NoBlock \/ Height[c] >= Height[m])}

\* One round: choose the best chain unless it is cached, return when there is
\* nothing to do (without stepping the proof), else enter the step.
AbcRound ==
  /\ Up /\ CsMainFree /\ pc[Net] = "abc"
  /\ \E m \in Block \cup {NoBlock} :
       /\ IF loc[Net].most = NoBlock
          THEN IsMostWork(m) /\ cand' = cand \ Dropped(m)
          ELSE m = loc[Net].most /\ UNCHANGED cand
       /\ IF m \in {NoBlock, activeTip}
          THEN Return(Net)
          ELSE Goto(Net, "abc_step", [loc[Net] EXCEPT !.most = m, !.old = activeTip])
  /\ UNCHANGED <<idx, diskVars, activeTip, cache, pcoins, snapActive, bg, proofVars, stopping,
                 node>>

\* The end of a round: shutdown and reaching the target leave the loop, and the
\* proof is stepped; anything else is another round with the target cached.
AbcRoundEnd(tip, most) ==
  IF stopping \/ tip = most
  THEN Goto(Net, "step_check", NoLocal)
  ELSE Goto(Net, "abc", [loc[Net] EXCEPT !.most = most, !.old = NoBlock])

\* A system error leaves ActivateBestChain; ThreadImport then stops the node.
AbcError ==
  /\ Return(Net)
  /\ stopping' = (stopping \/ loc[Net].boot)

AbcDisconnect ==
  /\ Up /\ pc[Net] = "abc_step" /\ activeTip \notin Path[loc[Net].most]
  /\ UNCHANGED <<idx, diskVars, cand, pcoins, snapActive, bg, proofVars, node>>
  /\ \/ \* ActivateBestChainStep refuses to leave a tip without a body
        /\ snapActive /\ ~HaveData(idx, activeTip)
        /\ AbcRoundEnd(activeTip, loc[Net].most)
        /\ UNCHANGED <<activeTip, cache, stopping>>
     \/ \* AbortNode: no body and no snapshot
        /\ ~snapActive /\ ~HaveData(idx, activeTip)
        /\ Return(Net) /\ stopping' = TRUE
        /\ UNCHANGED <<activeTip, cache>>
     \/ \* DisconnectBlock fails without undo data, or on inconsistent coins
        /\ HaveData(idx, activeTip)
        /\ ~HaveUndo(idx, activeTip) \/ FALSE \in Disconnects(cache[pcoins], activeTip)
        /\ AbcError
        /\ UNCHANGED <<activeTip, cache>>
     \/ /\ HaveUndo(idx, activeTip) /\ TRUE \in Disconnects(cache[pcoins], activeTip)
        /\ activeTip' = Parent[activeTip]
        /\ cache' = [cache EXCEPT ![pcoins] = DisconnectView(@, activeTip)]
        /\ IF Parent[activeTip] = loc[Net].most
           THEN AbcRoundEnd(loc[Net].most, loc[Net].most)
           ELSE UNCHANGED <<pc, loc>>
        /\ UNCHANGED stopping

AbcConnect ==
  /\ Up /\ pc[Net] = "abc_step" /\ activeTip \in Path[loc[Net].most]
  /\ UNCHANGED <<diskVars, pcoins, snapActive, bg, proofVars, node>>
  /\ LET next == Ancestor(loc[Net].most, Height[activeTip] + 1)
     IN \/ \* ReadBlockFromDisk fails: an error, or AbortNode without a snapshot
           /\ ~HaveData(idx, next)
           /\ Return(Net) /\ stopping' = (stopping \/ loc[Net].boot \/ ~snapActive)
           /\ UNCHANGED <<idx, cand, activeTip, cache>>
        \/ \* ConnectBlock rejects it: marked invalid, the cached target is dropped
           /\ HaveData(idx, next) /\ FALSE \in Connects(cache[pcoins], next)
           /\ idx' = Rejected(idx, next) /\ cand' = cand \ {next}
           /\ AbcRoundEnd(activeTip, NoBlock)
           /\ UNCHANGED <<activeTip, cache, stopping>>
        \/ /\ HaveData(idx, next) /\ TRUE \in Connects(cache[pcoins], next)
           /\ idx' = WithUndo(idx, next)
           /\ cache' = [cache EXCEPT ![pcoins] = ConnectView(@, next)]
           /\ activeTip' = next
           /\ cand' = {c \in cand : Competes(c, next)}
           /\ IF Height[next] > Height[loc[Net].old] \/ next = loc[Net].most
              THEN AbcRoundEnd(next, loc[Net].most)
              ELSE UNCHANGED <<pc, loc>>
           /\ UNCHANGED stopping

\* MaybeStepBackgroundValidation at the end of ActivateBestChain.
AutoStepCheck ==
  /\ Up /\ pc[Net] = "step_check"
  /\ IF ProofRunning THEN Goto(Net, "step_lock", [NoLocal EXCEPT !.left = AutoBatch])
                     ELSE Return(Net)
  /\ UNCHANGED <<idx, diskVars, chainVars, cache, pcoins, snapActive, bg, proofVars,
                 stopping, node>>

-----------------------------------------------------------------------------
(* loadtxoutset: LoadUTXOSnapshot *)

\* The coins database to be wiped and filled.  LevelDB's directory lock makes the
\* allocation fail while the active chainstate has chainstate_snapshot/ open;
\* MDBX unlinks the files and opens new ones beside the environment in use.
SnapshotDirOpen == snapActive /\ pcoins = "snap"
\* Mutant: the snapshot is loaded into the live chainstate/.
LoadStoreLive == "ibd"
LoadStore == IF SnapshotDirOpen THEN "reload" ELSE "snap"

\* The unlocked idle checks, and AllocateCoinsDB with fWipe.
LoadStart(t, f) ==
  /\ Serving /\ pc[t] = "idle"
  /\ bg.coins = "none"
  /\ SnapshotDirOpen => Engine = "mdbx"
  /\ bg' = [IdleSlot EXCEPT !.coins = LoadStore]
  /\ cache' = [cache EXCEPT ![LoadStore] = EmptyView]
  /\ disk' = [disk EXCEPT ![LoadStore] = EmptyView]
  /\ dir' = LoadStore
  /\ Goto(t, "loading", [NoLocal EXCEPT !.file = f])
  /\ UNCHANGED <<idx, idxDisk, chainVars, dat, pcoins, snapActive, proofVars, stopping, node>>

\* Mutant: the last batch is never flushed.
LoadFinishUnflushed(t) ==
  /\ Up /\ CsMainFree /\ pc[t] = "loading"
  /\ LET f == loc[t].file
     IN /\ cache' = [cache EXCEPT ![bg.coins] = f]
        /\ bg' = [bg EXCEPT !.tip = IF idx[f.best] = "unknown" THEN NoBlock ELSE f.best,
                            !.base = f.best, !.hash = Digest(f)]
  /\ Return(t)
  /\ UNCHANGED <<idx, diskVars, chainVars, pcoins, snapActive, proofVars, stopping, node>>

\* The last batch is flushed under the base's label; the tip is attached only if
\* the base is already indexed; the digest of the stored coins is frozen.
LoadFinish(t) ==
  /\ Up /\ CsMainFree /\ pc[t] = "loading"
  /\ LET f == loc[t].file
     IN /\ cache' = [cache EXCEPT ![bg.coins] = f]
        /\ disk' = [disk EXCEPT ![bg.coins] = f]
        /\ bg' = [bg EXCEPT !.tip = IF idx[f.best] = "unknown" THEN NoBlock ELSE f.best,
                            !.base = f.best, !.hash = Digest(f)]
  /\ Return(t)
  /\ UNCHANGED <<idx, idxDisk, chainVars, dir, dat, pcoins, snapActive, proofVars,
                 stopping, node>>

\* A short or malformed file: ResetCoinsDB.  What was flushed stays on disk.
LoadFail(t) ==
  /\ Up /\ pc[t] = "loading"
  /\ bg' = IdleSlot
  /\ Return(t)
  /\ UNCHANGED <<idx, diskVars, chainVars, cache, pcoins, snapActive, proofVars, stopping,
                 node>>

-----------------------------------------------------------------------------
(* activatesnapshot: ActivateLoadedSnapshot *)

\* AssumeUtxoActivationAllowed
ActivationAllowed(h) == DevActivation \/ h \in Attested

\* The checks before LOCK(cs_main).
ActivateCheck(t) ==
  /\ Serving /\ pc[t] = "idle"
  /\ ~snapActive
  /\ bg.coins # "none" /\ bg.base # NoBlock /\ bg.tip # NoBlock
  /\ ActivationAllowed(bg.hash)
  /\ Goto(t, "act_lock", NoLocal)
  /\ UNCHANGED <<idx, diskVars, chainVars, cache, pcoins, snapActive, bg, proofVars,
                 stopping, node>>

\* `snap' was read before the lock.  If another worker activated it meanwhile it
\* is the active chainstate object by now, and its chain is chainActive.
SnapTip == IF snapActive THEN activeTip ELSE bg.tip
SnapBase == IF snapActive THEN base ELSE bg.base
SnapHash == IF snapActive THEN expected ELSE bg.hash

\* The snapshot is behind the tip.
ActivateRefuse(t) ==
  /\ Up /\ CsMainFree /\ pc[t] = "act_lock"
  /\ Height[SnapTip] < Height[activeTip]
  /\ Return(t)
  /\ UNCHANGED <<idx, diskVars, chainVars, cache, pcoins, snapActive, bg, proofVars,
                 stopping, node>>

\* Does the parked IBD tip sit on the base already?
AtBase == activeTip = SnapBase /\ Height[activeTip] >= Height[SnapTip]

ActivateLocked(t) ==
  /\ Up /\ CsMainFree /\ pc[t] = "act_lock"
  /\ Height[SnapTip] >= Height[activeTip]
  /\ bg.coins # "none"
  /\ idxDisk' = idx
  /\ cache' = [cache EXCEPT ![bg.coins].best = SnapTip]
  /\ disk' = IF AtBase THEN [Flushed(pcoins) EXCEPT !["ibd"] = cache'["ibd"]] ELSE Flushed(pcoins)
  /\ pcoins' = bg.coins /\ activeTip' = SnapTip /\ snapActive' = TRUE
  /\ base' = SnapBase /\ expected' = SnapHash
  /\ bgTarget' = Height[SnapTip] /\ bgHeight' = Height[activeTip]
  /\ bgStatus' = IF ~AtBase THEN "running"
                 ELSE IF Digest(disk'["ibd"]) = SnapHash THEN "completed" ELSE "failed"
  /\ bg' = IF bgStatus' = "completed" THEN IdleSlot ELSE ParkedIbd(activeTip)
  /\ Persist(t, IF bgStatus' = "failed" THEN "stop" ELSE "idle", NoLocal)
  /\ UNCHANGED <<idx, cand, dir, dat, stopping, node>>

-----------------------------------------------------------------------------
(* StepBackgroundValidation *)

\* Mutant: a proof that waits for blocks is not stepped.
StepCheckRunning(t, n) ==
  /\ Serving /\ pc[t] = "idle" /\ snapActive /\ bgStatus = "running"
  /\ Goto(t, "step_lock", [NoLocal EXCEPT !.left = n])
  /\ UNCHANGED <<idx, diskVars, chainVars, cache, pcoins, snapActive, bg, proofVars,
                 stopping, node>>

\* stepbackgroundvalidation: the status checks before LOCK(cs_main).
StepCheck(t, n) ==
  /\ Serving /\ pc[t] = "idle" /\ ProofRunning
  /\ Goto(t, "step_lock", [NoLocal EXCEPT !.left = n])
  /\ UNCHANGED <<idx, diskVars, chainVars, cache, pcoins, snapActive, bg, proofVars,
                 stopping, node>>

\* Mutant: a failure does not shut the node down.
FailQuietly(t) ==
  /\ bgStatus' = "failed"
  /\ Persist(t, "idle", NoLocal)
  /\ UNCHANGED bg

\* FailBackgroundValidation: persist, then StartShutdown.
Fail(t) ==
  /\ bgStatus' = "failed"
  /\ Persist(t, "stop", NoLocal)
  /\ UNCHANGED bg

\* CompleteBackgroundValidation: collapse the background slot, persist.
Complete(t) ==
  /\ bgStatus' = "completed"
  /\ bg' = IdleSlot
  /\ Persist(t, "idle", NoLocal)

\* Mutant: only the best block is compared.
CheckDigestLabel(t) ==
  /\ disk' = Flushed(bg.coins)
  /\ IF disk'[bg.coins].best = expected.best THEN Complete(t) ELSE Fail(t)

\* Flush the background coins, hash them, and settle.
CheckDigest(t) ==
  /\ disk' = Flushed(bg.coins)
  /\ IF Digest(disk'[bg.coins]) = expected THEN Complete(t) ELSE Fail(t)

StepLock(t) ==
  /\ Up /\ CsMainFree /\ pc[t] = "step_lock"
  /\ IF bg.coins = "none" \/ base = NoBlock \/ idx[base] = "unknown"
     THEN Fail(t)
     ELSE Goto(t, "step_loop", loc[t]) /\ UNCHANGED <<bgStatus, bg>>
  /\ UNCHANGED <<idx, diskVars, chainVars, cache, pcoins, snapActive, bgHeight, bgTarget,
                 base, expected, stopping, node>>

\* One iteration of the loop.  A block is connected straight into the IBD cache,
\* so a rejected block leaves that cache half updated.
StepIter(t) ==
  /\ Up /\ pc[t] = "step_loop" /\ loc[t].left > 0 /\ ~stopping
  /\ UNCHANGED <<idxDisk, dir, dat, chainVars, pcoins, snapActive, bgTarget, base, expected,
                 stopping, node>>
  /\ LET h == IF bg.tip = NoBlock THEN -1 ELSE Height[bg.tip]
         next == Ancestor(base, h + 1)
         view == cache[bg.coins]
     IN \/ \* finished connecting: the tip must be the base, and the digest match
           /\ h >= Height[base]
           /\ bgHeight' = h
           /\ IF bg.tip = base THEN CheckDigest(t) ELSE Fail(t) /\ UNCHANGED disk
           /\ UNCHANGED <<idx, cache>>
        \/ \* the next block does not extend the background tip or its coins
           /\ h < Height[base]
           /\ Parent[next] # bg.tip \/ (HaveData(idx, next) /\ view.best # bg.tip)
           /\ bgHeight' = h
           /\ Fail(t)
           /\ UNCHANGED <<idx, cache, disk>>
        \/ \* wait for its body
           /\ h < Height[base] /\ Parent[next] = bg.tip /\ ~HaveData(idx, next)
           /\ bgHeight' = h /\ bgStatus' = "waiting"
           /\ Persist(t, "idle", NoLocal)
           /\ UNCHANGED <<idx, coinVars, bg>>
        \/ /\ h < Height[base] /\ Parent[next] = bg.tip /\ HaveData(idx, next)
           /\ view.best = bg.tip /\ FALSE \in Connects(view, next)
           /\ bgHeight' = h
           /\ cache' = [cache EXCEPT ![bg.coins].kind = "mixed"]
           /\ Fail(t)
           /\ UNCHANGED <<idx, disk>>
        \/ /\ h < Height[base] /\ Parent[next] = bg.tip /\ HaveData(idx, next)
           /\ view.best = bg.tip /\ TRUE \in Connects(view, next)
           /\ idx' = WithUndo(idx, next)
           /\ cache' = [cache EXCEPT ![bg.coins] = ConnectView(@, next)]
           /\ bg' = [bg EXCEPT !.tip = next]
           /\ bgHeight' = Height[next] /\ bgStatus' = "running"
           /\ LET l == [loc[t] EXCEPT !.left = @ - 1, !.conn = @ + 1]
              IN IF l.conn % FlushEvery = 0
                 THEN /\ disk' = [disk EXCEPT ![bg.coins] = cache'[bg.coins]]
                      /\ Persist(t, "step_loop", l)
                 ELSE Goto(t, "step_loop", l) /\ UNCHANGED disk

\* Mutant: a shutdown request does not end the batch.
StepEndDeaf(t) ==
  /\ Up /\ pc[t] = "step_loop" /\ loc[t].left = 0
  /\ Return(t)
  /\ UNCHANGED <<idx, diskVars, chainVars, cache, pcoins, snapActive, bg, proofVars, stopping,
                 node>>

\* After the loop: the batch may have landed exactly on the base.
StepEnd(t) ==
  /\ Up /\ pc[t] = "step_loop" /\ (loc[t].left = 0 \/ stopping)
  /\ IF bg.tip # NoBlock /\ bg.tip = base /\ Height[bg.tip] >= bgTarget
     THEN CheckDigest(t)
     ELSE Return(t) /\ UNCHANGED <<disk, bgStatus, bg>>
  /\ UNCHANGED <<idx, idxDisk, dir, dat, chainVars, cache, pcoins, snapActive, bgHeight,
                 bgTarget, base, expected, stopping, node>>

-----------------------------------------------------------------------------
(* WriteAssumeUtxoDiskState: the complete .tmp file replaces the old one in two
   steps, and a crash may fall between them. *)

PersistRemove(t) ==
  /\ Up /\ pc[t] = "remove"
  /\ dat' = NoDat
  /\ Goto(t, "rename", loc[t])
  /\ UNCHANGED <<idx, idxDisk, disk, dir, chainVars, cache, pcoins, snapActive, bg, proofVars,
                 stopping, node>>

\* Memory of a process that does not run.
ForgetMemory ==
  /\ idx' = idxDisk' /\ cache' = disk' /\ cand' = {}
  /\ activeTip' = Genesis /\ pcoins' = "ibd" /\ snapActive' = FALSE
  /\ bg' = IdleSlot /\ bgStatus' = "none" /\ bgHeight' = -1 /\ bgTarget' = -1
  /\ base' = NoBlock /\ expected' = NoHash /\ stopping' = FALSE
  /\ pc' = [t \in Thread |-> "idle"] /\ loc' = [t \in Thread |-> NoLocal]

PersistRename(t) ==
  /\ Up /\ pc[t] = "rename"
  /\ dat' = [base |-> base, hash |-> expected, status |-> bgStatus]
  /\ UNCHANGED <<idxDisk, disk, dir>>
  /\ IF loc[t].next = "down"
     THEN node' = "down" /\ ForgetMemory
     ELSE /\ stopping' = (stopping \/ loc[t].next = "stop")
          /\ IF loc[t].next = "step_loop" THEN Goto(t, "step_loop", [loc[t] EXCEPT !.next = "idle"])
                                          ELSE Return(t)
          /\ UNCHANGED <<idx, chainVars, cache, pcoins, snapActive, bg, proofVars, node>>

-----------------------------------------------------------------------------
(* Stopping, crashing, starting *)

RequestShutdown ==
  /\ Up /\ ~stopping
  /\ stopping' = TRUE
  /\ UNCHANGED <<idx, diskVars, chainVars, cache, pcoins, snapActive, bg, proofVars, node, pc,
                 loc>>

\* WaitForShutdown sees the request and interrupts the servers and threads.
Interrupt ==
  /\ Up /\ stopping /\ pc[Main] = "idle"
  /\ Goto(Main, "joining", NoLocal)
  /\ UNCHANGED <<idx, diskVars, chainVars, cache, pcoins, snapActive, bg, proofVars, stopping,
                 node>>

\* Shutdown, once the workers have joined: FlushStateToDisk, then
\* ShutdownChainstates.  The parked IBD cache is deleted without a flush.
Shutdown ==
  /\ Up /\ pc[Main] = "joining" /\ \A t \in Rpc \cup {Net} : pc[t] = "idle"
  /\ idxDisk' = idx /\ disk' = Flushed(pcoins)
  /\ IF snapActive
     THEN /\ Persist(Main, "down", NoLocal)
          /\ UNCHANGED <<idx, chainVars, cache, pcoins, snapActive, bg, proofVars, stopping,
                         node>>
     ELSE node' = "down" /\ ForgetMemory
  /\ UNCHANGED <<dir, dat>>

Crash ==
  /\ Up /\ node' = "down"
  /\ UNCHANGED diskVars
  /\ ForgetMemory

\* assert(pcoinsTip != nullptr): the slot was collapsed between check and lock.
ActivateAbort(t) ==
  /\ Up /\ CsMainFree /\ pc[t] = "act_lock"
  /\ Height[SnapTip] >= Height[activeTip] /\ bg.coins = "none"
  /\ idxDisk' = idx /\ disk' = Flushed(pcoins)
  /\ UNCHANGED <<dir, dat>>
  /\ node' = "down" /\ ForgetMemory

\* VerifyDB at level 3 on chainstate/: every block back from its tip must be
\* readable and undoable; with -prune the walk ends at the first missing body.
Walked(tip) == {a \in Path[tip] \ {Genesis} :
                  PruneMode => \A c \in Path[tip] : Height[c] >= Height[a] => HaveData(idxDisk, c)}
VerifyDB(v) == /\ \A a \in Walked(v.best) : HaveUndo(idxDisk, a)
               /\ Walked(v.best) # {} => v.at = v.best /\ v.kind = "true"

IbdIndexed == disk["ibd"].best # NoBlock /\ idxDisk[disk["ibd"].best] # "unknown"
LinkedCandidates(tip) == {c \in Block : /\ Linked(idxDisk, c) /\ ~OnFailedChain(idxDisk, c)
                                        /\ Competes(c, tip)}

\* MaybeRestoreAssumeUtxo: a session to resume, and the checks it must pass.
Resuming == dat # NoDat /\ dir # "none"
RestoreAccepts ==
  /\ dat.status # "failed"
  /\ idxDisk[dat.base] # "unknown"
  /\ disk[dir].best # NoBlock
  /\ idxDisk[disk[dir].best] # "unknown"
  /\ dat.base \in Path[disk[dir].best]

Startable == node \in {"down", "refused", "corrupt"}

\* AppInit ends with an error: chainstate/ cannot be loaded or verified, or the
\* assumed session cannot be restored.
StartFails ==
  /\ Startable
  /\ \/ /\ IF IbdIndexed THEN ~VerifyDB(disk["ibd"]) ELSE ~Resuming
        /\ node' = "corrupt"
     \/ /\ IbdIndexed => VerifyDB(disk["ibd"])
        /\ Resuming /\ ~RestoreAccepts
        /\ node' = "refused"
  /\ UNCHANGED <<idx, diskVars, chainVars, cache, pcoins, snapActive, bg, proofVars, stopping,
                 pc, loc>>

\* No session to resume; a state file without chainstate_snapshot/ is removed.
StartPlain ==
  /\ Startable
  /\ IbdIndexed /\ VerifyDB(disk["ibd"]) /\ ~Resuming
  /\ node' = "up"
  /\ activeTip' = disk["ibd"].best /\ cand' = LinkedCandidates(activeTip')
  /\ dat' = NoDat
  /\ Goto(Net, "abc", [NoLocal EXCEPT !.boot = TRUE])
  /\ UNCHANGED <<idx, idxDisk, disk, dir, cache, pcoins, snapActive, bg, proofVars, stopping>>

\* The snapshot becomes the active chainstate again, the IBD chainstate is parked
\* at its own best block, and the digest is compared if that is the base already.
StartRestored ==
  /\ Startable
  /\ IbdIndexed => VerifyDB(disk["ibd"])
  /\ Resuming /\ RestoreAccepts
  /\ node' = "up"
  /\ disk' = [disk EXCEPT !["snap"] = disk[dir]] /\ cache' = disk' /\ dir' = "snap"
  /\ activeTip' = disk[dir].best /\ pcoins' = "snap" /\ snapActive' = TRUE
  /\ base' = dat.base /\ expected' = dat.hash /\ bgTarget' = Height[dat.base]
  /\ LET ibdTip == IF IbdIndexed THEN disk["ibd"].best ELSE NoBlock
         settled == /\ dat.status # "completed" /\ ibdTip = dat.base
                    /\ Digest(disk["ibd"]) = dat.hash
     IN /\ cand' = LinkedCandidates(IF IbdIndexed THEN ibdTip ELSE Genesis)
        /\ bgHeight' = IF IbdIndexed THEN Height[ibdTip] ELSE -1
        /\ bgStatus' = IF settled THEN "completed"
                       ELSE IF dat.status = "none" THEN "running" ELSE dat.status
        /\ bg' = IF settled THEN IdleSlot ELSE ParkedIbd(ibdTip)
        /\ pc' = [pc EXCEPT ![Net] = "abc", ![Main] = IF settled THEN "remove" ELSE "idle"]
        /\ loc' = [loc EXCEPT ![Net] = [NoLocal EXCEPT !.boot = TRUE]]
  /\ UNCHANGED <<idx, idxDisk, dat, stopping>>

\* The recovery the node's messages ask for: delete assumeutxo.dat and
\* chainstate_snapshot/.
OperatorReset ==
  /\ node = "refused"
  /\ node' = "down" /\ dat' = NoDat /\ dir' = "none"
  /\ UNCHANGED <<idx, idxDisk, disk, chainVars, cache, pcoins, snapActive, bg, proofVars,
                 stopping, pc, loc>>

-----------------------------------------------------------------------------
RpcNext(t) ==
  \/ \E f \in Snapshot : LoadStart(t, f)
  \/ LoadFinish(t) \/ LoadFail(t)
  \/ ActivateCheck(t) \/ ActivateRefuse(t) \/ ActivateLocked(t) \/ ActivateAbort(t)
  \/ \E n \in RpcBatch : StepCheck(t, n)

StepNext(t) ==
  \/ StepLock(t) \/ StepIter(t) \/ StepEnd(t)
  \/ PersistRemove(t) \/ PersistRename(t)

NetNext ==
  \/ \E b \in Block : ReceiveHeader(b) \/ ReceiveBlock(b)
  \/ AbcRound \/ AbcDisconnect \/ AbcConnect \/ AutoStepCheck

MainNext == Interrupt \/ Shutdown \/ StartFails \/ StartPlain \/ StartRestored

EnvNext ==
  \/ FlushIndex \/ FlushStateToDisk \/ (\E b \in Block : Prune(b))
  \/ RequestShutdown \/ Crash \/ OperatorReset

Next ==
  \/ \E t \in Rpc : RpcNext(t)
  \/ \E t \in Thread : StepNext(t)
  \/ NetNext \/ MainNext \/ EnvNext

Spec == Init /\ [][Next]_vars

\* Fairness.  A thread that holds cs_main runs on; one that waits for it gets it
\* if it is released again and again; Main notices a shutdown request; peers
\* deliver requested blocks.  Nothing is assumed of crashes, operators or flushes.
ThreadFairness ==
  /\ \A t \in Thread :
       /\ WF_vars(StepIter(t)) /\ WF_vars(StepEnd(t))
       /\ WF_vars(PersistRemove(t)) /\ WF_vars(PersistRename(t))
       /\ SF_vars(StepLock(t))
  /\ \A t \in Rpc :
       /\ SF_vars(LoadFinish(t) \/ LoadFail(t))
       /\ SF_vars(ActivateRefuse(t) \/ ActivateLocked(t) \/ ActivateAbort(t))
  /\ SF_vars(AbcRound) /\ WF_vars(AbcDisconnect) /\ WF_vars(AbcConnect)
  /\ WF_vars(AutoStepCheck) /\ WF_vars(Interrupt) /\ WF_vars(Shutdown)
PeerFairness == \A b \in Block : SF_vars(ReceiveBlock(b))
\* The operator, or a script, keeps calling stepbackgroundvalidation.
OperatorFairness == \A t \in Rpc : \A n \in RpcBatch : SF_vars(StepCheck(t, n))

FairSpec == Spec /\ ThreadFairness /\ PeerFairness

-----------------------------------------------------------------------------
(* Properties *)

\* Every variable keeps the range the code gives it.
TypeOK ==
  /\ idx \in [Block -> Stored] /\ idxDisk \in [Block -> Stored]
  /\ cand \in SUBSET Block
  /\ cache \in [Store -> View] /\ disk \in [Store -> View]
  /\ dir \in {"none", "snap", "reload"} /\ dat \in Dat
  /\ activeTip \in Block /\ pcoins \in Store /\ snapActive \in BOOLEAN
  /\ bg \in Slot /\ bgStatus \in Status /\ bgHeight \in Int /\ bgTarget \in Int
  /\ base \in Block \cup {NoBlock} /\ expected \in Hash
  /\ stopping \in BOOLEAN /\ node \in {"up", "down", "refused", "corrupt"}
  /\ pc \in [Thread -> Pc] /\ loc \in [Thread -> Local]

\* A claim is what a session asks to be believed: a base and a coins digest.
Honest(b, h) == h = Digest(TrueView(b)) /\ Path[b] \cap Invalid = {}

\* `completed', in memory or in assumeutxo.dat, is only ever said of a claim that
\* full validation confirms, and the coins then served, or reopened after a
\* restart, hash like the chain's own (StepBackgroundValidation,
\* ActivateLoadedSnapshot, MaybeRestoreAssumeUtxo, LoadUTXOSnapshot).
SoundKind == {"true", "meta"}
ValidatedIsProven ==
  /\ Up /\ bgStatus = "completed" => Honest(base, expected) /\ cache[pcoins].kind \in SoundKind
  /\ dat.status = "completed" /\ dir # "none" /\ disk[dir].best # NoBlock =>
        Honest(dat.base, dat.hash) /\ disk[dir].kind \in SoundKind

\* The node only declares background validation failed when the snapshot does not
\* match the fully validated chain (the text of FailBackgroundValidation).
FailureIsReal ==
  /\ bgStatus = "failed" => base # NoBlock /\ ~Honest(base, expected)
  /\ dat.status = "failed" => dat.base # NoBlock /\ ~Honest(dat.base, dat.hash)

\* The fully validated database chainstate/ always holds the UTXO set of the block
\* it names, whatever is activated, proved, aborted or crashed around it.
IbdStoreHonest == disk["ibd"].kind = "true" /\ disk["ibd"].at = disk["ibd"].best

\* pcoinsTip is labelled with the active tip: what ConnectBlock and DisconnectBlock
\* assert of the view they are given.
CoinsMatchTip == Up => cache[pcoins].best = activeTip

\* The parked IBD chainstate never shares its coins with the active one.
StoresSeparate == snapActive => bg.coins # pcoins

\* What a crash or a stop leaves on disk can be verified at the next start: coins
\* never run ahead of the block index (FlushStateToDisk's write order).
IndexCoversCoins == node # "corrupt"

\* After a crash or a stop at any point, a session saved in assumeutxo.dat has all
\* that MaybeRestoreAssumeUtxo looks up: the directory, a labelled snapshot store,
\* and both the base and the label in the block index.
SavedSessionWhole ==
  node = "down" /\ dat # NoDat =>
    /\ Resuming /\ disk[dir].best # NoBlock
    /\ idxDisk[dat.base] # "unknown" /\ idxDisk[disk[dir].best] # "unknown"

\* A requested shutdown ends the process, whatever its threads are doing.
StopCompletes == stopping ~> ~Up

\* A failed proof ends the process.
FailureStops == bgStatus = "failed" ~> ~Up

\* Once all history up to the base is stored, an operator who keeps stepping gets
\* the proof settled, unless the process ends first.
HistoryStored == ProofRunning /\ \A a \in Path[base] : HaveData(idx, a)
StoredHistorySettles == OperatorFairness => (HistoryStored ~> ~ProofRunning)

\* ActivateBestChain comes to an end: the best chain is active, or it failed.
Activating == pc[Net] \in {"abc", "abc_step"}
ActivateBestChainReturns == Activating ~> ~Activating

-----------------------------------------------------------------------------
(* The promise to the user: TrustState, read off the live session while the
   process runs one, else off the session the disk would restore. *)

Live == Up /\ snapActive
NoSession == [base |-> NoBlock, hash |-> NoHash]
Session == IF Live THEN [base |-> base, hash |-> expected]
           ELSE IF Resuming THEN [base |-> dat.base, hash |-> dat.hash]
           ELSE NoSession
Outcome(status) == CASE status = "completed" -> "validated"
                     [] status = "failed" -> "failed"
                     [] OTHER -> "assumed"
Trusted == IF Live THEN Outcome(bgStatus)
           ELSE IF Resuming THEN Outcome(dat.status)
           ELSE "none"
Claims == [base : Block, hash : Hash]

Promise == INSTANCE TrustState WITH
  Claim <- Claims,
  Confirmed <- {c \in Claims : Honest(c.base, c.hash)},
  NoClaim <- NoSession, trust <- Trusted, claim <- Session

\* Load, activation, stepping, saving, crash and restore together implement
\* TrustState: no verdict is invented, swapped or contradicted.
KeepsPromise == Promise!Spec

=============================================================================
