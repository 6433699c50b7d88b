--------------------------- MODULE ClientStartup ---------------------------
(***************************************************************************)
(* Start-up of the synchronizer's L1 side: NewClient of                    *)
(* src/etherman/etherman.go, then CheckAndUpdateStorage of                 *)
(* src/synchronizer/storage_compatibility_checker_impl.go, which binds the *)
(* persistent storage to the L1 chain id and rollup id the client reports. *)
(*                                                                         *)
(* The process may stop at any point and be started again, each time with  *)
(* any configuration (L1ChainID, OverrideStorageCheck, Validium.Enabled)   *)
(* and an L1URL serving any network; only the storage survives.  A network *)
(* is its chain id and the id RollupAddressToID gives the configured       *)
(* zkEVM address there (0 for an address that is not a registered rollup). *)
(***************************************************************************)
EXTENDS Integers, FiniteSets

CONSTANTS
  Width,        \* bit width of the uint64 / int64 chain-id arithmetic
  ChainIds,     \* chain ids an L1 node may report (eth_chainId)
  RollupIds,    \* ids RollupAddressToID may return
  MaxStarts     \* bound on the process starts

ASSUME Width \in Nat \ {0} /\ MaxStarts \in Nat \ {0}
ASSUME ChainIds \subseteq 1..2^Width - 1 /\ RollupIds \subseteq Nat

Networks == [chain : ChainIds, rollup : RollupIds]

\* cfg.L1ChainID: 0 (accept what the node reports) or an expected id.
CfgChainIds == {0} \cup ChainIds

\* Go's int64(x) of a uint64 x, at the model's width.
Int64(x) == IF x >= 2^(Width - 1) THEN x - 2^Width ELSE x

VARIABLES
  stored,      \* the StorageContentsBoundData in storage: {} or {data}
  starts,      \* process starts so far
  node,        \* the network behind cfg.L1URL in this start
  cfgChainID,  \* cfg.L1ChainID as configured for this start
  override,    \* cfg.OverrideStorageCheck for this start
  validium,    \* cfg.Validium.Enabled for this start
  pc,          \* where this start is
  l1ChainID,   \* the client's cfg.L1ChainID once NewClient has set it
  rollupID     \* the client's RollupID

vars == <<stored, starts, node, cfgChainID, override, validium, pc, l1ChainID, rollupID>>

Init ==
  /\ stored = {}
  /\ starts = 0
  /\ node \in Networks
  /\ cfgChainID = 0 /\ override = FALSE /\ validium = FALSE
  /\ pc = "Down"
  /\ l1ChainID = 0 /\ rollupID = 0

Goto(p) == pc' = p

\* The process is (re)started, possibly after a stop at any point, with a
\* new configuration and endpoint.  Only the storage is kept.
Start ==
  /\ starts < MaxStarts
  /\ starts' = starts + 1
  /\ \E n \in Networks, c \in CfgChainIds, o, v \in BOOLEAN :
       /\ node' = n /\ cfgChainID' = c /\ override' = o /\ validium' = v
  /\ Goto("Dial")
  /\ l1ChainID' = 0 /\ rollupID' = 0
  /\ UNCHANGED stored

\* A NewClient step that returns its error.
Fails == Goto("Failed")

\* ethclient.Dial(cfg.L1URL).
Dial ==
  /\ pc = "Dial"
  /\ Goto("ChainID") \/ Fails
  /\ UNCHANGED <<stored, starts, node, cfgChainID, override, validium, l1ChainID, rollupID>>

\* Mutant: a configured chain id is not compared with the reported one.
ChainIDNoCompare ==
  /\ pc = "ChainID"
  /\ \/ Fails /\ UNCHANGED l1ChainID
     \/ /\ l1ChainID' = IF cfgChainID /= 0 THEN cfgChainID ELSE node.chain
        /\ Goto("Bind")
  /\ UNCHANGED <<stored, starts, node, cfgChainID, override, validium, rollupID>>

\* Mutant: with cfg.L1ChainID = 0 the reported id is not written back.
ChainIDNoAssign ==
  /\ pc = "ChainID"
  /\ \/ Fails /\ UNCHANGED l1ChainID
     \/ /\ cfgChainID /= 0 => node.chain = Int64(cfgChainID)
        /\ l1ChainID' = cfgChainID
        /\ Goto("Bind")
  /\ UNCHANGED <<stored, starts, node, cfgChainID, override, validium, rollupID>>

\* ethClient.ChainID, which may fail; a configured id must equal the
\* reported one, compared as big.NewInt(int64(cfg.L1ChainID)); with 0
\* configured the reported id is written into the client's cfg.
ChainID ==
  /\ pc = "ChainID"
  /\ \/ Fails /\ UNCHANGED l1ChainID
     \/ /\ cfgChainID /= 0
        /\ node.chain /= Int64(cfgChainID)
        /\ Fails /\ UNCHANGED l1ChainID
     \/ /\ cfgChainID /= 0 => node.chain = Int64(cfgChainID)
        /\ l1ChainID' = IF cfgChainID /= 0 THEN cfgChainID ELSE node.chain
        /\ Goto("Bind")
  /\ UNCHANGED <<stored, starts, node, cfgChainID, override, validium, rollupID>>

\* The six contract bindings (zkEVM, Etrog, old zkEVM, rollup manager,
\* global exit root managers), each of which may return an error.
Bind ==
  /\ pc = "Bind"
  /\ Goto("RollupID") \/ Fails
  /\ UNCHANGED <<stored, starts, node, cfgChainID, override, validium, l1ChainID, rollupID>>

\* rollupManager.RollupAddressToID(cfg.Contracts.ZkEVMAddr): an RPC error,
\* or the id (not checked against 0).
RollupAddressToID ==
  /\ pc = "RollupID"
  /\ \/ Fails /\ UNCHANGED rollupID
     \/ rollupID' = node.rollup /\ Goto("Decoders")
  /\ UNCHANGED <<stored, starts, node, cfgChainID, override, validium, l1ChainID>>

\* The Etrog and Elderberry decoders; with Validium.Enabled also the
\* validium extension and its two decoders.  Any constructor may fail.
Decoders ==
  /\ pc = "Decoders"
  /\ Goto("Client") \/ Fails
  /\ UNCHANGED <<stored, starts, node, cfgChainID, override, validium, l1ChainID, rollupID>>

\* The Client is built; with Validium.Enabled NewEthermanValidium is called
\* a second time, and its error is returned.
Client ==
  /\ pc = "Client"
  /\ Goto("Check") \/ (validium /\ Fails)
  /\ UNCHANGED <<stored, starts, node, cfgChainID, override, validium, l1ChainID, rollupID>>

\* StorageContentsBoundData from GetRollupID and GetL1ChainID.
LocalRun == [chain |-> l1ChainID, rollup |-> rollupID]

\* The state's CheckAndUpdateStorage (not under src/), as the
\* OverrideStorageCheck comment of the config describes it: empty storage
\* is bound to the run's data; other data is a mismatch unless overridden.
StateCheckAndUpdateStorage(data) ==
  \/ stored = {} /\ stored' = {data} /\ Goto("Synced")
  \/ stored = {data} /\ UNCHANGED stored /\ Goto("Synced")
  \/ /\ stored \notin {{}, {data}}
     /\ UNCHANGED stored
     /\ Goto(IF override THEN "Synced" ELSE "Failed")

\* CheckAndUpdateStorage: getDataFromEtherman, then the state's check.
CheckAndUpdateStorage ==
  /\ pc = "Check"
  /\ StateCheckAndUpdateStorage(LocalRun)
  /\ UNCHANGED <<starts, node, cfgChainID, override, validium, l1ChainID, rollupID>>

\* The last start has ended.
Stopped ==
  /\ starts = MaxStarts /\ pc \in {"Failed", "Synced"}
  /\ UNCHANGED vars

Next ==
  \/ Start \/ Dial \/ ChainID \/ Bind \/ RollupAddressToID
  \/ Decoders \/ Client \/ CheckAndUpdateStorage \/ Stopped

Spec == Init /\ [][Next]_vars

-----------------------------------------------------------------------------
TypeOK ==
  /\ stored \subseteq [chain : ChainIds, rollup : RollupIds] /\ Cardinality(stored) <= 1
  /\ starts \in 0..MaxStarts
  /\ node \in Networks /\ cfgChainID \in CfgChainIds
  /\ pc \in {"Down", "Dial", "ChainID", "Bind", "RollupID", "Decoders",
             "Client", "Check", "Synced", "Failed"}
  /\ l1ChainID \in {0} \cup ChainIds /\ rollupID \in {0} \cup RollupIds

\* Whatever configuration and endpoint each start is given, a start that
\* passes the storage check without OverrideStorageCheck is connected to
\* the L1 chain and rollup the storage is bound to: NewClient's chain-id
\* check, its write-back of the reported id when 0 is configured, and the
\* comparison of the storage check together keep a database from being
\* filled from two networks.
StorageBoundToConnectedChain ==
  pc = "Synced" /\ ~override => stored = {[chain |-> node.chain, rollup |-> node.rollup]}
====
