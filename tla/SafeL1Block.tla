---------------------------- MODULE SafeL1Block ----------------------------
(***************************************************************************)
(* src/synchronizer/l1_check_block/safe_l1_block.go: the block-point       *)
(* syntax ("safe/-10") the synchronizer config uses, and                   *)
(* GetSafeBlockNumber, which reads the header at that point and applies    *)
(* the offset in uint64 arithmetic.                                        *)
(*                                                                         *)
(* A string is abstracted to the list of its "/"-separated tokens; an      *)
(* offset token is the integer it denotes or Junk.                        *)
(***************************************************************************)
EXTENDS Integers, Sequences

CONSTANTS
  Width,       \* bit width of the uint64 arithmetic
  ConfigTokens,  \* the block-point words a config string may start with
  Offsets,     \* the offsets a config may give
  HeadNumbers, \* the header numbers the node may return
  Junk         \* a token that is not an integer (a model value)

ASSUME Width \in Nat \ {0} /\ Offsets \subseteq Int /\ HeadNumbers \subseteq Nat
ASSUME Junk \notin ConfigTokens

Word == 2^Width
ToU64(x) == x % Word            \* uint64(x) at the model's width

\* The L1BlockPoint constants.
FinalizedBlockNumber == 3
SafeBlockNumber == 2
PendingBlockNumber == 1
LastBlockNumber == 0

\* Mutant: ToString's PendingBlockNumber case returning "latest".
ToStringPendingAsLatest(v) ==
  CASE v = FinalizedBlockNumber -> "finalized"
    [] v = SafeBlockNumber      -> "safe"
    [] v = PendingBlockNumber   -> "latest"
    [] v = LastBlockNumber      -> "latest"
    [] OTHER                    -> "Unknown"

\* L1BlockPoint.ToString: its switch, and "Unknown" after it.
ToString(v) ==
  CASE v = FinalizedBlockNumber -> "finalized"
    [] v = SafeBlockNumber      -> "safe"
    [] v = PendingBlockNumber   -> "pending"
    [] v = LastBlockNumber      -> "latest"
    [] OTHER                    -> "Unknown"

\* StringToL1BlockPoint: its switch; the default returns
\* FinalizedBlockNumber with an error.
StringToL1BlockPoint(s) ==
  CASE s = "finalized" -> [ok |-> TRUE, v |-> FinalizedBlockNumber]
    [] s = "safe"      -> [ok |-> TRUE, v |-> SafeBlockNumber]
    [] s = "pending"   -> [ok |-> TRUE, v |-> PendingBlockNumber]
    [] s = "latest"    -> [ok |-> TRUE, v |-> LastBlockNumber]
    [] OTHER           -> [ok |-> FALSE, v |-> FinalizedBlockNumber]

\* L1BlockPointWithOffset.String: "<point>/<offset>".
String(v) == <<ToString(v.BlockPoint), v.Offset>>

\* StringToL1BlockPointWithOffset on the split token list.
StringToL1BlockPointWithOffset(toks) ==
  LET pt == StringToL1BlockPoint(toks[1])
  IN  IF Len(toks) > 2 \/ ~pt.ok THEN [ok |-> FALSE]
      ELSE IF Len(toks) = 2
        THEN IF toks[2] /= Junk    \* Sscanf "%d" read one integer
               THEN [ok |-> TRUE, v |-> [BlockPoint |-> pt.v, Offset |-> toks[2]]]
               ELSE [ok |-> FALSE]
        ELSE [ok |-> TRUE, v |-> [BlockPoint |-> pt.v, Offset |-> 0]]

\* Mutant: the min(blockNumber, head) clamp for "latest" left out.
OffsetBlockNumberNoLatestClamp(p, n) ==
  IF p.Offset < 0
    THEN IF n < ToU64(-p.Offset) THEN 0 ELSE ToU64(n + ToU64(p.Offset))
    ELSE ToU64(n + ToU64(p.Offset))

\* GetSafeBlockNumber once HeaderByNumber returned header number n.
OffsetBlockNumber(p, n) ==
  LET bn == IF p.Offset < 0
              THEN IF n < ToU64(-p.Offset) THEN 0 ELSE ToU64(n + ToU64(p.Offset))
              ELSE ToU64(n + ToU64(p.Offset))
  IN  IF p.BlockPoint = LastBlockNumber THEN IF bn < n THEN bn ELSE n ELSE bn

VARIABLES
  config,    \* the SyncBlockProtection / SyncBlockFinalized string, as tokens
  point,     \* the parsed SafeL1BlockNumberFetch
  header,    \* HeaderByNumber's answer: its error and the header's number
  outcome,   \* "config", "pending", then "ok", "invalid", "error" or "panic"
  result     \* the block number GetSafeBlockNumber returned

vars == <<config, point, header, outcome, result>>

NoPoint == [BlockPoint |-> FinalizedBlockNumber, Offset |-> 0]

Init ==
  /\ config \in {<<s>> : s \in ConfigTokens}
                \cup {<<s, o>> : s \in ConfigTokens, o \in Offsets \cup {Junk}}
                \cup {<<s, o, Junk>> : s \in ConfigTokens, o \in Offsets}
  /\ point = NoPoint
  /\ header \in [err : {"nil", "block not found", "other"}, number : HeadNumbers]
  /\ outcome = "config"
  /\ result = 0

\* The config string is parsed with StringToL1BlockPointWithOffset before
\* NewSafeL1BlockNumberFetch; a parse error stops the synchronizer.
ParseConfig ==
  /\ outcome = "config"
  /\ LET r == StringToL1BlockPointWithOffset(config)
     IN  IF r.ok THEN point' = r.v /\ outcome' = "pending"
                 ELSE outcome' = "invalid" /\ UNCHANGED point
  /\ UNCHANGED <<config, header, result>>

\* GetSafeBlockNumber: an error other than "block not found" is returned;
\* "block not found" is logged as "assuming 0" and execution goes on to
\* l1SafePointBlock.Number, which is a nil dereference.
GetSafeBlockNumber ==
  /\ outcome = "pending"
  /\ CASE header.err = "other"           -> outcome' = "error" /\ result' = 0
       [] header.err = "block not found" -> outcome' = "panic" /\ UNCHANGED result
       [] OTHER -> outcome' = "ok" /\ result' = OffsetBlockNumber(point, header.number)
  /\ UNCHANGED <<config, point, header>>

Done ==
  /\ outcome \notin {"config", "pending"}
  /\ UNCHANGED vars

Next == ParseConfig \/ GetSafeBlockNumber \/ Done

Spec == Init /\ [][Next]_vars

-----------------------------------------------------------------------------
TypeOK ==
  /\ point.BlockPoint \in 0..3 /\ point.Offset \in Offsets \cup {0}
  /\ outcome \in {"config", "pending", "ok", "invalid", "error", "panic"}
  /\ result \in 0..Word - 1

\* The offset semantics stated in config.go ("safe/-10: ten blocks before
\* the safe block"), clamped at block 0, and never past the chain head for
\* "latest": n + offset in unbounded integers.
ExpectedNumber(p, n) ==
  LET raw == IF n + p.Offset < 0 THEN 0 ELSE n + p.Offset
  IN  IF p.BlockPoint = LastBlockNumber /\ raw > n THEN n ELSE raw

\* GetSafeBlockNumber computes, through its uint64 wrap-around additions,
\* exactly that number for every header the node returns.
OffsetArithmeticCorrect ==
  outcome = "ok" => result = ExpectedNumber(point, header.number)

\* When the node has no block at that point, the call returns 0 as its log
\* line says ("block ... not found, assuming 0") instead of crashing.
NotFoundAssumesZero == outcome /= "panic"

\* Once a config value is parsed, printing it with String (as Description
\* and the log lines do) and parsing the text again gives the same point.
StringRoundTrip ==
  outcome \notin {"config", "invalid"} =>
    StringToL1BlockPointWithOffset(String(point)) = [ok |-> TRUE, v |-> point]
====
