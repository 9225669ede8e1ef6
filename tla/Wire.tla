-------------------------------- MODULE Wire --------------------------------
(***************************************************************************)
(* The formats a trade goes through on its way from a feed to the model    *)
(* and the agents, and what each conversion does to it:                    *)
(*   - the tick messages of realfeed, mock-ticker and exploit-ws, and      *)
(*     TickParser::parse (src/src/tick_parser.cpp), which takes them apart *)
(*   - the 80 bytes of a feature frame, written by the engine with memcpy  *)
(*     and by inject-features.py, and read by services/classifier;         *)
(*   - the row of feature_log, the columns the trainer selects, the vector *)
(*     the model scores and the one the agents search with.                *)
(*                                                                         *)
(* The layout, the column lists and the orders are written down in many    *)
(* places of two languages.  A field's value is the name of the quantity   *)
(* the engine computed for it, so that two fields mixed up anywhere show.  *)
(* A symbol is a sequence of characters.                                   *)
(*                                                                         *)
(* An operator placed directly above a definition, with the same           *)
(* parameters and no comment, is a way to get that definition wrong.       *)
(***************************************************************************)
EXTENDS Integers, SequencesExt

CONSTANTS
  Symbols,      \* base currencies and tickers that occur
  SymbolMax,    \* kSymbolMax, 8
  Amounts,      \* sizes of trades, in thousandths of a coin
  SizeRange,    \* 2^32, the range of TickData::size
  Nul,          \* the character that pads a symbol
  Nothing,      \* no value yet
  Malformed,    \* no trade: a message that is not a tick
  Truncated,    \* a message cut short
  WrongType,    \* a value of the wrong JSON type
  Rejected      \* std::nullopt

\* What is assumed of the constants.
WireAssumption ==
  /\ SymbolMax \in Nat \ {0}
  /\ Amounts \subseteq Nat
  /\ SizeRange \in Nat \ {0, 1}
  /\ Symbols \subseteq Seq(UNION {Range(s) : s \in Symbols})
  /\ \A s \in Symbols : s # << >> /\ Nul \notin Range(s)

VARIABLES
  stage,    \* how far the data has come
  trade,    \* history: the trade a feed reports, or Malformed
  message,  \* the text of the WebSocket frame
  tick,     \* what TickParser makes of it, or Rejected
  bytes,    \* the feature frame on the topic
  record    \* FeatureFrame.from_bytes of it

vars == <<stage, trade, message, tick, bytes, record>>

Sides == {"buy", "sell"}
Trades == [symbol : Symbols, amount : Amounts, side : Sides]

\* The characters of a symbol that fit the frame.
Cut(s) == SubSeq(s, 1, IF Len(s) < SymbolMax THEN Len(s) ELSE SymbolMax)

Init ==
  /\ stage = "feed"
  /\ trade = Nothing /\ message = Nothing /\ tick = Nothing
  /\ bytes = << >> /\ record = Nothing

-----------------------------------------------------------------------------
(* Feeds *)

MayBeZero(n) == n
\* max(1, ...): no trade is too small to count.
AtLeastOne(n) == IF n < 1 THEN 1 ELSE n

\* int(size * 100) of a double: where the product is a whole number, rounding
\* may leave it just below.
Hundredths(amount) ==
  {amount \div 10} \cup (IF amount % 10 = 0 /\ amount > 0 THEN {amount \div 10 - 1} ELSE {})

\* A well-formed tick message.
Quote(symbol, size, side) ==
  [sym |-> symbol, t |-> "ts_ns", p |-> "price", s |-> size, side |-> side]

\* realfeed's _adapt of a Coinbase match: the messages it may send for it.
Adapted(t) ==
  {Quote(Cut(t.symbol), AtLeastOne(n), IF t.side = "buy" THEN "B" ELSE "S") :
     n \in Hundredths(t.amount)}

\* mock-ticker's _malformed_payload: cut short, a string for t, no t at all.
MalformedMessages ==
  LET m == Quote(<<"A">>, 100, "B")
  IN  {Truncated, [m EXCEPT !.t = WrongType], [sym |-> m.sym, p |-> m.p, s |-> m.s]}

\* Nothing is on its way.
Idle == stage \in {"feed", "classifier"} \/ (stage = "engine" /\ tick = Rejected)

SendTrade(t) ==
  /\ Idle
  /\ trade' = t
  /\ message' \in Adapted(t)
  /\ stage' = "socket"
  /\ tick' = Nothing /\ bytes' = << >> /\ record' = Nothing

SendMalformed ==
  /\ Idle
  /\ trade' = Malformed
  /\ message' \in MalformedMessages
  /\ stage' = "socket"
  /\ tick' = Nothing /\ bytes' = << >> /\ record' = Nothing

-----------------------------------------------------------------------------
(* TickParser *)

\* The keys whose absence, or whose wrong type, rejects a message.
RequiredKeys == {"sym", "t", "p", "s"}

Accepted(m) ==
  /\ m # Truncated
  /\ RequiredKeys \subseteq DOMAIN m
  /\ \A k \in RequiredKeys : m[k] # WrongType

\* An absent side, or one that is not a known letter, is Unknown.
ParsedSide(m) ==
  IF "side" \notin DOMAIN m THEN "Unknown"
  ELSE IF m.side \in {"B", "b"} THEN "Buy"
  ELSE IF m.side \in {"S", "s"} THEN "Sell" ELSE "Unknown"

\* copy_symbol: cut to SymbolMax characters, padded with NULs.
Padded(s) == [i \in 1 .. SymbolMax |-> IF i <= Len(s) THEN s[i] ELSE Nul]

\* static_cast<std::uint32_t>
Narrowed(n) == n % SizeRange

Parse ==
  /\ stage = "socket"
  /\ tick' = IF Accepted(message)
             THEN [symbol |-> Padded(message.sym), size |-> Narrowed(message.s),
                   side |-> ParsedSide(message)]
             ELSE Rejected
  /\ stage' = "engine"
  /\ UNCHANGED <<trade, message, bytes, record>>

-----------------------------------------------------------------------------
(* The feature frame *)

\* struct FeatureFrame under #pragma pack(1): its members and their widths.
EngineLayout ==
  << <<"version", 2>>, <<"_pad0", 2>>, <<"window_count", 4>>, <<"ts_ns", 8>>,
     <<"symbol", 8>>, <<"ofi", 8>>, <<"realized_vol", 8>>, <<"mid_price", 8>>,
     <<"total_volume", 8>>, <<"case_id", 8>>, <<"wire_ts_ns", 8>>, <<"compute_ts_ns", 8>> >>

EngineFields == [k \in DOMAIN EngineLayout |-> EngineLayout[k][1]]
EngineWidths == [k \in DOMAIN EngineLayout |-> EngineLayout[k][2]]

\* The format string "<HHIq8sddddQqq" of feature_frame.py and inject-features.py.
StructWidths == <<2, 2, 4, 8, 8, 8, 8, 8, 8, 8, 8, 8>>

SwappedFields ==
  <<"version", "_pad0", "window_count", "ts_ns", "symbol", "ofi", "realized_vol", "mid_price",
    "total_volume", "case_id", "compute_ts_ns", "wire_ts_ns">>
\* The order in which from_bytes takes the unpacked values.
UnpackedFields ==
  <<"version", "_pad0", "window_count", "ts_ns", "symbol", "ofi", "realized_vol", "mid_price",
    "total_volume", "case_id", "wire_ts_ns", "compute_ts_ns">>

\* The order in which inject-features packs its values; it stamps a frame once
\* for three fields.
InjectedFields ==
  <<"version", "_pad0", "window_count", "ts_ns", "symbol", "ofi", "realized_vol", "mid_price",
    "total_volume", "case_id", "ts_ns", "ts_ns">>

\* The bytes of a value: of a symbol its characters, else its numbered parts.
BytesOf(value, width, symbol) ==
  IF value = "symbol" THEN symbol ELSE [i \in 1 .. width |-> <<value, i>>]

\* How many bytes there are before the k-th value.
Starts(widths) == [k \in 1 .. Len(widths) + 1 |-> SumFunctionOnSet(widths, 1 .. k - 1)]

\* The values one after the other.
Packed(values, widths, symbol) ==
  LET start == Starts(widths)
  IN  [b \in 1 .. start[Len(widths) + 1] |->
         LET k == CHOOSE k \in DOMAIN widths : b \in start[k] + 1 .. start[k + 1]
         IN  BytesOf(values[k], widths[k], symbol)[b - start[k]]]

\* build_frame and serialize_feature_frame.
Build ==
  /\ stage = "engine" /\ tick # Rejected
  /\ bytes' = Packed(EngineFields, EngineWidths, tick.symbol)
  /\ stage' = "topic"
  /\ UNCHANGED <<trade, message, tick, record>>

\* inject-features.py goes round the engine: its _encode cuts and pads the symbol.
Inject(symbol) ==
  /\ Idle
  /\ bytes' = Packed(InjectedFields, StructWidths, Padded(Cut(symbol)))
  /\ trade' = Nothing /\ message' = Nothing /\ tick' = Nothing /\ record' = Nothing
  /\ stage' = "topic"

\* The bytes struct.unpack takes for its k-th value.
Slice(k) == [i \in 1 .. StructWidths[k] |-> bytes[Starts(StructWidths)[k] + i]]

\* A symbol without the padding at its end: bytes.rstrip.
Stripped(s) ==
  LET kept == {i \in DOMAIN s : s[i] # Nul}
  IN  SubSeq(s, 1, IF kept = {} THEN 0 ELSE Max(kept))

\* The value they stand for, if they are the bytes of one value in order.
ValueAt(k) ==
  IF UnpackedFields[k] = "symbol" THEN Stripped(Slice(k))
  ELSE LET v == Slice(k)[1][1]
       IN  IF Slice(k) = BytesOf(v, StructWidths[k], << >>) THEN v ELSE "garbled"

\* FeatureFrame.from_bytes, of a payload of the right length.
FromBytes ==
  /\ stage = "topic"
  /\ Len(bytes) = 80
  /\ record' = [f \in Range(UnpackedFields) |->
                  ValueAt(CHOOSE k \in DOMAIN UnpackedFields : UnpackedFields[k] = f)]
  /\ stage' = "classifier"
  /\ UNCHANGED <<trade, message, tick, bytes>>

\* FeatureFrame.to_bytes of the record.
ToBytes ==
  Packed([k \in DOMAIN UnpackedFields |->
            IF UnpackedFields[k] = "symbol" THEN "symbol" ELSE record[UnpackedFields[k]]],
         StructWidths, Padded(Cut(record["symbol"])))

Next ==
  \/ \E t \in Trades : SendTrade(t)
  \/ SendMalformed \/ Parse \/ Build \/ FromBytes
  \/ \E s \in Symbols : Inject(s)

Spec == Init /\ [][Next]_vars

-----------------------------------------------------------------------------
(* What the classifier, the trainer and the agents make of a record *)

\* FeatureFrame.as_feature_vector, what the model scores.
ScoredVector ==
  <<record["ofi"], record["realized_vol"], record["mid_price"], record["total_volume"],
    record["window_count"]>>

\* FEATURE_NAMES, what the trainer tells LightGBM its columns are.
FeatureNames == <<"ofi", "realized_vol", "mid_price", "total_volume", "window_count">>

\* insert_feature_log: the columns, and the values in the order they are passed.
LoggedColumns ==
  <<"ts_ns", "symbol", "ofi", "realized_vol", "mid_price", "total_volume", "window_count",
    "label", "case_id", "wire_ts_ns", "compute_ts_ns">>
LoggedValues ==
  <<record["ts_ns"], record["symbol"], record["ofi"], record["realized_vol"],
    record["mid_price"], record["total_volume"], record["window_count"],
    "None", record["case_id"], record["wire_ts_ns"], record["compute_ts_ns"]>>

\* The column of a feature_log row.
Logged(column) ==
  LoggedValues[CHOOSE k \in DOMAIN LoggedColumns : LoggedColumns[k] = column]

\* The columns fetch_dataset selects.
SelectedColumns == <<"ofi", "realized_vol", "mid_price", "total_volume", "window_count", "label">>

\* The vector a record becomes when the trainer reads it back.
TrainedVector == [k \in DOMAIN FeatureNames |-> Logged(SelectedColumns[k])]

\* build_score_payload's features by name, in the order of the agents'
\* FEATURE_NAMES (CaseState.feature_vector).
SearchVector ==
  LET features == [n \in {"ofi", "realized_vol", "mid_price", "total_volume", "window_count"} |->
                     record[n]]
  IN  [k \in DOMAIN FeatureNames |-> features[FeatureNames[k]]]

-----------------------------------------------------------------------------
(* Properties *)

(***************************************************************************)
(* A tick in the engine is a trade some feed saw: malformed messages make  *)
(* none, and the symbol (its first characters), the side and the size, in  *)
(* hundredths but for one of rounding, are the trade's.  The size is never *)
(* 0, which OfiWindow would ignore, unless it does not fit 32 bits.        *)
(***************************************************************************)
TradeArrives ==
  stage = "engine" =>
    IF trade = Malformed THEN tick = Rejected
    ELSE /\ tick # Rejected
         /\ Stripped(tick.symbol) = Cut(trade.symbol)
         /\ tick.side = (IF trade.side = "buy" THEN "Buy" ELSE "Sell")
         /\ trade.amount \div 10 < SizeRange =>
              /\ tick.size > 0
              /\ tick.size - trade.amount \div 10 \in -1 .. 1

(***************************************************************************)
(* What the classifier reads in a frame is what the engine, or the         *)
(* injector, wrote: every field that the receipt shows, and every feature  *)
(* under its own name in the same place of the vector the model is trained *)
(* on, the one it scores and the one the agents search with.  Written      *)
(* again, the record is the same bytes.                                    *)
(***************************************************************************)
FrameIsUnderstood ==
  stage = "classifier" =>
    /\ \A f \in Range(FeatureNames) \cup {"version", "ts_ns", "case_id"} : record[f] = f
    /\ record["wire_ts_ns"] \in {"wire_ts_ns", "ts_ns"}
    /\ record["compute_ts_ns"] \in {"compute_ts_ns", "ts_ns"}
    /\ tick # Nothing => record["symbol"] = Stripped(tick.symbol)
    /\ ScoredVector = FeatureNames
    /\ TrainedVector = FeatureNames
    /\ SearchVector = FeatureNames
    /\ ToBytes = bytes
    /\ \A c \in {"case_id", "wire_ts_ns", "compute_ts_ns"} : Logged(c) = record[c]
=============================================================================
