---------------------------- MODULE TriageSchemas ----------------------------
(***************************************************************************)
(* The shapes the triage agent takes and gives (market_ops/agent/schemas.py)*)
(* and the brief it falls back on (market_ops/agent/triage.py).            *)
(*                                                                         *)
(* A text is its length and the fields of the signal it spells out. The    *)
(* length is what the schemas limit; what it spells out is what a person   *)
(* who is paged with it knows.                                             *)
(***************************************************************************)
EXTENDS Naturals, Sequences, SequencesExt

CONSTANTS
  Ids,          \* signal ids
  Digest        \* the first 16 hex digits of the SHA-256 of a key

SignalKind == {"task_failed", "deadline_missed", "partition_missing", "check_warning"}
KindLength == [task_failed |-> 11, deadline_missed |-> 15,
               partition_missing |-> 17, check_warning |-> 13]

Severity == {"critical", "high", "medium", "low"}
CauseConfidence == {"confirmed", "likely", "unknown"}
EvidenceSource == {"doc", "task_log", "run_metadata", "partition"}
ActionKind == {"investigate", "rerun", "backfill", "config_change", "escalate"}
MUTATING_ACTIONS == {"rerun", "backfill", "config_change"}

(* Fields a signal may leave out.                                          *)
OptionalFields == {"run_id", "task_id", "try_number", "session_date", "attributes"}
SignalFields == OptionalFields \cup {"signal_id", "kind", "dag_id", "message"}

(* Field(max_length=4000)                                                  *)
LongestMessage == 4000

(* dag_id and message are lengths, the first without a limit; given are    *)
(* the optional fields it has.                                             *)
RunSignal ==
  [signal_id : Ids, kind : SignalKind, dag_id : Nat,
   message : 0 .. LongestMessage, given : SUBSET OptionalFields]

Text == [length : Nat, tells : SUBSET SignalFields]

Evidence == [source : EvidenceSource, ref : Ids, quote : Text]
RecommendedAction == [kind : ActionKind, step : Text]

(* Text with at least one character and at most as many as the schema has. *)
Fits(text, limit) == text.length \in 1 .. limit

(* What pydantic accepts as an IncidentBrief.                              *)
IncidentBrief(b) ==
  /\ b.signal_id \in Ids
  /\ b.severity \in Severity /\ b.cause_confidence \in CauseConfidence
  /\ Fits(b.title, 120) /\ Fits(b.summary, 800) /\ Fits(b.probable_cause, 800)
  /\ b.evidence # {} /\ b.evidence \subseteq Evidence
  /\ \A e \in b.evidence : Fits(e.quote, 400)
  /\ b.recommended_actions # {} /\ b.recommended_actions \subseteq RecommendedAction
  /\ \A a \in b.recommended_actions : Fits(a.step, 300)
  /\ b.requires_human \in BOOLEAN

-----------------------------------------------------------------------------
(* RunSignal.stable_id: the parts, None as an empty one, joined and hashed.*)

(* Mutant of KeyOf: nothing between the parts.                             *)
KeyOfUnseparated(parts) == FoldLeft(LAMBDA key, part : key \o part, <<>>, parts)

(* "|".join(...); each part is a sequence of characters.                   *)
Join(key, part) == key \o <<"|">> \o part
KeyOf(parts) == FoldLeft(Join, Head(parts), Tail(parts))

stable_id(parts) == Digest[KeyOf(parts)]

(* An event: the parts of its id, and what is known of it.                 *)
Event == [parts : Seq(Seq(STRING)), kind : SignalKind, dag_id : Nat,
          message : 0 .. LongestMessage, given : SUBSET OptionalFields]

RunSignalOf(e) ==
  [signal_id |-> stable_id(e.parts), kind |-> e.kind, dag_id |-> e.dag_id,
   message |-> e.message, given |-> e.given]

(* The event of demo_signal (market_ops/agent/__main__.py); words stand    *)
(* for their characters.                                                   *)
demo_signal ==
  [parts |-> << <<"task_failed">>, <<"ingest_ohlcv_daily">>, <<"manual__demo">>,
                <<"fetch_ohlcv">>, <<"1">> >>,
   kind |-> "task_failed", dag_id |-> 18, message |-> 50, given |-> OptionalFields]

-----------------------------------------------------------------------------
(* fallback_brief                                                          *)

(* How long the stop reasons are that end in a fallback: error, max_tokens,*)
(* invalid_brief, model_refused, no_submission, budget_exhausted.          *)
FallbackReasons == {5, 10, 13, 16}

Plain(n) == [length |-> n, tells |-> {}]

(* text[:limit]; a field that is cut short is no longer spelled out.       *)
Cut(text, limit, stillTold) ==
  IF text.length <= limit THEN text ELSE [length |-> limit, tells |-> stillTold]

FALLBACK_SEVERITY(kind) == IF kind = "check_warning" THEN "medium" ELSE "high"

(* Mutant of FallbackQuote: the whole message.                             *)
FallbackQuoteWhole(s) ==
  IF s.message > 0
  THEN [length |-> s.message, tells |-> {"message"}]
  ELSE [length |-> KindLength[s.kind] + 5 + s.dag_id, tells |-> {"kind", "dag_id"}]

(* message[:400], or "<kind> for <dag_id>" when there is no message.       *)
FallbackQuote(s) ==
  IF s.message > 0
  THEN Cut([length |-> s.message, tells |-> {"message"}], 400, {})
  ELSE [length |-> KindLength[s.kind] + 5 + s.dag_id, tells |-> {"kind", "dag_id"}]

(* The constant texts are taken at their lengths in the code.              *)
fallback_brief(s, reason) ==
  [signal_id |-> s.signal_id,
   title |-> Cut([length |-> 25 + KindLength[s.kind] + s.dag_id,
                  tells |-> {"kind", "dag_id"}], 120, {"kind"}),
   severity |-> FALLBACK_SEVERITY(s.kind),
   summary |-> Cut(Plain(94 + reason), 800, {}),
   probable_cause |-> Plain(65),
   cause_confidence |-> "unknown",
   evidence |-> {[source |-> "run_metadata", ref |-> s.signal_id, quote |-> FallbackQuote(s)]},
   recommended_actions |-> {[kind |-> "escalate", step |-> Plain(102)]},
   requires_human |-> TRUE]

(* brief_to_markdown (market_ops/agent/render.py): the page a person reads,*)
(* as a set of lines; "human" is the line that asks for one.               *)
brief_to_markdown(b) ==
  LET Line(what, tells) == [what |-> what, tells |-> tells, approval |-> FALSE] IN
  {Line("title", b.title.tells), Line("severity", {}), Line("signal", {"signal_id"}),
   Line("summary", b.summary.tells), Line("cause", b.probable_cause.tells)}
    \cup {Line("evidence", {"signal_id"} \cup e.quote.tells) : e \in b.evidence}
    \cup {[what |-> "action", tells |-> a.step.tells, approval |-> a.kind \in MUTATING_ACTIONS] :
             a \in b.recommended_actions}
    \cup IF b.requires_human THEN {Line("human", {})} ELSE {}

(* A signal without a message is quoted by its kind and its dag_id, and    *)
(* nothing cuts that quote to what the schema takes.                       *)
Quotable(s) == s.message = 0 => s.dag_id <= 395 - KindLength[s.kind]

(* What somebody who is paged with the brief is told of the signal.        *)
Told(b) == UNION {line.tells : line \in brief_to_markdown(b)}
=============================================================================
