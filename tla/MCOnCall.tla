------------------------------ MODULE MCOnCall ------------------------------
(***************************************************************************)
(* Instances of OnCall for TLC: two sessions, two tickers; a tree of three *)
(* paths; three events, the demo among them; two trees; a script of two    *)
(* answers.                                                                *)
(***************************************************************************)
EXTENDS OnCall

(* The raw zone. A list whose entries repeat lets an empty frame through;  *)
(* a frame of the day before is something no ingest may land.              *)
MCTickers == {"A", "B"}
ListAB == <<"A", "B">>
ListRepeated == <<"A", "A", "A">>
MCLists == {ListAB, ListRepeated}

Frame(date) == {[ticker |-> t, date |-> date, close |-> "price", copy |-> 1] : t \in MCTickers}
MCDeliveries == [s \in {1, 2} |->
  {[bars |-> Frame(s), asked |-> ListAB], [bars |-> Frame(s - 1), asked |-> ListAB],
   [bars |-> {}, asked |-> ListRepeated]}]

(* The tree. Path 2 is excluded; path 3 is matched first by the first glob *)
(* and again by the last; text "front" has front matter before "body".     *)
MCSources == << [matches |-> {3}, type |-> "runbook"],
                [matches |-> {1, 2, 3}, type |-> "doc"] >>
MCStripped == [front |-> "body", body |-> "body"]
MCTrees == {[p \in 1 .. 3 |-> Absent], <<"front", "front", "body">>}
MCHeading == [front |-> "none", body |-> "title"]
MCStem == <<"one", "two", "three">>

(* Signals. The keys of the first two events differ only in where one part *)
(* ends and the next begins.                                               *)
First == [parts |-> << <<"k">>, <<"d", "1">>, <<"1">> >>, kind |-> "deadline_missed",
          dag_id |-> 2, message |-> 4000, given |-> {"run_id", "session_date"}]
Second == [parts |-> << <<"k">>, <<"d">>, <<"1", "1">> >>, kind |-> "partition_missing",
           dag_id |-> 250, message |-> 0, given |-> {"run_id"}]
MCEvents == {First, Second, demo_signal}

(* The longest dag_id that can be quoted, and one character more.          *)
Nameless(length) == [signal_id |-> 1, kind |-> "partition_missing", dag_id |-> length,
                     message |-> 0, given |-> {}]
MCSignalsByHand == {Nameless(378), Nameless(379), RunSignalOf(First)}

(* Keys as they are, and as they would be without a separator.             *)
MCDigest ==
  [key \in {KeyOf(e.parts) : e \in MCEvents} \cup {KeyOfUnseparated(e.parts) : e \in MCEvents} |->
     CASE key = KeyOf(Second.parts) -> 2
       [] key[1] = "task_failed" -> 3
       [] OTHER -> 1]

(* Command lines.                                                          *)
Plainly ==
  [command |-> "triage", settings |-> TRUE, signal |-> "none", scripted |-> "good",
   runs |-> "none", provider |-> "openai", model |-> FALSE, installed |-> {},
   retriever |-> "hybrid", dataset |-> <<>>]
Eval(file) == [Plainly EXCEPT !.command = "retrieval", !.dataset = file]
Live == [Plainly EXCEPT !.scripted = "none", !.model = TRUE, !.installed = {"openai"}]

MCJobs ==
  { Plainly,
    [Plainly EXCEPT !.settings = FALSE],
    [Plainly EXCEPT !.signal = "good", !.retriever = "bm25", !.runs = "good"],
    [Plainly EXCEPT !.signal = "bad"],
    [Plainly EXCEPT !.scripted = "bad"],
    [Plainly EXCEPT !.runs = "bad"],
    [Plainly EXCEPT !.retriever = "dense"],
    Live, [Live EXCEPT !.model = FALSE], [Live EXCEPT !.installed = {}],
    [Live EXCEPT !.provider = "bedrock"],
    [Plainly EXCEPT !.command = "demo-signal"],
    [Plainly EXCEPT !.command = "demo-signal", !.settings = FALSE],
    [Plainly EXCEPT !.command = "briefs"],
    Eval(<<"c1", "comment", "c2">>),
    [Eval(<<"c2">>) EXCEPT !.retriever = "dense"],
    Eval(<<"blank", "c1", "c2", "c1", "invalid">>),
    Eval(<<"comment", "invalid">>) }

MCScript == <<"s1", "s2">>

(* Words "a" and "b" cancel.                                               *)
MCHash == [a |-> [entry |-> 1, sign |-> 1], b |-> [entry |-> 1, sign |-> -1],
           c |-> [entry |-> 2, sign |-> 1]]
MCTexts == UNION {[1 .. n -> {"a", "b", "c"}] : n \in 0 .. 2}
MCChunkLists == {<<>>, <<<<"a", "c", "a">>>>} \cup (MCTexts \X MCTexts)
=============================================================================
