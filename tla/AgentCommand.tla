---------------------------- MODULE AgentCommand ----------------------------
(***************************************************************************)
(* The commands somebody on call types: `python -m market_ops.agent`       *)
(* demo-signal and triage, `python -m market_ops.evals` retrieval and      *)
(* briefs. They share a directory of signals, which alerts fill meanwhile, *)
(* and a working tree, which is edited meanwhile.                          *)
(*                                                                         *)
(* The commands are implemented, most of what they call is not: todo()     *)
(* raises NotBuiltYet, which main turns into exit code 2. What a command   *)
(* does before that is modelled line by line; what would follow is not     *)
(* reached by any input. The signals are SignalStore, which SignalFiles is *)
(* shown to implement: write_signal and read_signals are single steps.     *)
(***************************************************************************)
EXTENDS Corpus, TriageSchemas, GoldenSet

CONSTANTS
  Events,    \* what a signal may be about
  SignalsByHand, \* what the file of --signal may hold
  DemoAt,    \* the fixed detected_at of demo_signal
  MaxClock,  \* bound on the time
  Jobs,      \* the commands that are typed
  NoSignal

VARIABLES
  signals,   \* the signals directory: see SignalStore
  about,     \* the event each file in it is about
  job,       \* the command at hand
  commandAt, \* the line it has reached
  signal,    \* the signal at hand, or NoSignal
  golden,    \* what load_jsonl has made of the dataset
  exit,      \* how the command ended
  reported   \* history: events that have been reported

signalStore == <<signals, about, reported>>
command == <<job, commandAt, signal, golden, exit>>
commandVars == <<signalStore, command, corpusVars>>

Store == INSTANCE SignalStore

(* A command line and what it finds: a file is "none" when the option is   *)
(* not given and "bad" when it cannot be read or has the wrong shape.      *)
Given == {"none", "good", "bad"}
Retrievers == {"bm25", "dense", "hybrid"}
Job ==
  [command : {"demo-signal", "triage", "retrieval", "briefs"},
   settings : BOOLEAN,                \* LLM_MAX_TOKENS, LLM_TEMPERATURE are numbers
   signal : Given,                    \* --signal; "none" is --latest
   scripted : Given, runs : Given,
   provider : STRING, model : BOOLEAN, \* LLM_PROVIDER, is LLM_MODEL set
   installed : SUBSET STRING,         \* SDKs
   retriever : Retrievers, dataset : Seq(JsonLine)]

ASSUME CommandConstants ==
  /\ Events \subseteq Event
  /\ demo_signal \in Events /\ DemoAt \in 1 .. MaxClock
  /\ MaxClock \in Nat
  /\ \A e \in Events : stable_id(e.parts) \in Ids
  /\ SignalsByHand \subseteq RunSignal /\ SignalsByHand # {}
  /\ NoSignal \notin Events /\ NoSignal \notin RunSignal
  /\ Jobs \subseteq Job /\ Jobs # {}

(* What names an event (kind, dag, run, task, try or session) has no bar   *)
(* in it: Airflow allows none in a dag_id, a task_id or a run_id. And the  *)
(* digests of the keys there are do not collide.                           *)
ASSUME EventsAreToldApart ==
  /\ \A e \in Events :
       /\ e.parts # <<>>
       /\ \A n \in DOMAIN e.parts : \A i \in DOMAIN e.parts[n] : e.parts[n][i] # "|"
  /\ \A e, f \in Events :
       Digest[KeyOf(e.parts)] = Digest[KeyOf(f.parts)] => KeyOf(e.parts) = KeyOf(f.parts)

IdOf(e) == stable_id(e.parts)

(* The signals triage may be handed.                                       *)
Loadable == {RunSignalOf(e) : e \in Events} \cup SignalsByHand

Exits == {"none", "ok", "error", "no signals", "not built"}

CommandTypeOK ==
  /\ signals \in [Ids -> {{}} \cup {{s} : s \in Store!Signal}]
  /\ about \in [Ids -> Events \cup {NoSignal}]
  /\ job \in Jobs
  /\ commandAt \in {"idle", "settings", "write", "signal", "client", "runs",
                    "dataset", "load", "run", "briefs"}
  /\ signal \in Loadable \cup {NoSignal}
  /\ golden.lineno \in Nat /\ golden.error \in Nat /\ golden.items \in Seq(CaseIds)
  /\ exit \in Exits
  /\ reported \subseteq Events
  /\ CorpusTypeOK

CommandInit ==
  /\ signals = [i \in Ids |-> {}]
  /\ about = [i \in Ids |-> NoSignal]
  /\ job = CHOOSE j \in Jobs : TRUE
  /\ commandAt = "idle"
  /\ signal = NoSignal
  /\ golden = NothingLoaded
  /\ exit = "none"
  /\ reported = {}
  /\ CorpusInit

-----------------------------------------------------------------------------
(* write_signal(signal, signals_dir), by whoever reports event e.          *)
WriteSignal(e, time) ==
  /\ Store!Publish([id |-> IdOf(e), at |-> time])
  /\ about' = [about EXCEPT ![IdOf(e)] = e]
  /\ reported' = reported \cup {e}

(* An alert, while a command runs or between two. No run of the DAG has    *)
(* the run id of the demo.                                                 *)
Alert(e, time) ==
  /\ e # demo_signal
  /\ WriteSignal(e, time)
  /\ UNCHANGED <<command, corpusVars>>

-----------------------------------------------------------------------------
(* main                                                                    *)

FirstLine ==
  [c \in {"demo-signal", "triage", "retrieval", "briefs"} |->
     CASE c = "retrieval" -> "dataset"
       [] c = "briefs" -> "briefs"
       [] OTHER -> "settings"]

Type(j) ==
  /\ commandAt = "idle"
  /\ job' = j
  /\ commandAt' = FirstLine[j.command]
  /\ signal' = NoSignal /\ golden' = NothingLoaded /\ exit' = "none"
  /\ ForgetLoad
  /\ UNCHANGED signalStore

(* The command returns: 0, or 2 for NotBuiltYet; anything else that is     *)
(* raised ends it with 1.                                                  *)
Exit(how) ==
  /\ commandAt' = "idle"
  /\ exit' = how
  /\ UNCHANGED <<job, signal, golden, corpusVars>>

(* todo(): NotBuiltYet, which main turns into 2.                           *)
todo == Exit("not built")

Go(line) ==
  /\ commandAt' = line
  /\ UNCHANGED <<job, exit>>

(* Settings.from_env: every setting is parsed, needed or not.              *)
SettingsParse == job.settings

ReadSettings ==
  /\ commandAt = "settings"
  /\ \/ /\ ~ SettingsParse
        /\ Exit("error")
     \/ /\ SettingsParse
        /\ Go(IF job.command = "triage" THEN "signal" ELSE "write")
        /\ UNCHANGED <<signal, golden, corpusVars>>
  /\ UNCHANGED signalStore

(* _demo_signal                                                            *)
WriteDemo ==
  /\ commandAt = "write"
  /\ WriteSignal(demo_signal, DemoAt)
  /\ Exit("ok")

Written == {i \in Ids : signals[i] # {}}

(* sorted by detected_at, then signal_id; the last one.                    *)
Newest(i) ==
  \A j \in Written : \A s \in signals[i], t \in signals[j] :
    t.at < s.at \/ (t.at = s.at /\ j <= i)

(* _load_signal: a file of --signal is any signal the schema takes.        *)
LoadSignal ==
  /\ commandAt = "signal"
  /\ \/ /\ job.signal = "good"
        /\ signal' \in SignalsByHand
     \/ /\ job.signal = "none"
        /\ \E i \in Written : Newest(i) /\ signal' = RunSignalOf(about[i])
  /\ Go("client")
  /\ UNCHANGED <<golden, signalStore, corpusVars>>

NoSignalToLoad ==
  /\ commandAt = "signal"
  /\ \/ /\ job.signal = "bad"
        /\ Exit("error")
     \/ /\ job.signal = "none" /\ Written = {}
        /\ Exit("no signals")
  /\ UNCHANGED signalStore

(* The adapters import their SDK when they are made.                       *)
AnthropicClient == "anthropic" \in job.installed
OpenAIClient == "openai" \in job.installed

(* make_client: no model id is assumed, and no provider.                   *)
ClientMade ==
  /\ job.model
  /\ \/ job.provider = "anthropic" /\ AnthropicClient
     \/ job.provider = "openai" /\ OpenAIClient

(* Every response of the script is one that a model could have given.      *)
ScriptLoads == job.scripted = "good"

(* Mutant of GetClient: the client is made when it is first needed.        *)
GetClientLate ==
  /\ commandAt = "client"
  /\ IF job.scripted = "bad"
     THEN Exit("error")
     ELSE Go("runs") /\ UNCHANGED <<signal, golden, corpusVars>>
  /\ UNCHANGED signalStore

GetClient ==
  /\ commandAt = "client"
  /\ IF ScriptLoads \/ (job.scripted = "none" /\ ClientMade)
     THEN Go("runs") /\ UNCHANGED <<signal, golden, corpusVars>>
     ELSE Exit("error")
  /\ UNCHANGED signalStore

(* FixtureRunSource.from_json                                              *)
RunsLoad == job.runs # "bad"

(* args.runs, then build_retriever begins.                                 *)
ReadRuns ==
  /\ commandAt = "runs"
  /\ IF RunsLoad
     THEN Go("load") /\ LoadStart /\ UNCHANGED <<signal, golden>>
     ELSE Exit("error")
  /\ UNCHANGED signalStore

(* _retrieval: the dataset comes before the retriever.                     *)
ReadDataset ==
  /\ commandAt = "dataset"
  /\ golden' = load_jsonl(job.dataset)
  /\ IF golden'.error # 0
     THEN commandAt' = "idle" /\ exit' = "error" /\ UNCHANGED corpusVars
     ELSE commandAt' = "load" /\ LoadStart /\ UNCHANGED exit
  /\ UNCHANGED <<job, signal, signalStore>>

-----------------------------------------------------------------------------
(* build_retriever                                                         *)

LoadCorpus ==
  /\ commandAt = "load"
  /\ LoadStep
  /\ UNCHANGED <<signalStore, command>>

LoadRaised ==
  /\ commandAt = "load"
  /\ loadAt = "raised"
  /\ Exit("error")
  /\ UNCHANGED signalStore

(* chunk_document raises for the first document there is.                  *)
ChunkCorpusRaises == corpus # <<>>

(* BM25Index raises for any list of chunks; a DenseIndex of none does not. *)
BM25IndexRaises == job.retriever \in {"bm25", "hybrid"}

Index ==
  /\ commandAt = "load"
  /\ loadAt = "loaded"
  /\ IF ChunkCorpusRaises \/ BM25IndexRaises
     THEN todo
     ELSE Go("run") /\ UNCHANGED <<signal, golden, corpusVars>>
  /\ UNCHANGED signalStore

run_triage ==
  /\ commandAt = "run" /\ job.command = "triage"
  /\ todo
  /\ UNCHANGED signalStore

run_retrieval_eval ==
  /\ commandAt = "run" /\ job.command = "retrieval"
  /\ todo
  /\ UNCHANGED signalStore

(* _briefs prints that it is not built.                                    *)
Briefs ==
  /\ commandAt = "briefs"
  /\ todo
  /\ UNCHANGED signalStore

CommandStep ==
  \/ ReadSettings \/ WriteDemo \/ LoadSignal \/ NoSignalToLoad \/ GetClient
  \/ ReadRuns \/ ReadDataset \/ LoadCorpus \/ LoadRaised \/ Index
  \/ run_triage \/ run_retrieval_eval \/ Briefs

-----------------------------------------------------------------------------
(* Two events never share a file, whichever alert reported them and how    *)
(* often: the file of an event that was reported is about that event       *)
(* (schemas.py:69-78: "Same event -> same id").                            *)
SignalsKeepTheirEvents ==
  \A e \in reported : about[IdOf(e)] \in {f \in Events : f.parts = e.parts}

(* Whatever signal triage is handed, the brief it falls back on needs a    *)
(* human, cites nothing but the signal, has nobody approve a change and    *)
(* tells which signal it is about and of which kind; and the schema takes  *)
(* it, with one exception. A signal without a message whose dag_id is so   *)
(* long that the quote passes 400 characters has no brief: the constructor *)
(* raises, although the agent is "never allowed to drop a signal on the    *)
(* floor" (triage.py:71-75 and 77; schemas.py:58 sets dag_id no limit).    *)
FallbackFits ==
  signal # NoSignal =>
    \A reason \in FallbackReasons :
      LET b == fallback_brief(signal, reason) IN
      /\ IncidentBrief(b) <=> Quotable(signal)
      /\ b.requires_human
      /\ \A e \in b.evidence : e.ref = signal.signal_id
      /\ \A line \in brief_to_markdown(b) : ~ line.approval
      /\ {"signal_id", "kind"} \subseteq Told(b)

(* "The backlog is expected; explain it": exit code 2 is about the backlog *)
(* and never hides an input that is wrong. Every input of a triage or an   *)
(* eval has been read and is good by then (__main__.py:76-87, 130-133).    *)
InputsBeforeBacklog ==
  exit = "not built" =>
    /\ job.command = "triage" =>
         /\ job.settings
         /\ signal # NoSignal
         /\ "bad" \notin {job.signal, job.scripted, job.runs}
         /\ job.scripted = "good" \/ ClientMade
    /\ job.command = "retrieval" => Faulty(job.dataset) = {}

(* A golden set is loaded whole and in order, or refused with the number,  *)
(* in the file as an editor shows it, of its first faulty line             *)
(* (dataset.py:60-65).                                                     *)
GoldenAgrees ==
  golden # NothingLoaded =>
    IF Faulty(job.dataset) = {}
    THEN /\ golden.error = 0
         /\ Len(golden.items) = Cardinality(Cases(job.dataset))
         /\ \A n \in Cases(job.dataset) :
              golden.items[Place(n, job.dataset)] = job.dataset[n]
    ELSE /\ golden.error \in Faulty(job.dataset)
         /\ \A n \in Faulty(job.dataset) : golden.error <= n
=============================================================================
