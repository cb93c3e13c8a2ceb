------------------------------- MODULE OnCall -------------------------------
(***************************************************************************)
(* Everything in the repository that somebody on call starts by hand: runs *)
(* of the DAG, builds of the ticker dimension, the partition audit, the    *)
(* agent and eval commands, with the scripted model the agent is exercised *)
(* with, the index it searches and the log of what it did. A behaviour is  *)
(* about one of them, its subject, and of what the others read and write   *)
(* nothing changes: they share no state, but for the tree. It is edited    *)
(* beside evals, and beside triage it is one of Trees: both load it by the *)
(* same build_retriever.                                                   *)
(***************************************************************************)
EXTENDS PartitionAudit, AgentCommand, ScriptedLLM, HashingEmbedder, AuditLog,
  Scheduling, Universe

CONSTANT Trees  \* the trees triage finds

VARIABLE subject  \* what this behaviour is about

Subjects == {"audit", "triage", "eval", "llm", "index", "log", "schedule", "universe"}

agentVars == <<llmVars, indexVars, logVars>>
plannedVars == <<scheduleVars, universeVars>>
onCallVars == <<subject, auditVars, commandVars, agentVars, plannedVars>>

OnCallTypeOK ==
  /\ subject \in Subjects
  /\ AuditTypeOK /\ CommandTypeOK /\ LLMTypeOK /\ IndexTypeOK /\ LogTypeOK
  /\ ScheduleTypeOK /\ UniverseTypeOK

OnCallInit ==
  /\ subject \in Subjects
  /\ AuditInit /\ CommandInit /\ LLMInit /\ IndexInit /\ LogInit
  /\ ScheduleInit /\ UniverseInit
  /\ subject # "eval" => tree \in Trees
  /\ subject # "universe" => csv = [m \in Members |-> "true"]

(* demo-signal and triage, and alerts; nothing is read of the signals once *)
(* a command loads the corpus.                                             *)
TriageNext ==
  \/ CommandStep
  \/ \E j \in Jobs : j.command \in {"demo-signal", "triage"} /\ Type(j)
  \/ /\ commandAt # "load"
     /\ \E e \in Events, time \in 1 .. MaxClock : Alert(e, time)

(* retrieval and briefs, and edits; nothing is read of the tree before a   *)
(* command loads the corpus, from whatever tree there is.                  *)
EvalNext ==
  \/ CommandStep
  \/ \E j \in Jobs : j.command \in {"retrieval", "briefs"} /\ Type(j)
  \/ /\ commandAt = "load"
     /\ TreeStep
     /\ UNCHANGED <<signalStore, command>>

AuditOnly ==
  subject = "audit" /\ UNCHANGED <<subject, commandVars, agentVars, plannedVars>>
CommandOnly ==
  subject \in {"triage", "eval"} /\ UNCHANGED <<subject, auditVars, agentVars, plannedVars>>
LLMOnly ==
  subject = "llm" /\ UNCHANGED <<subject, auditVars, commandVars, indexVars, logVars, plannedVars>>
IndexOnly ==
  subject = "index" /\ UNCHANGED <<subject, auditVars, commandVars, llmVars, logVars, plannedVars>>
LogOnly ==
  subject = "log" /\ UNCHANGED <<subject, auditVars, commandVars, llmVars, indexVars, plannedVars>>
ScheduleOnly ==
  subject = "schedule" /\ UNCHANGED <<subject, auditVars, commandVars, agentVars, universeVars>>
UniverseOnly ==
  subject = "universe" /\ UNCHANGED <<subject, auditVars, commandVars, agentVars, scheduleVars>>

OnCallNext ==
  \/ AuditNext /\ AuditOnly
  \/ subject = "triage" /\ TriageNext /\ CommandOnly
  \/ subject = "eval" /\ EvalNext /\ CommandOnly
  \/ LLMNext /\ LLMOnly
  \/ IndexNext /\ IndexOnly
  \/ LogNext /\ LogOnly
  \/ ScheduleNext /\ ScheduleOnly
  \/ UniverseNext /\ UniverseOnly

(* A process that is not killed goes on to its next line.                  *)
OnCallSpec ==
  /\ OnCallInit /\ [][OnCallNext]_onCallVars
  /\ WF_onCallVars(CommandStep /\ CommandOnly)
  /\ WF_onCallVars(AuditStep /\ AuditOnly)

-----------------------------------------------------------------------------
(* A command that runs returns, whatever is edited and re-derived beside   *)
(* it: it reads what it listed, once, and waits for nobody.                *)
EveryCommandReturns ==
  /\ commandAt # "idle" ~> commandAt = "idle"
  /\ auditAt = "exists" ~> auditAt = "end"
=============================================================================
