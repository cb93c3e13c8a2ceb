----------------------------- MODULE ScriptedLLM -----------------------------
(***************************************************************************)
(* ScriptedLLM (market_ops/agent/llm.py): the model that every test and    *)
(* every --scripted triage talks to. It answers from a fixed list and      *)
(* records what it was asked, by deep copies: its caller keeps the list of *)
(* messages and goes on appending to it and changing it between the calls. *)
(*                                                                         *)
(* Messages are objects, numbered in the order they are made.              *)
(***************************************************************************)
EXTENDS Naturals, Sequences

CONSTANTS
  Script,      \* the responses, in order
  Contents,    \* what a message may say
  Exhausted,   \* AssertionError: the script has run out
  MaxMessages, \* bound on the caller's list
  MaxRequests  \* bound on the number of calls

ASSUME ScriptConstants ==
  /\ Script \in Seq(Contents) /\ Exhausted \notin Contents
  /\ MaxMessages \in Nat /\ MaxRequests \in Nat

VARIABLES
  heap,       \* heap[m]: what message object m says
  messages,   \* the caller's list of message objects
  responses,  \* self._responses
  requests,   \* self.requests: lists of message objects
  answers,    \* what the calls returned or raised
  asked       \* history: what the messages said when each call was made

llmVars == <<heap, messages, responses, requests, answers, asked>>

Objects == DOMAIN heap

LLMTypeOK ==
  /\ heap \in Seq(Contents)
  /\ messages \in Seq(Objects)
  /\ responses \in Seq(Contents)
  /\ requests \in Seq(Seq(Objects))
  /\ answers \in Seq(Contents \cup {Exhausted})
  /\ asked \in Seq(Seq(Contents))

LLMInit ==
  /\ heap = <<>>
  /\ messages = <<>>
  /\ responses = Script
  /\ requests = <<>>
  /\ answers = <<>>
  /\ asked = <<>>

(* The caller appends a message, or changes one it has.                    *)
AppendMessage(text) ==
  /\ Len(messages) < MaxMessages
  /\ heap' = Append(heap, text)
  /\ messages' = Append(messages, Len(heap) + 1)
  /\ UNCHANGED <<responses, requests, answers, asked>>

ChangeMessage(i, text) ==
  /\ heap' = [heap EXCEPT ![messages[i]] = text]
  /\ UNCHANGED <<messages, responses, requests, answers, asked>>

Said(objects) == [i \in DOMAIN objects |-> heap[objects[i]]]

(* Mutant of Record: the messages themselves, not copies of them.          *)
RecordAliases ==
  /\ requests' = Append(requests, messages)
  /\ UNCHANGED heap

(* [m.model_copy(deep=True) for m in messages]                             *)
Record ==
  /\ heap' = heap \o Said(messages)
  /\ requests' = Append(requests, [i \in DOMAIN messages |-> Len(heap) + i])

(* Mutant of Answer: the last response is kept and given again.            *)
AnswerAgain ==
  /\ answers' = Append(answers, IF responses = <<>> THEN Exhausted ELSE Head(responses))
  /\ responses' = IF Len(responses) < 2 THEN responses ELSE Tail(responses)

(* self._responses.pop(0), or AssertionError when there is none.           *)
Answer ==
  \/ /\ responses = <<>>
     /\ answers' = Append(answers, Exhausted)
     /\ UNCHANGED responses
  \/ /\ responses # <<>>
     /\ answers' = Append(answers, Head(responses))
     /\ responses' = Tail(responses)

Complete ==
  /\ Len(requests) < MaxRequests
  /\ Record
  /\ Answer
  /\ asked' = Append(asked, Said(messages))
  /\ UNCHANGED messages

LLMNext ==
  \/ Complete
  \/ \E text \in Contents :
       \/ AppendMessage(text)
       \/ \E i \in DOMAIN messages : ChangeMessage(i, text)

LLMSpec == LLMInit /\ [][LLMNext]_llmVars

-----------------------------------------------------------------------------
(* What a test reads back is what the model was asked at the time, however *)
(* the caller has appended to or changed its messages since (llm.py:111-   *)
(* 118); calls that raise are recorded as well.                            *)
RecordedAsAsked ==
  /\ Len(requests) = Len(asked)
  /\ \A n \in DOMAIN requests : Said(requests[n]) = asked[n]

(* "Running out of responses raises instead of returning something         *)
(* plausible" (llm.py:93-95): the n-th call has the n-th response, once,   *)
(* and every call past the script raises.                                  *)
ScriptReplayed ==
  \A n \in DOMAIN answers :
    answers[n] = IF n <= Len(Script) THEN Script[n] ELSE Exhausted
=============================================================================
