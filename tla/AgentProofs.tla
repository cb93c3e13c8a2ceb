----------------------------- MODULE AgentProofs -----------------------------
(***************************************************************************)
(* Proofs about what the triage agent is made of: ScriptedLLM, for every   *)
(* script, and every number of messages and of calls; AuditLog, for every  *)
(* set of traces and however the file grows; HashingEmbedder, for every    *)
(* hash and size of a row.                                                 *)
(***************************************************************************)
EXTENDS ScriptedLLM, AuditLog, HashingEmbedder, Induction

-----------------------------------------------------------------------------
(* ScriptedLLM                                                             *)

(* No recorded request shares a message object with the caller's list: why *)
(* what the caller changes afterwards is not in the record.                *)
Apart ==
  \A n \in DOMAIN requests : \A i \in DOMAIN requests[n] : \A j \in DOMAIN messages :
    requests[n][i] # messages[j]

(* What is left of the script is its end, as long as it has one.           *)
Remaining ==
  /\ Len(responses) = IF Len(answers) <= Len(Script) THEN Len(Script) - Len(answers) ELSE 0
  /\ \A i \in 1 .. Len(responses) : responses[i] = Script[Len(Script) - Len(responses) + i]

LLMInv == LLMTypeOK /\ Apart /\ RecordedAsAsked /\ Remaining /\ ScriptReplayed

LEMMA LLMInitially == LLMInit => LLMInv
<1>. SUFFICES ASSUME LLMInit PROVE LLMInv
  OBVIOUS
<1>1. LLMTypeOK
  BY ScriptConstants DEF LLMInit, LLMTypeOK, Objects
<1>2. Remaining
  BY ScriptConstants DEF LLMInit, Remaining
<1>3. Len(requests) = Len(asked) /\ DOMAIN requests = {} /\ DOMAIN answers = {}
  <2>1. requests = <<>> /\ asked = <<>> /\ answers = <<>>
    BY DEF LLMInit
  <2>2. DOMAIN <<>> = 1 .. 0
    BY EmptySeq, LenProperties, <<>> \in Seq({})
  <2>. QED
    BY <2>1, <2>2
<1>4. Apart /\ RecordedAsAsked /\ ScriptReplayed
  BY <1>3 DEF Apart, RecordedAsAsked, ScriptReplayed
<1>. QED
  BY <1>1, <1>2, <1>4 DEF LLMInv

(* The types, in the form the steps below need them.                       *)
LEMMA LLMFacts ==
  ASSUME LLMTypeOK
  PROVE  /\ heap \in Seq(Contents) /\ Len(heap) \in Nat /\ DOMAIN heap = 1 .. Len(heap)
         /\ messages \in Seq(1 .. Len(heap)) /\ Len(messages) \in Nat
         /\ DOMAIN messages = 1 .. Len(messages)
         /\ \A j \in 1 .. Len(messages) : messages[j] \in 1 .. Len(heap)
         /\ requests \in Seq(Seq(1 .. Len(heap))) /\ Len(requests) \in Nat
         /\ DOMAIN requests = 1 .. Len(requests)
         /\ \A n \in 1 .. Len(requests) : \A i \in DOMAIN requests[n] :
              requests[n][i] \in 1 .. Len(heap)
         /\ answers \in Seq(Contents \cup {Exhausted}) /\ Len(answers) \in Nat
         /\ DOMAIN answers = 1 .. Len(answers)
         /\ asked \in Seq(Seq(Contents)) /\ Len(asked) \in Nat
         /\ DOMAIN asked = 1 .. Len(asked)
         /\ responses \in Seq(Contents) /\ Len(responses) \in Nat
<1>1. heap \in Seq(Contents) /\ Len(heap) \in Nat /\ Objects = 1 .. Len(heap)
  BY DEF LLMTypeOK, Objects
<1>2. /\ messages \in Seq(1 .. Len(heap)) /\ requests \in Seq(Seq(1 .. Len(heap)))
  BY <1>1 DEF LLMTypeOK
<1>3. \A n \in 1 .. Len(requests) : requests[n] \in Seq(1 .. Len(heap))
  BY <1>2, ElementOfSeq
<1>4. \A n \in 1 .. Len(requests) : \A i \in DOMAIN requests[n] :
        requests[n][i] \in 1 .. Len(heap)
  BY <1>3
<1>5. \A j \in 1 .. Len(messages) : messages[j] \in 1 .. Len(heap)
  BY <1>2
<1>. QED
  BY <1>1, <1>2, <1>4, <1>5 DEF LLMTypeOK, Objects

(* A function on 1 .. n is a sequence of length n.                         *)
LEMMA FunctionIsSeq ==
  ASSUME NEW S, NEW n \in Nat, NEW f \in [1 .. n -> S]
  PROVE  f \in Seq(S) /\ Len(f) = n
OBVIOUS

(* A list of objects is one of more objects as well.                       *)
LEMMA MoreObjects ==
  ASSUME NEW m \in Nat, NEW n \in Nat, m <= n
  PROVE  /\ Seq(1 .. m) \subseteq Seq(1 .. n)
         /\ Seq(Seq(1 .. m)) \subseteq Seq(Seq(1 .. n))
<1>1. 1 .. m \subseteq 1 .. n
  OBVIOUS
<1>2. Seq(1 .. m) \subseteq Seq(1 .. n)
  BY <1>1, SeqMonotonic
<1>. QED
  BY <1>2, SeqMonotonic

(* Only what a list's own objects say matters to what it says.             *)
LEMMA SameSaid ==
  ASSUME NEW f, NEW g, NEW s, \A i \in DOMAIN s : f[s[i]] = g[s[i]]
  PROVE  [i \in DOMAIN s |-> f[s[i]]] = [i \in DOMAIN s |-> g[s[i]]]
OBVIOUS

(* What objects say: a sequence of contents, as long as theirs.            *)
LEMMA SaidType ==
  ASSUME LLMTypeOK, NEW objects \in Seq(Objects)
  PROVE  /\ Said(objects) \in Seq(Contents)
         /\ Len(Said(objects)) = Len(objects)
<1>1. \A i \in 1 .. Len(objects) : heap[objects[i]] \in Contents
  BY DEF LLMTypeOK, Objects
<1>. QED
  BY <1>1, IsASeq DEF Said

(* Requests say what they said as long as their objects do.                *)
LEMMA RecordKept ==
  ASSUME NEW n, requests'[n] = requests[n],
         \A i \in DOMAIN requests[n] : heap'[requests[n][i]] = heap[requests[n][i]]
  PROVE  Said(requests[n])' = Said(requests[n])
BY DEF Said

LEMMA AppendKeepsInv ==
  ASSUME LLMInv, NEW text \in Contents, AppendMessage(text)
  PROVE  LLMInv'
<1>. DEFINE new == Len(heap) + 1
<1>0. LLMTypeOK /\ Apart /\ RecordedAsAsked /\ Remaining /\ ScriptReplayed
  BY DEF LLMInv
<1>1. /\ heap' \in Seq(Contents) /\ Len(heap') = new
      /\ \A i \in 1 .. Len(heap) : heap'[i] = heap[i]
  BY <1>0, LLMFacts, AppendProperties DEF AppendMessage
<1>2. messages \in Seq(1 .. new) /\ requests \in Seq(Seq(1 .. new))
  BY <1>0, LLMFacts, MoreObjects, Len(heap) <= new
<1>3. /\ messages' \in Seq(1 .. new) /\ Len(messages') = Len(messages) + 1
      /\ \A j \in 1 .. Len(messages) : messages'[j] = messages[j]
      /\ messages'[Len(messages) + 1] = new
  BY <1>0, <1>2, LLMFacts, AppendProperties DEF AppendMessage
<1>4. DOMAIN messages' = 1 .. Len(messages) + 1
  BY <1>3, LenProperties
<1>5. UNCHANGED <<responses, requests, answers, asked>>
  BY DEF AppendMessage
<1>6. LLMTypeOK'
  <2>1. DOMAIN heap' = 1 .. new
    BY <1>1
  <2>. QED
    BY <1>0, <1>1, <1>2, <1>3, <1>5, <2>1 DEF LLMTypeOK, Objects
<1>7. Apart'
  <2>1. ASSUME NEW n \in DOMAIN requests, NEW i \in DOMAIN requests[n],
               NEW j \in 1 .. Len(messages) + 1
        PROVE  requests[n][i] # messages'[j]
    <3>1. requests[n][i] \in 1 .. Len(heap)
      BY <1>0, LLMFacts
    <3>2. CASE j \in 1 .. Len(messages)
      <4>1. j \in DOMAIN messages /\ messages'[j] = messages[j]
        BY <3>2, <1>0, <1>3, LLMFacts
      <4>. QED
        BY <4>1, <1>0 DEF Apart
    <3>3. CASE j = Len(messages) + 1
      BY <3>1, <3>3, <1>3
    <3>4. Len(messages) \in Nat
      BY <1>0, LLMFacts
    <3>. QED
      BY <3>2, <3>3, <3>4
  <2>. QED
    BY <2>1, <1>4, <1>5 DEF Apart
<1>8. RecordedAsAsked'
  <2>1. ASSUME NEW n \in DOMAIN requests
        PROVE  Said(requests[n])' = Said(requests[n])
    <3>1. \A i \in DOMAIN requests[n] : heap'[requests[n][i]] = heap[requests[n][i]]
      BY <1>0, <1>1, LLMFacts
    <3>. QED
      BY <3>1, <1>5, RecordKept
  <2>. QED
    BY <2>1, <1>0, <1>5 DEF RecordedAsAsked, Said
<1>9. Remaining' /\ ScriptReplayed'
  BY <1>0, <1>5 DEF Remaining, ScriptReplayed
<1>. QED
  BY <1>6, <1>7, <1>8, <1>9 DEF LLMInv

LEMMA ChangeKeepsInv ==
  ASSUME LLMInv, NEW i \in DOMAIN messages, NEW text \in Contents, ChangeMessage(i, text)
  PROVE  LLMInv'
<1>0. LLMTypeOK /\ Apart /\ RecordedAsAsked /\ Remaining /\ ScriptReplayed
  BY DEF LLMInv
<1>1. messages[i] \in 1 .. Len(heap)
  BY <1>0, LLMFacts
<1>2. heap' \in Seq(Contents) /\ DOMAIN heap' = DOMAIN heap
  <2>1. heap' = [heap EXCEPT ![messages[i]] = text] /\ heap \in Seq(Contents)
    BY <1>0, LLMFacts DEF ChangeMessage
  <2>. HIDE DEF LLMTypeOK
  <2>. QED
    BY <2>1, <1>1, ExceptSeq
<1>3. \A k \in 1 .. Len(heap) : k # messages[i] => heap'[k] = heap[k]
  BY <1>0, LLMFacts DEF ChangeMessage
<1>4. UNCHANGED <<messages, responses, requests, answers, asked>>
  BY DEF ChangeMessage
<1>5. LLMTypeOK'
  BY <1>0, <1>2, <1>4 DEF LLMTypeOK, Objects
<1>6. Apart'
  BY <1>0, <1>4 DEF Apart
<1>7. Remaining' /\ ScriptReplayed'
  BY <1>0, <1>4 DEF Remaining, ScriptReplayed
<1>8. RecordedAsAsked'
  <2>1. ASSUME NEW n \in DOMAIN requests
        PROVE  Said(requests[n])' = Said(requests[n])
    <3>1. \A k \in DOMAIN requests[n] :
            requests[n][k] \in 1 .. Len(heap) /\ requests[n][k] # messages[i]
      BY <1>0, LLMFacts DEF Apart
    <3>. QED
      BY <3>1, <1>3, <1>4, RecordKept
  <2>. QED
    BY <2>1, <1>0, <1>4 DEF RecordedAsAsked, Said
<1>. QED
  BY <1>5, <1>6, <1>7, <1>8 DEF LLMInv

(* One response is consumed, or the script has run out.                    *)
LEMMA AnswerKeepsScript ==
  ASSUME LLMInv, Answer
  PROVE  /\ responses' \in Seq(Contents)
         /\ answers' \in Seq(Contents \cup {Exhausted})
         /\ Remaining' /\ ScriptReplayed'
<1>0. /\ Script \in Seq(Contents) /\ Len(Script) \in Nat
      /\ responses \in Seq(Contents) /\ Len(responses) \in Nat
      /\ answers \in Seq(Contents \cup {Exhausted}) /\ Len(answers) \in Nat
      /\ DOMAIN answers = 1 .. Len(answers)
      /\ Remaining /\ ScriptReplayed
  BY ScriptConstants, LLMFacts DEF LLMInv
<1>1. CASE responses = <<>>
  <2>1. answers' = Append(answers, Exhausted) /\ responses' = responses
    BY <1>1 DEF Answer
  <2>2. /\ answers' \in Seq(Contents \cup {Exhausted}) /\ Len(answers') = Len(answers) + 1
        /\ \A n \in 1 .. Len(answers) : answers'[n] = answers[n]
        /\ answers'[Len(answers) + 1] = Exhausted
    BY <1>0, <2>1, AppendProperties
  <2>3. Len(answers) >= Len(Script)
    BY <1>0, <1>1 DEF Remaining
  <2>4. Remaining'
    BY <1>0, <1>1, <2>1, <2>2, <2>3 DEF Remaining
  <2>5. ScriptReplayed'
    <3>1. DOMAIN answers' = 1 .. Len(answers) + 1
      BY <2>2, LenProperties
    <3>2. ASSUME NEW n \in DOMAIN answers'
          PROVE  answers'[n] = IF n <= Len(Script) THEN Script[n] ELSE Exhausted
      <4>1. CASE n \in DOMAIN answers
        BY <4>1, <1>0, <2>2 DEF ScriptReplayed
      <4>2. CASE n = Len(answers) + 1
        BY <4>2, <1>0, <2>2, <2>3
      <4>3. n \in DOMAIN answers \/ n = Len(answers) + 1
        BY <1>0, <3>1
      <4>. QED
        BY <4>1, <4>2, <4>3
    <3>. QED
      BY <3>2 DEF ScriptReplayed
  <2>. QED
    BY <1>0, <2>1, <2>2, <2>4, <2>5
<1>2. CASE responses # <<>>
  <2>1. answers' = Append(answers, Head(responses)) /\ responses' = Tail(responses)
    BY <1>2 DEF Answer
  <2>2. /\ Head(responses) \in Contents /\ Head(responses) = responses[1]
        /\ Tail(responses) \in Seq(Contents) /\ Len(Tail(responses)) = Len(responses) - 1
        /\ \A i \in 1 .. Len(Tail(responses)) : Tail(responses)[i] = responses[i + 1]
    BY <1>0, <1>2, HeadTailProperties
  <2>3. /\ answers' \in Seq(Contents \cup {Exhausted}) /\ Len(answers') = Len(answers) + 1
        /\ \A n \in 1 .. Len(answers) : answers'[n] = answers[n]
        /\ answers'[Len(answers) + 1] = responses[1]
    BY <1>0, <2>1, <2>2, AppendProperties
  <2>4. Len(responses) >= 1
    BY <1>0, <1>2, EmptySeq, LenProperties
  <2>5. Len(answers) < Len(Script) /\ Len(responses) = Len(Script) - Len(answers)
    BY <1>0, <2>4 DEF Remaining
  <2>6. responses[1] = Script[Len(answers) + 1]
    <3>1. responses[1] = Script[Len(Script) - Len(responses) + 1]
      <4>1. 1 \in 1 .. Len(responses)
        BY <1>0, <2>4
      <4>2. \A i \in 1 .. Len(responses) : responses[i] = Script[Len(Script) - Len(responses) + i]
        BY <1>0 DEF Remaining
      <4>. QED
        BY <4>1, <4>2, Zenon
    <3>2. Len(Script) - Len(responses) + 1 = Len(answers) + 1
      BY <1>0, <2>5
    <3>. QED
      BY <3>1, <3>2
  <2>7. Remaining'
    <3>1. Len(responses') = IF Len(answers') <= Len(Script) THEN Len(Script) - Len(answers') ELSE 0
      BY <1>0, <2>1, <2>2, <2>3, <2>5
    <3>2. ASSUME NEW i \in 1 .. Len(responses')
          PROVE  responses'[i] = Script[Len(Script) - Len(responses') + i]
      <4>1. i + 1 \in 1 .. Len(responses) /\ responses'[i] = responses[i + 1]
        BY <1>0, <2>1, <2>2, <2>4
      <4>2. responses[i + 1] = Script[Len(Script) - Len(responses) + (i + 1)]
        BY <1>0, <4>1 DEF Remaining
      <4>3. Len(Script) - Len(responses) + (i + 1) = Len(Script) - Len(responses') + i
        BY <1>0, <2>1, <2>2
      <4>. QED
        BY <4>1, <4>2, <4>3
    <3>. QED
      BY <3>1, <3>2 DEF Remaining
  <2>8. ScriptReplayed'
    <3>1. DOMAIN answers' = 1 .. Len(answers) + 1
      BY <2>3, LenProperties
    <3>2. ASSUME NEW n \in DOMAIN answers'
          PROVE  answers'[n] = IF n <= Len(Script) THEN Script[n] ELSE Exhausted
      <4>1. CASE n \in DOMAIN answers
        BY <4>1, <1>0, <2>3 DEF ScriptReplayed
      <4>2. CASE n = Len(answers) + 1
        BY <4>2, <1>0, <2>3, <2>5, <2>6
      <4>3. n \in DOMAIN answers \/ n = Len(answers) + 1
        BY <1>0, <3>1
      <4>. QED
        BY <4>1, <4>2, <4>3
    <3>. QED
      BY <3>2 DEF ScriptReplayed
  <2>. QED
    BY <2>1, <2>2, <2>3, <2>7, <2>8
<1>. QED
  BY <1>1, <1>2

LEMMA CompleteKeepsInv ==
  ASSUME LLMInv, Complete
  PROVE  LLMInv'
<1>. DEFINE said == Said(messages)
            size == Len(heap) + Len(messages)
            copies == [i \in 1 .. Len(messages) |-> Len(heap) + i]
<1>0. LLMTypeOK /\ Apart /\ RecordedAsAsked
  BY DEF LLMInv
<1>1. said \in Seq(Contents) /\ Len(said) = Len(messages)
  <2>1. messages \in Seq(Objects)
    BY <1>0 DEF LLMTypeOK
  <2>. QED
    BY <1>0, <2>1, SaidType
<1>2. /\ heap' = heap \o said /\ requests' = Append(requests, copies)
      /\ asked' = Append(asked, said) /\ messages' = messages
  BY <1>0, LLMFacts DEF Complete, Record
<1>3. /\ heap' \in Seq(Contents) /\ Len(heap') = size
      /\ \A i \in 1 .. Len(heap) : heap'[i] = heap[i]
      /\ \A i \in 1 .. Len(messages) : heap'[Len(heap) + i] = said[i]
  <2>1. heap \in Seq(Contents) /\ Len(heap) \in Nat /\ Len(messages) \in Nat
    BY <1>0, LLMFacts
  <2>. HIDE DEF said
  <2>2. /\ heap' \in Seq(Contents) /\ Len(heap') = Len(heap) + Len(said)
        /\ \A i \in 1 .. Len(heap) + Len(said) :
             heap'[i] = IF i <= Len(heap) THEN heap[i] ELSE said[i - Len(heap)]
    BY <1>1, <1>2, <2>1, ConcatProperties
  <2>3. \A i \in 1 .. Len(heap) : heap'[i] = heap[i]
    BY <1>1, <2>1, <2>2
  <2>4. ASSUME NEW i \in 1 .. Len(messages)
        PROVE  heap'[Len(heap) + i] = said[i]
    <3>1. /\ Len(heap) + i \in 1 .. Len(heap) + Len(said)
          /\ ~ Len(heap) + i <= Len(heap) /\ (Len(heap) + i) - Len(heap) = i
      BY <1>1, <2>1
    <3>. QED
      BY <2>2, <3>1
  <2>. QED
    BY <1>1, <2>2, <2>3, <2>4
<1>4. copies \in Seq(1 .. size) /\ Len(copies) = Len(messages)
  <2>1. copies \in [1 .. Len(messages) -> 1 .. size]
    BY <1>0, LLMFacts
  <2>. HIDE DEF copies
  <2>. QED
    BY <1>0, <2>1, LLMFacts, FunctionIsSeq
<1>5. messages \in Seq(1 .. size) /\ requests \in Seq(Seq(1 .. size))
  BY <1>0, LLMFacts, MoreObjects, Len(heap) <= size
<1>6. /\ requests' \in Seq(Seq(1 .. size)) /\ Len(requests') = Len(requests) + 1
      /\ \A n \in 1 .. Len(requests) : requests'[n] = requests[n]
      /\ requests'[Len(requests) + 1] = copies
  <2>. HIDE DEF copies
  <2>. QED
    BY <1>2, <1>4, <1>5, AppendProperties
<1>7. /\ asked' \in Seq(Seq(Contents)) /\ Len(asked') = Len(asked) + 1
      /\ \A n \in 1 .. Len(asked) : asked'[n] = asked[n]
      /\ asked'[Len(asked) + 1] = said
  <2>1. asked \in Seq(Seq(Contents))
    BY <1>0, LLMFacts
  <2>. HIDE DEF said
  <2>. QED
    BY <1>1, <1>2, <2>1, AppendProperties
<1>8. /\ responses' \in Seq(Contents)
      /\ answers' \in Seq(Contents \cup {Exhausted})
      /\ Remaining' /\ ScriptReplayed'
  BY AnswerKeepsScript DEF Complete
<1>9. LLMTypeOK'
  <2>. HIDE DEF copies, said
  <2>1. Objects' = 1 .. size
    BY <1>3, LenProperties DEF Objects
  <2>. QED
    BY <1>2, <1>3, <1>5, <1>6, <1>7, <1>8, <2>1 DEF LLMTypeOK
<1>10. DOMAIN requests' = 1 .. Len(requests) + 1 /\ DOMAIN asked' = 1 .. Len(asked) + 1
  <2>. HIDE DEF copies, said
  <2>. QED
    BY <1>6, <1>7
<1>11. Apart'
  <2>1. ASSUME NEW n \in 1 .. Len(requests) + 1, NEW i \in DOMAIN requests'[n],
               NEW j \in DOMAIN messages
        PROVE  requests'[n][i] # messages[j]
    <3>1. CASE n \in 1 .. Len(requests)
      <4>1. n \in DOMAIN requests
        BY <3>1, <1>0, LLMFacts
      <4>2. requests'[n] = requests[n]
        BY <3>1, <1>6
      <4>. QED
        BY <4>1, <4>2, <1>0 DEF Apart
    <3>2. CASE n = Len(requests) + 1
      <4>1. requests'[n] = copies
        BY <3>2, <1>6
      <4>2. i \in 1 .. Len(messages) /\ requests'[n][i] = Len(heap) + i
        BY <4>1
      <4>3. messages[j] \in 1 .. Len(heap) /\ Len(heap) \in Nat /\ Len(messages) \in Nat
        BY <1>0, LLMFacts
      <4>. QED
        BY <4>2, <4>3
    <3>3. Len(requests) \in Nat
      BY <1>0, LLMFacts
    <3>. QED
      BY <3>1, <3>2, <3>3
  <2>. QED
    BY <2>1, <1>2, <1>10 DEF Apart
<1>12. RecordedAsAsked'
  <2>1. Len(requests) = Len(asked) /\ Len(requests') = Len(asked')
    BY <1>0, <1>6, <1>7 DEF RecordedAsAsked
  <2>2. ASSUME NEW n \in 1 .. Len(requests) + 1
        PROVE  Said(requests[n])' = asked'[n]
    <3>1. CASE n \in 1 .. Len(requests)
      <4>1. \A i \in DOMAIN requests[n] : heap'[requests[n][i]] = heap[requests[n][i]]
        BY <3>1, <1>0, <1>3, LLMFacts
      <4>2. requests'[n] = requests[n] /\ asked'[n] = asked[n]
        BY <3>1, <1>6, <1>7, <2>1
      <4>3. Said(requests[n]) = asked[n]
        BY <3>1, <1>0, LLMFacts DEF RecordedAsAsked
      <4>4. Said(requests[n])' = Said(requests[n])
        BY <4>1, <4>2, RecordKept
      <4>. QED
        BY <4>2, <4>3, <4>4
    <3>2. CASE n = Len(requests) + 1
      <4>1. requests'[n] = copies /\ asked'[n] = said
        BY <3>2, <1>6, <1>7, <2>1
      <4>2. \A i \in 1 .. Len(messages) : heap'[copies[i]] = said[i]
        BY <1>3
      <4>3. said = [i \in 1 .. Len(messages) |-> said[i]]
        BY <1>0, LLMFacts DEF Said
      <4>4. Said(requests[n])' = [i \in DOMAIN copies |-> heap'[copies[i]]]
        BY <4>1 DEF Said
      <4>. QED
        BY <4>1, <4>2, <4>3, <4>4
    <3>3. Len(requests) \in Nat
      BY <1>0, LLMFacts
    <3>. QED
      BY <3>1, <3>2, <3>3
  <2>. QED
    BY <2>1, <2>2, <1>10 DEF RecordedAsAsked
<1>. QED
  BY <1>8, <1>9, <1>11, <1>12 DEF LLMInv

LEMMA LLMInductive == LLMInv /\ [LLMNext]_llmVars => LLMInv'
<1>. SUFFICES ASSUME LLMInv, [LLMNext]_llmVars PROVE LLMInv'
  OBVIOUS
<1>1. CASE Complete
  BY <1>1, CompleteKeepsInv
<1>2. ASSUME NEW text \in Contents, AppendMessage(text) PROVE LLMInv'
  BY <1>2, AppendKeepsInv
<1>3. ASSUME NEW text \in Contents, NEW i \in DOMAIN messages, ChangeMessage(i, text)
      PROVE  LLMInv'
  BY <1>3, ChangeKeepsInv
<1>4. CASE UNCHANGED llmVars
  <2>1. UNCHANGED <<heap, messages, responses, requests, answers, asked>>
    BY <1>4 DEF llmVars
  <2>2. LLMTypeOK' /\ Apart'
    BY <2>1 DEF LLMInv, LLMTypeOK, Objects, Apart
  <2>3. RecordedAsAsked'
    BY <2>1 DEF LLMInv, RecordedAsAsked, Said
  <2>4. Remaining' /\ ScriptReplayed'
    BY <2>1 DEF LLMInv, Remaining, ScriptReplayed
  <2>. QED
    BY <2>2, <2>3, <2>4 DEF LLMInv
<1>. QED
  BY <1>1, <1>2, <1>3, <1>4 DEF LLMNext

LEMMA LLMInvariant == LLMSpec => []LLMInv
BY LLMInitially, LLMInductive, PTL DEF LLMSpec

(* Whatever the script, the caller and the number of calls: what a test    *)
(* reads back of a request is what the messages said when it was made, for *)
(* the copies share no object with the caller's list.                      *)
THEOREM RequestsAreRecorded == LLMSpec => []RecordedAsAsked
<1>1. LLMInv => RecordedAsAsked
  BY DEF LLMInv
<1>. QED
  BY <1>1, LLMInvariant, PTL

(* The n-th call is answered by the n-th response of the script, and every *)
(* call past its end raises.                                               *)
THEOREM TheScriptIsReplayed == LLMSpec => []ScriptReplayed
<1>1. LLMInv => ScriptReplayed
  BY DEF LLMInv
<1>. QED
  BY <1>1, LLMInvariant, PTL
-----------------------------------------------------------------------------
(* AuditLog                                                                *)

LEMMA NothingKept ==
  ASSUME NEW t
  PROVE  Kept(<<>>, t) = <<>>
<1>. DEFINE Fold(f) == f = [S \in SUBSET DOMAIN <<>> |->
                             IF S = {} THEN <<>>
                             ELSE Keep(f[S \ {Max(S)}], <<>>[Max(S)], t)]
<1>1. Fold([S \in SUBSET DOMAIN <<>> |-> <<>>])
  BY EmptyFunction
<1>2. Kept(<<>>, t) = (CHOOSE f : Fold(f))[DOMAIN <<>>]
  BY DEF Kept, FoldLeft, MapThenFoldSet
<1>3. Fold(CHOOSE f : Fold(f))
  <2>. HIDE DEF Fold
  <2>. QED
    BY <1>1
<1>4. PICK fold : Fold(fold) /\ fold = (CHOOSE f : Fold(f))
  BY <1>3
<1>. HIDE DEF Fold
<1>5. fold[{}] = <<>>
  BY <1>4 DEF Fold
<1>. QED
  BY <1>2, <1>4, <1>5, EmptyFunction

Readable == AuditRecord \cup {Blank}

LEMMA KeepType ==
  ASSUME NEW kept \in Seq(AuditRecord), NEW line \in Readable, NEW t
  PROVE  Keep(kept, line, t) \in Seq(AuditRecord)
<1>1. CASE line = Blank
  BY <1>1 DEF Keep
<1>2. CASE line # Blank
  <2>1. line \in AuditRecord
    BY <1>2 DEF Readable
  <2>2. Append(kept, line) \in Seq(AuditRecord)
    BY <2>1, AppendProperties
  <2>. QED
    BY <2>2 DEF Keep
<1>. QED
  BY <1>1, <1>2

(* What is kept of a file, line by line.                                   *)
LEMMA KeptInSteps ==
  ASSUME NEW file \in Seq(Readable), NEW t
  PROVE  \E kept \in [0 .. Len(file) -> Seq(AuditRecord)] :
           /\ kept[0] = <<>> /\ kept[Len(file)] = Kept(file, t)
           /\ \A k \in 1 .. Len(file) : kept[k] = Keep(kept[k - 1], file[k], t)
<1>. DEFINE n == Len(file)
            step == [x \in Seq(AuditRecord) \X (1 .. n) |-> Keep(x[1], file[x[2]], t)]
            Fold(f) == f = [S \in SUBSET DOMAIN file |->
                             IF S = {} THEN <<>>
                             ELSE Keep(f[S \ {Max(S)}], file[Max(S)], t)]
<1>1. n \in Nat /\ DOMAIN file = 1 .. n /\ \A k \in 1 .. n : file[k] \in Readable
  BY LenProperties, ElementOfSeq
<1>2. step \in [Seq(AuditRecord) \X (1 .. n) -> Seq(AuditRecord)]
  <2>. SUFFICES ASSUME NEW x \in Seq(AuditRecord) \X (1 .. n)
                PROVE  step[x] \in Seq(AuditRecord)
    BY Zenon
  <2>1. x[1] \in Seq(AuditRecord) /\ x[2] \in 1 .. n
    OBVIOUS
  <2>2. file[x[2]] \in Readable
    BY <1>1, <2>1
  <2>. QED
    BY <2>1, <2>2, KeepType
<1>3. PICK f \in [SUBSET (1 .. n) -> Seq(AuditRecord)] : Folds(f, <<>>, step, n)
  <2>1. <<>> \in Seq(AuditRecord)
    BY EmptySeq
  <2>. HIDE DEF step
  <2>. QED
    BY <1>1, <1>2, <2>1, FoldExists
<1>4. ASSUME NEW S \in SUBSET (1 .. n)
      PROVE  f[S] = IF S = {} THEN <<>> ELSE Keep(f[S \ {Max(S)}], file[Max(S)], t)
  <2>1. CASE S # {}
    <3>1. Max(S) \in 1 .. n /\ S \ {Max(S)} \in SUBSET (1 .. n)
      BY <1>1, <2>1, LastPlace
    <3>2. <<f[S \ {Max(S)}], Max(S)>> \in Seq(AuditRecord) \X (1 .. n)
      BY <3>1
    <3>3. f[S] = step[f[S \ {Max(S)}], Max(S)]
      BY <1>3, <2>1 DEF Folds
    <3>. QED
      BY <2>1, <3>2, <3>3
  <2>. QED
    BY <1>3, <2>1 DEF Folds
<1>5. Fold(f)
  BY <1>1, <1>4
<1>6. Kept(file, t) = (CHOOSE g : Fold(g))[DOMAIN file]
  BY DEF Kept, FoldLeft, MapThenFoldSet
<1>7. PICK fold : Fold(fold) /\ fold = (CHOOSE g : Fold(g))
  <2>. HIDE DEF Fold
  <2>. QED
    BY <1>5
<1>8. fold[1 .. 0] = <<>>
  BY <1>1, <1>7
<1>9. ASSUME NEW k \in 1 .. n
      PROVE  fold[1 .. k] = Keep(fold[1 .. k - 1], file[k], t)
  <2>1. 1 .. k \in SUBSET (1 .. n) /\ 1 .. k # {} /\ Max(1 .. k) = k /\ (1 .. k) \ {k} = 1 .. k - 1
    BY <1>1, LastOfAll
  <2>. QED
    BY <1>1, <1>7, <2>1
<1>. DEFINE Typed == {k \in Nat : k <= n => fold[1 .. k] \in Seq(AuditRecord)}
            kept == [k \in 0 .. n |-> fold[1 .. k]]
<1>10. 0 \in Typed
  BY <1>8, EmptySeq
<1>11. ASSUME NEW k \in Nat, k \in Typed
       PROVE  k + 1 \in Typed
  <2>. SUFFICES ASSUME k + 1 <= n
                PROVE  fold[1 .. k + 1] \in Seq(AuditRecord)
    OBVIOUS
  <2>1. k + 1 \in 1 .. n /\ k + 1 - 1 = k /\ fold[1 .. k] \in Seq(AuditRecord)
    BY <1>1, <1>11
  <2>2. file[k + 1] \in Readable
    BY <1>1, <2>1
  <2>3. fold[1 .. k + 1] = Keep(fold[1 .. k], file[k + 1], t)
    BY <1>9, <2>1
  <2>. QED
    BY <2>1, <2>2, <2>3, KeepType
<1>12. \A k \in 0 .. n : k \in Typed
  <2>. HIDE DEF Typed
  <2>. QED
    BY <1>1, <1>10, <1>11, NaturalsByInduction
<1>13. kept \in [0 .. n -> Seq(AuditRecord)]
  BY <1>12
<1>14. kept[0] = <<>> /\ kept[n] = Kept(file, t)
  <2>1. Kept(file, t) = fold[1 .. n]
    BY <1>1, <1>6, <1>7
  <2>2. 0 \in 0 .. n /\ n \in 0 .. n
    BY <1>1
  <2>. QED
    BY <1>8, <2>1, <2>2
<1>15. \A k \in 1 .. n : kept[k] = Keep(kept[k - 1], file[k], t)
  BY <1>1, <1>9
<1>. HIDE DEF kept
<1>. QED
  BY <1>13, <1>14, <1>15

(* What was kept of the beginning of a file is the beginning of what is    *)
(* kept of all of it.                                                      *)
LEMMA KeptGrows ==
  ASSUME NEW file \in Seq(Readable), NEW t, NEW m \in 0 .. Len(file)
  PROVE  IsPrefix(Kept(SubSeq(file, 1, m), t), Kept(file, t))
<1>. DEFINE n == Len(file)
            first == SubSeq(file, 1, m)
            Begins(s, u) == Len(s) <= Len(u) /\ \A i \in 1 .. Len(s) : s[i] = u[i]
<1>1. n \in Nat /\ m \in Nat /\ m <= n /\ \A k \in 1 .. n : file[k] \in Readable
  BY LenProperties, ElementOfSeq
<1>2. first \in Seq(Readable) /\ Len(first) = m /\ \A k \in 1 .. m : first[k] = file[k]
  BY <1>1, SubSeqProperties
<1>3. PICK kept \in [0 .. n -> Seq(AuditRecord)] :
        /\ kept[0] = <<>> /\ kept[n] = Kept(file, t)
        /\ \A k \in 1 .. n : kept[k] = Keep(kept[k - 1], file[k], t)
  BY KeptInSteps
<1>4. PICK part \in [0 .. m -> Seq(AuditRecord)] :
        /\ part[0] = <<>> /\ part[m] = Kept(first, t)
        /\ \A k \in 1 .. m : part[k] = Keep(part[k - 1], first[k], t)
  <2>. HIDE DEF first
  <2>. QED
    BY <1>2, KeptInSteps
<1>. HIDE DEF first
<1>. DEFINE Same == {k \in Nat : k <= m => part[k] = kept[k]}
            Grown == {k \in Nat : m + k <= n => Begins(kept[m], kept[m + k])}
<1>5. Nat \subseteq Same
  <2>1. 0 \in Same
    BY <1>3, <1>4
  <2>2. ASSUME NEW k \in Nat, k \in Same
        PROVE  k + 1 \in Same
    <3>. SUFFICES ASSUME k + 1 <= m
                  PROVE  part[k + 1] = kept[k + 1]
      OBVIOUS
    <3>1. k + 1 \in 1 .. m /\ k + 1 \in 1 .. n /\ k + 1 - 1 = k /\ part[k] = kept[k]
      BY <1>1, <2>2
    <3>2. part[k + 1] = Keep(part[k], first[k + 1], t)
      BY <1>4, <3>1
    <3>3. kept[k + 1] = Keep(kept[k], file[k + 1], t)
      BY <1>3, <3>1
    <3>. QED
      BY <1>2, <3>1, <3>2, <3>3
  <2>. HIDE DEF Same
  <2>. QED
    BY <2>1, <2>2, NaturalsByInduction
<1>6. Kept(first, t) = kept[m]
  BY <1>1, <1>4, <1>5
<1>7. Nat \subseteq Grown
  <2>1. 0 \in Grown
    <3>1. kept[m] \in Seq(AuditRecord) /\ Len(kept[m]) \in Nat
      BY <1>1, LenProperties
    <3>. QED
      BY <1>1, <3>1
  <2>2. ASSUME NEW k \in Nat, k \in Grown
        PROVE  k + 1 \in Grown
    <3>. SUFFICES ASSUME m + (k + 1) <= n
                  PROVE  Begins(kept[m], kept[m + (k + 1)])
      OBVIOUS
    <3>. DEFINE j == m + (k + 1)
    <3>1. j \in 1 .. n /\ j - 1 = m + k /\ j - 1 \in 0 .. n /\ Begins(kept[m], kept[j - 1])
      BY <1>1, <2>2
    <3>2. /\ kept[m] \in Seq(AuditRecord) /\ Len(kept[m]) \in Nat
          /\ kept[j - 1] \in Seq(AuditRecord) /\ Len(kept[j - 1]) \in Nat
      BY <1>1, <3>1, LenProperties
    <3>3. kept[j] = Keep(kept[j - 1], file[j], t)
      BY <1>3, <3>1
    <3>4. CASE kept[j] = kept[j - 1]
      BY <3>1, <3>4
    <3>5. CASE kept[j] # kept[j - 1]
      <4>1. kept[j] = Append(kept[j - 1], file[j]) /\ file[j] \in AuditRecord
        BY <1>1, <3>1, <3>3, <3>5 DEF Keep, Readable
      <4>2. /\ Len(kept[j]) = Len(kept[j - 1]) + 1
            /\ \A i \in 1 .. Len(kept[j - 1]) : kept[j][i] = kept[j - 1][i]
        BY <3>2, <4>1, AppendProperties
      <4>. QED
        BY <3>1, <3>2, <4>2
    <3>. QED
      BY <3>4, <3>5
  <2>. HIDE DEF Grown
  <2>. QED
    BY <2>1, <2>2, NaturalsByInduction
<1>8. Begins(kept[m], kept[n])
  <2>1. n - m \in Nat /\ m + (n - m) = n
    BY <1>1
  <2>2. n - m \in Grown
    BY <1>7, <2>1
  <2>. QED
    BY <2>1, <2>2
<1>9. IsPrefix(kept[m], kept[n])
  <2>0. m \in 0 .. n /\ n \in 0 .. n
    BY <1>1
  <2>1. /\ kept[m] \in Seq(AuditRecord) /\ Len(kept[m]) \in Nat
        /\ kept[n] \in Seq(AuditRecord) /\ Len(kept[n]) \in Nat
    <3>1. kept[m] \in Seq(AuditRecord) /\ kept[n] \in Seq(AuditRecord)
      BY <2>0
    <3>. HIDE DEF n
    <3>. QED
      BY <3>1, LenProperties
  <2>2. \A i \in 1 .. Len(kept[m]) : kept[m][i] \in AuditRecord /\ kept[n][i] \in AuditRecord
    BY <1>8, <2>1, ElementOfSeq
  <2>3. SubSeq(kept[m], 1, Len(kept[m])) = SubSeq(kept[n], 1, Len(kept[m]))
    <3>1. /\ SubSeq(kept[m], 1, Len(kept[m])) \in Seq(AuditRecord)
          /\ Len(SubSeq(kept[m], 1, Len(kept[m]))) = Len(kept[m])
          /\ \A i \in 1 .. Len(kept[m]) : SubSeq(kept[m], 1, Len(kept[m]))[i] = kept[m][i]
      BY <2>1, <2>2, SubSeqProperties
    <3>2. /\ SubSeq(kept[n], 1, Len(kept[m])) \in Seq(AuditRecord)
          /\ Len(SubSeq(kept[n], 1, Len(kept[m]))) = Len(kept[m])
          /\ \A i \in 1 .. Len(kept[m]) : SubSeq(kept[n], 1, Len(kept[m]))[i] = kept[n][i]
      BY <2>1, <2>2, SubSeqProperties
    <3>. QED
      BY <1>8, <3>1, <3>2, SeqEqual
  <2>. QED
    BY <1>8, <2>3 DEF IsPrefix
<1>. QED
  BY <1>3, <1>6, <1>9 DEF first

LEMMA RangeOfAppend ==
  ASSUME NEW E, NEW s \in Seq(E), NEW e \in E
  PROVE  Range(Append(s, e)) = Range(s) \cup {e}
<1>1. /\ Append(s, e) \in Seq(E) /\ Len(Append(s, e)) = Len(s) + 1 /\ Len(s) \in Nat
      /\ \A i \in 1 .. Len(s) : Append(s, e)[i] = s[i]
      /\ Append(s, e)[Len(s) + 1] = e
  BY AppendProperties, LenProperties
<1>2. /\ Range(Append(s, e)) = {Append(s, e)[i] : i \in 1 .. Len(s) + 1}
      /\ Range(s) = {s[i] : i \in 1 .. Len(s)}
  BY <1>1, RangeEquality
<1>. QED
  BY <1>1, <1>2

(* Of one file, what is kept of a trace is what is kept of all, of it.     *)
LEMMA KeptOfTrace ==
  ASSUME NEW file \in Seq(Readable), NEW t \in Traces
  PROVE  Range(Kept(file, t)) = {r \in Range(Kept(file, All)) : r.trace_id = t}
<1>. DEFINE n == Len(file)
<1>1. n \in Nat /\ \A k \in 1 .. n : file[k] \in Readable
  BY LenProperties, ElementOfSeq
<1>2. PICK all \in [0 .. n -> Seq(AuditRecord)] :
        /\ all[0] = <<>> /\ all[n] = Kept(file, All)
        /\ \A k \in 1 .. n : all[k] = Keep(all[k - 1], file[k], All)
  BY KeptInSteps
<1>3. PICK own \in [0 .. n -> Seq(AuditRecord)] :
        /\ own[0] = <<>> /\ own[n] = Kept(file, t)
        /\ \A k \in 1 .. n : own[k] = Keep(own[k - 1], file[k], t)
  BY KeptInSteps
<1>. DEFINE Agree == {k \in Nat : k <= n => Range(own[k]) = {r \in Range(all[k]) : r.trace_id = t}}
<1>4. 0 \in Agree
  BY <1>2, <1>3, EmptyFunction DEF Range
<1>5. ASSUME NEW k \in Nat, k \in Agree
      PROVE  k + 1 \in Agree
  <2>. SUFFICES ASSUME k + 1 <= n
                PROVE  Range(own[k + 1]) = {r \in Range(all[k + 1]) : r.trace_id = t}
    OBVIOUS
  <2>1. k + 1 \in 1 .. n /\ k + 1 - 1 = k /\ k \in 0 .. n
        /\ Range(own[k]) = {r \in Range(all[k]) : r.trace_id = t}
    BY <1>1, <1>5
  <2>. DEFINE line == file[k + 1]
  <2>2. all[k + 1] = Keep(all[k], line, All) /\ own[k + 1] = Keep(own[k], line, t)
    BY <1>2, <1>3, <2>1
  <2>3. CASE line = Blank
    BY <2>1, <2>2, <2>3 DEF Keep
  <2>4. CASE line # Blank
    <3>1. line \in AuditRecord /\ line.trace_id \in Traces
      BY <1>1, <2>1, <2>4 DEF Readable, AuditRecord
    <3>2. all[k + 1] = Append(all[k], line)
      BY <2>2, <2>4 DEF Keep
    <3>3. own[k + 1] = IF line.trace_id = t THEN Append(own[k], line) ELSE own[k]
      BY <2>2, <2>4, AuditLogConstants DEF Keep
    <3>4. Range(Append(all[k], line)) = Range(all[k]) \cup {line}
          /\ Range(Append(own[k], line)) = Range(own[k]) \cup {line}
      BY <2>1, <3>1, RangeOfAppend
    <3>. HIDE DEF line
    <3>. QED
      BY <2>1, <3>2, <3>3, <3>4
  <2>. QED
    BY <2>3, <2>4
<1>6. n \in Agree
  <2>. HIDE DEF Agree
  <2>. QED
    BY <1>1, <1>4, <1>5, NaturalsByInduction
<1>. QED
  BY <1>1, <1>2, <1>3, <1>6
-----------------------------------------------------------------------------

(* What was read back is what the file said when it was that long: it is   *)
(* the beginning of what it says now.                                      *)
ReadsAreSelections ==
  \A t \in Selections :
    /\ readUpTo[t] <= Len(Lines)
    /\ readBack[t] = Selected(SubSeq(Lines, 1, readUpTo[t]), t)

LogInv ==
  /\ LogTypeOK
  /\ Len(Lines) <= MaxLines /\ DOMAIN readBack = Selections
  /\ ReadsAreSelections

LEMMA LinesType ==
  ASSUME LogTypeOK
  PROVE  Lines \in Seq(LogLine) /\ Len(Lines) \in Nat
<1>1. Lines \in Seq(LogLine)
  BY EmptySeq DEF LogTypeOK, Lines
<1>. QED
  BY <1>1, LenProperties

LEMMA WithoutTorn ==
  ASSUME NEW file \in Seq(LogLine), Torn \notin Range(file)
  PROVE  file \in Seq(Readable)
<1>1. Range(file) \subseteq Readable
  BY RangeOfSeq DEF LogLine, Readable
<1>. QED
  BY <1>1, SeqOfRange, SeqMonotonic

LEMMA SelectedType ==
  ASSUME NEW file \in Seq(LogLine), NEW t
  PROVE  Selected(file, t) = Unreadable \/ Selected(file, t) \in Seq(AuditRecord)
<1>1. CASE Torn \in Range(file)
  BY <1>1 DEF Selected
<1>2. CASE Torn \notin Range(file)
  <2>1. file \in Seq(Readable) /\ Len(file) \in Nat
    BY <1>2, WithoutTorn, LenProperties
  <2>2. Kept(file, t) \in Seq(AuditRecord)
    BY <2>1, KeptInSteps
  <2>. QED
    BY <1>2, <2>2 DEF Selected
<1>. QED
  BY <1>1, <1>2

LEMMA SelectedOfNone ==
  ASSUME NEW t
  PROVE  Selected(<<>>, t) = <<>>
<1>1. Range(<<>>) = {}
  BY EmptyFunction DEF Range
<1>. QED
  BY <1>1, NothingKept DEF Selected

LEMMA LogInitially == LogInit => LogInv
<1>. SUFFICES ASSUME LogInit
              PROVE  LogInv
  OBVIOUS
<1>1. /\ logFile = NoLog /\ readUpTo = [t \in Selections |-> 0]
      /\ readBack = [t \in Selections |-> <<>>] /\ Lines = <<>> /\ Len(Lines) = 0
  BY EmptySeq DEF LogInit, Lines
<1>2. <<>> \in Seq(AuditRecord) /\ MaxLines \in Nat
  BY EmptySeq, AuditLogConstants
<1>3. LogTypeOK
  BY <1>1, <1>2 DEF LogTypeOK
<1>4. ReadsAreSelections
  <2>. SUFFICES ASSUME NEW t \in Selections
                PROVE  readUpTo[t] <= Len(Lines) /\ readBack[t] = Selected(SubSeq(Lines, 1, readUpTo[t]), t)
    BY DEF ReadsAreSelections
  <2>1. SubSeq(<<>>, 1, 0) = <<>>
    BY SubSeqEmpty
  <2>2. readUpTo[t] = 0 /\ readBack[t] = <<>>
    BY <1>1
  <2>3. SubSeq(Lines, 1, readUpTo[t]) = <<>>
    BY <1>1, <2>1, <2>2
  <2>4. readBack[t] = Selected(SubSeq(Lines, 1, readUpTo[t]), t)
    BY <2>2, <2>3, SelectedOfNone
  <2>. QED
    BY <1>1, <2>2, <2>4
<1>. QED
  BY <1>1, <1>2, <1>3, <1>4 DEF LogInv

LEMMA AppendLineKeepsInv ==
  ASSUME LogInv, NEW line \in LogLine, AppendLine(line)
  PROVE  LogInv'
<1>1. LogTypeOK /\ Len(Lines) < MaxLines /\ logFile' = Append(Lines, line)
      /\ UNCHANGED <<readUpTo, readBack>>
  BY DEF LogInv, AppendLine
<1>2. Lines \in Seq(LogLine) /\ Len(Lines) \in Nat /\ MaxLines \in Nat
  BY <1>1, LinesType, AuditLogConstants
<1>3. /\ logFile' \in Seq(LogLine) /\ Len(logFile') = Len(Lines) + 1
      /\ \A i \in 1 .. Len(Lines) : logFile'[i] = Lines[i]
  BY <1>1, <1>2, AppendProperties
<1>4. Lines' = logFile'
  BY <1>3, AuditLogConstants DEF Lines
<1>5. LogTypeOK'
  BY <1>1, <1>3 DEF LogTypeOK, LogLine, AuditRecord, Selections
<1>6. ReadsAreSelections'
  <2>. SUFFICES ASSUME NEW t \in Selections
                PROVE  /\ readUpTo[t] <= Len(Lines')
                       /\ readBack[t] = Selected(SubSeq(Lines', 1, readUpTo[t]), t)
    BY <1>1 DEF ReadsAreSelections
  <2>. DEFINE k == readUpTo[t]
  <2>1. k \in Nat /\ k <= Len(Lines) /\ readBack[t] = Selected(SubSeq(Lines, 1, k), t)
    BY <1>1 DEF LogInv, LogTypeOK, ReadsAreSelections
  <2>2. SubSeq(Lines', 1, k) = SubSeq(Lines, 1, k)
    <3>1. \A i \in 1 .. k : Lines[i] \in LogLine /\ logFile'[i] = Lines[i]
      BY <1>2, <1>3, <2>1, ElementOfSeq
    <3>2. /\ SubSeq(Lines, 1, k) \in Seq(LogLine) /\ Len(SubSeq(Lines, 1, k)) = k
          /\ \A i \in 1 .. k : SubSeq(Lines, 1, k)[i] = Lines[i]
      BY <2>1, <3>1, SubSeqProperties
    <3>3. /\ SubSeq(logFile', 1, k) \in Seq(LogLine) /\ Len(SubSeq(logFile', 1, k)) = k
          /\ \A i \in 1 .. k : SubSeq(logFile', 1, k)[i] = logFile'[i]
      BY <2>1, <3>1, SubSeqProperties
    <3>. QED
      BY <1>4, <2>1, <3>1, <3>2, <3>3, SeqEqual
  <2>3. k <= Len(Lines')
    BY <1>2, <1>3, <1>4, <2>1
  <2>. QED
    BY <2>1, <2>2, <2>3
<1>. QED
  BY <1>1, <1>2, <1>3, <1>4, <1>5, <1>6 DEF LogInv, Selections

(* A read is a selection from all there is.                                *)
LEMMA ReadSelects ==
  ASSUME LogInv, NEW t \in Selections, read(t)
  PROVE  /\ readBack' = [readBack EXCEPT ![t] = Selected(Lines, t)]
         /\ Selected(Lines, t) = Selected(SubSeq(Lines, 1, Len(Lines)), t)
<1>1. Lines \in Seq(LogLine)
  BY LinesType DEF LogInv
<1>2. SubSeq(Lines, 1, Len(Lines)) = Lines
  BY <1>1, SubSeqFull
<1>3. CASE logFile = NoLog
  BY <1>2, <1>3, SelectedOfNone DEF read, Lines
<1>4. CASE logFile # NoLog
  BY <1>2, <1>4 DEF read, Lines
<1>. QED
  BY <1>3, <1>4

LEMMA ReadLogKeepsInv ==
  ASSUME LogInv, NEW t \in Selections, read(t)
  PROVE  LogInv'
<1>1. /\ LogTypeOK /\ DOMAIN readBack = Selections /\ Len(Lines) <= MaxLines
      /\ readUpTo' = [readUpTo EXCEPT ![t] = Len(Lines)] /\ logFile' = logFile /\ Lines' = Lines
  BY DEF LogInv, read, Lines
<1>2. /\ readBack' = [readBack EXCEPT ![t] = Selected(Lines, t)]
      /\ Selected(Lines, t) = Selected(SubSeq(Lines, 1, Len(Lines)), t)
  BY ReadSelects
<1>3. Lines \in Seq(LogLine) /\ Len(Lines) \in Nat /\ MaxLines \in Nat
  BY <1>1, LinesType, AuditLogConstants
<1>4. Selected(Lines, t) = Unreadable \/ Selected(Lines, t) \in Seq(AuditRecord)
  BY <1>3, SelectedType
<1>5. LogTypeOK'
  <2>1. readUpTo' \in [Selections -> 0 .. MaxLines]
    BY <1>1, <1>3 DEF LogTypeOK
  <2>2. \A u \in Selections : readBack'[u] = Unreadable \/ readBack'[u] \in Seq(AuditRecord)
    BY <1>1, <1>2, <1>4 DEF LogTypeOK
  <2>. QED
    BY <1>1, <2>1, <2>2 DEF LogTypeOK, LogLine, AuditRecord, Selections
<1>6. ReadsAreSelections'
  <2>. SUFFICES ASSUME NEW u \in Selections
                PROVE  /\ readUpTo'[u] <= Len(Lines)
                       /\ readBack'[u] = Selected(SubSeq(Lines, 1, readUpTo'[u]), u)
    BY <1>1 DEF ReadsAreSelections
  <2>1. CASE u = t
    BY <1>1, <1>2, <1>3, <2>1 DEF LogTypeOK
  <2>2. CASE u # t
    <3>1. readUpTo'[u] = readUpTo[u] /\ readBack'[u] = readBack[u]
      BY <1>1, <1>2, <2>2 DEF LogTypeOK
    <3>. QED
      BY <3>1 DEF LogInv, ReadsAreSelections
  <2>. QED
    BY <2>1, <2>2
<1>. QED
  BY <1>1, <1>2, <1>5, <1>6 DEF LogInv, Selections

LEMMA LogInductive == LogInv /\ [LogNext]_logVars => LogInv'
<1>. SUFFICES ASSUME LogInv, [LogNext]_logVars
              PROVE  LogInv'
  OBVIOUS
<1>1. ASSUME NEW line \in LogLine, AppendLine(line) PROVE LogInv'
  BY <1>1, AppendLineKeepsInv
<1>2. ASSUME NEW t \in Selections, read(t) PROVE LogInv'
  BY <1>2, ReadLogKeepsInv
<1>3. CASE UNCHANGED logVars
  <2>1. logFile' = logFile /\ readUpTo' = readUpTo /\ readBack' = readBack /\ Lines' = Lines
    BY <1>3 DEF logVars, Lines
  <2>2. LogTypeOK'
    BY <2>1 DEF LogInv, LogTypeOK, LogLine, AuditRecord, Selections
  <2>3. ReadsAreSelections'
    BY <2>1 DEF LogInv, ReadsAreSelections
  <2>. QED
    BY <2>1, <2>2, <2>3 DEF LogInv, Selections
<1>. QED
  BY <1>1, <1>2, <1>3 DEF LogNext

LEMMA LogInvariant == LogSpec => []LogInv
BY LogInitially, LogInductive, PTL DEF LogSpec

(* However the file grows and whoever reads it: at the same length, what   *)
(* one trace says is what the whole log says of it.                        *)
THEOREM TracesAlwaysAgree == LogSpec => []TracesAgree
<1>1. LogInv => TracesAgree
  <2>. SUFFICES ASSUME LogInv, NEW t \in Traces, readUpTo[t] = readUpTo[All]
                PROVE  IF readBack[All] = Unreadable
                       THEN readBack[t] = Unreadable
                       ELSE /\ readBack[t] # Unreadable
                            /\ Range(readBack[t]) = {r \in Range(readBack[All]) : r.trace_id = t}
    BY DEF TracesAgree
  <2>. DEFINE file == SubSeq(Lines, 1, readUpTo[All])
  <2>1. readBack[All] = Selected(file, All) /\ readBack[t] = Selected(file, t)
    BY DEF LogInv, ReadsAreSelections, Selections
  <2>2. file \in Seq(LogLine)
    <3>1. /\ Lines \in Seq(LogLine) /\ Len(Lines) \in Nat
          /\ readUpTo[All] \in Nat /\ readUpTo[All] <= Len(Lines)
      BY LinesType, AuditLogConstants DEF LogInv, LogTypeOK, ReadsAreSelections, Selections
    <3>2. \A i \in 1 .. readUpTo[All] : Lines[i] \in LogLine
      BY <3>1, ElementOfSeq
    <3>. QED
      BY <3>1, <3>2, SubSeqProperties
  <2>. HIDE DEF file
  <2>3. CASE Torn \in Range(file)
    BY <2>1, <2>3 DEF Selected
  <2>4. CASE Torn \notin Range(file)
    <3>1. file \in Seq(Readable) /\ Len(file) \in Nat
      BY <2>2, <2>4, WithoutTorn, LenProperties
    <3>2. Kept(file, All) \in Seq(AuditRecord) /\ Kept(file, t) \in Seq(AuditRecord)
      BY <3>1, KeptInSteps
    <3>. QED
      BY <2>1, <2>4, <3>1, <3>2, KeptOfTrace, AuditLogConstants DEF Selected
  <2>. QED
    BY <2>3, <2>4
<1>. QED
  BY <1>1, LogInvariant, PTL

(* However the file grows: what was once read back is the beginning of     *)
(* every later answer, and a log that cannot be read stays unreadable.     *)
THEOREM AnswersGrow == LogSpec => AnswersOnlyGrow
<1>. DEFINE Grows == \A t \in Selections :
                       IF readBack[t] = Unreadable
                       THEN readBack'[t] = Unreadable
                       ELSE readBack'[t] = Unreadable \/ IsPrefix(readBack[t], readBack'[t])
<1>1. LogInv /\ [LogNext]_logVars => [Grows]_logVars
  <2>. SUFFICES ASSUME LogInv, LogNext, NEW t \in Selections
                PROVE  IF readBack[t] = Unreadable
                       THEN readBack'[t] = Unreadable
                       ELSE readBack'[t] = Unreadable \/ IsPrefix(readBack[t], readBack'[t])
    OBVIOUS
  <2>. DEFINE k == readUpTo[t]
              before == SubSeq(Lines, 1, k)
  <2>1. /\ Lines \in Seq(LogLine) /\ Len(Lines) \in Nat /\ k \in Nat /\ k <= Len(Lines)
        /\ readBack[t] = Selected(before, t)
        /\ readBack[t] = Unreadable \/ readBack[t] \in Seq(AuditRecord)
        /\ DOMAIN readBack = Selections
    BY LinesType, AuditLogConstants DEF LogInv, LogTypeOK, ReadsAreSelections
  <2>2. CASE readBack'[t] = readBack[t]
    <3>1. ASSUME readBack[t] \in Seq(AuditRecord)
          PROVE  IsPrefix(readBack[t], readBack[t])
      <4>1. Len(readBack[t]) \in Nat
        BY <3>1, LenProperties
      <4>. QED
        BY <4>1 DEF IsPrefix
    <3>. QED
      BY <2>1, <2>2, <3>1
  <2>3. CASE readBack'[t] = Selected(Lines, t)
    <3>1. /\ \A i \in 1 .. Len(Lines) : Lines[i] \in LogLine
          /\ before \in Seq(LogLine) /\ Len(before) = k
          /\ \A i \in 1 .. k : before[i] = Lines[i]
      BY <2>1, ElementOfSeq, SubSeqProperties
    <3>2. Range(before) \subseteq Range(Lines)
      <4>1. Range(before) = {before[i] : i \in 1 .. k} /\ Range(Lines) = {Lines[i] : i \in 1 .. Len(Lines)}
        BY <2>1, <3>1, RangeEquality
      <4>. QED
        BY <2>1, <3>1, <4>1
    <3>3. CASE Torn \in Range(Lines)
      BY <2>3, <3>3 DEF Selected
    <3>4. CASE Torn \notin Range(Lines)
      <4>1. Lines \in Seq(Readable) /\ before \in Seq(Readable) /\ Torn \notin Range(before)
        BY <2>1, <3>1, <3>2, <3>4, WithoutTorn
      <4>2. IsPrefix(Kept(before, t), Kept(Lines, t))
        BY <2>1, <4>1, KeptGrows
      <4>3. Kept(before, t) \in Seq(AuditRecord)
        BY <4>1, KeptInSteps, LenProperties
      <4>. QED
        BY <2>1, <2>3, <3>4, <4>1, <4>2, <4>3, AuditLogConstants DEF Selected
    <3>. QED
      BY <3>3, <3>4
  <2>4. ASSUME NEW line \in LogLine, AppendLine(line)
        PROVE  readBack'[t] = readBack[t]
    BY <2>4 DEF AppendLine
  <2>5. ASSUME NEW u \in Selections, read(u)
        PROVE  readBack'[t] = readBack[t] \/ readBack'[t] = Selected(Lines, t)
    <3>1. readBack' = [readBack EXCEPT ![u] = Selected(Lines, u)]
      BY <2>5, ReadSelects
    <3>. QED
      BY <2>1, <3>1
  <2>. QED
    BY <2>2, <2>3, <2>4, <2>5 DEF LogNext
<1>. QED
  BY <1>1, LogInvariant, PTL DEF LogSpec, AnswersOnlyGrow
-----------------------------------------------------------------------------
(* HashingEmbedder                                                         *)

(* A sum of squares is a natural, and zero when all that is squared is.    *)
LEMMA NormOf ==
  ASSUME NEW sums \in [1 .. Dim -> Int]
  PROVE  Norm(sums) \in Nat /\ (Norm(sums) = 0 <=> \A d \in 1 .. Dim : sums[d] = 0)
<1>. DEFINE S == 1 .. Dim
            value == [d \in S |-> sums[d] * sums[d]]
            Sum(f) == f = [T \in SUBSET S |->
                            IF T = {} THEN 0
                            ELSE LET x == CHOOSE x \in T : TRUE IN sums[x] * sums[x] + f[T \ {x}]]
<1>1. ASSUME NEW d \in S
      PROVE  sums[d] * sums[d] \in Nat /\ (sums[d] * sums[d] = 0 <=> sums[d] = 0)
  <2>1. \A n \in Int : n * n \in Nat /\ (n * n = 0 <=> n = 0)
    BY Z3
  <2>2. sums[d] \in Int
    OBVIOUS
  <2>. QED
    BY <2>1, <2>2
<1>2. value \in [S -> Nat] /\ IsFiniteSet(S)
  <2>1. \A d \in S : value[d] \in Nat
    BY <1>1
  <2>2. Dim \in Int
    BY EmbedderConstants
  <2>3. IsFiniteSet(S)
    BY <2>2, FS_Interval
  <2>. QED
    BY <2>1, <2>3
<1>3. PICK f \in [SUBSET S -> Nat] : Sums(f, value, S)
  <2>. HIDE DEF S, value
  <2>. QED
    BY <1>2, SumExists
<1>4. Sum(f)
  <2>1. ASSUME NEW T \in SUBSET S
        PROVE  f[T] = IF T = {} THEN 0
                      ELSE LET x == CHOOSE x \in T : TRUE IN sums[x] * sums[x] + f[T \ {x}]
    <3>1. CASE T # {}
      <4>1. Some(T) \in S
        BY <1>2, <3>1, OneLess
      <4>2. f[T] = value[Some(T)] + f[T \ {Some(T)}]
        BY <1>3, <3>1 DEF Sums
      <4>. QED
        BY <3>1, <4>1, <4>2 DEF Some
    <3>2. CASE T = {}
      BY <1>3, <3>2 DEF Sums
    <3>. QED
      BY <3>1, <3>2
  <2>. QED
    BY <2>1
<1>5. PICK fold : Sum(fold) /\ fold = (CHOOSE g : Sum(g))
  <2>. HIDE DEF Sum
  <2>. QED
    BY <1>4
<1>6. Norm(sums) = fold[S]
  BY <1>5 DEF Norm, MapThenSumSet, MapThenFoldSet
<1>7. Sums(fold, value, S)
  <2>. SUFFICES ASSUME NEW T \in SUBSET S
                PROVE  fold[T] = IF T = {} THEN 0 ELSE value[Some(T)] + fold[T \ {Some(T)}]
    BY DEF Sums
  <2>1. CASE T # {}
    <3>1. Some(T) \in S
      BY <1>2, <2>1, OneLess
    <3>2. fold[T] = sums[Some(T)] * sums[Some(T)] + fold[T \ {Some(T)}]
      BY <1>5, <2>1 DEF Some
    <3>. QED
      BY <2>1, <3>1, <3>2
  <2>2. CASE T = {}
    BY <1>5, <2>2
  <2>. QED
    BY <2>1, <2>2
<1>8. fold[S] \in Nat /\ (fold[S] = 0 <=> \A d \in S : value[d] = 0)
  <2>. HIDE DEF S, value
  <2>. QED
    BY <1>2, <1>7, SumOfNaturals
<1>. QED
  BY <1>1, <1>6, <1>8

(* What the first k words of a text add up to in entry d.                  *)
Adding(text, k, d, sign) == {i \in 1 .. k : Hash[text[i]] = [entry |-> d, sign |-> sign]}
BalanceTo(text, k, d) ==
  Cardinality(Adding(text, k, d, 1)) - Cardinality(Adding(text, k, d, -1))

LEMMA WordsCounted ==
  ASSUME NEW text \in Seq(Words), NEW d \in 1 .. Dim
  PROVE  /\ BalanceTo(text, 0, d) = 0
         /\ BalanceTo(text, Len(text), d) = Balance(text, d)
<1>1. DOMAIN text = 1 .. Len(text)
  BY LenProperties
<1>2. BalanceTo(text, Len(text), d) = Balance(text, d)
  BY <1>1 DEF BalanceTo, Adding, Balance
<1>3. Adding(text, 0, d, 1) = {} /\ Adding(text, 0, d, -1) = {}
  BY DEF Adding
<1>4. BalanceTo(text, 0, d) = Cardinality({}) - Cardinality({})
  BY <1>3 DEF BalanceTo
<1>5. Cardinality({}) = 0
  BY FS_EmptySet
<1>6. BalanceTo(text, 0, d) = 0
  BY <1>4, <1>5
<1>. QED
  BY <1>2, <1>6

LEMMA OneMoreAdding ==
  ASSUME NEW text, NEW k \in Nat, NEW d, NEW sign
  PROVE  /\ Cardinality(Adding(text, k, d, sign)) \in Nat
         /\ Cardinality(Adding(text, k + 1, d, sign)) =
              IF Hash[text[k + 1]] = [entry |-> d, sign |-> sign]
              THEN Cardinality(Adding(text, k, d, sign)) + 1
              ELSE Cardinality(Adding(text, k, d, sign))
<1>. DEFINE now == Adding(text, k, d, sign)
            next == Adding(text, k + 1, d, sign)
            hit == Hash[text[k + 1]] = [entry |-> d, sign |-> sign]
<1>1. IsFiniteSet(1 .. k)
  BY FS_Interval
<1>2. IsFiniteSet(now)
  <2>1. now \in SUBSET (1 .. k)
    BY DEF Adding
  <2>. QED
    BY <1>1, <2>1, FS_Subset
<1>3. Cardinality(now) \in Nat
  BY <1>2, FS_CardinalityType
<1>4. k + 1 \notin now
  BY DEF Adding
<1>5. 1 .. k + 1 = (1 .. k) \cup {k + 1}
  OBVIOUS
<1>6. next = IF hit THEN now \cup {k + 1} ELSE now
  BY <1>5 DEF Adding
<1>7. Cardinality(now \cup {k + 1}) =
        IF k + 1 \in now THEN Cardinality(now) ELSE Cardinality(now) + 1
  BY <1>2, FS_AddElement, Zenon
<1>. HIDE DEF now, next, hit
<1>8. Cardinality(next) = IF hit THEN Cardinality(now) + 1 ELSE Cardinality(now)
  BY <1>4, <1>6, <1>7
<1>. QED
  BY <1>3, <1>8 DEF now, next, hit

(* A word adds its sign to its entry, and nothing to the others.           *)
LEMMA OneMoreWord ==
  ASSUME NEW text \in Seq(Words), NEW k \in Nat, k < Len(text), NEW d \in 1 .. Dim
  PROVE  /\ BalanceTo(text, k, d) \in Int
         /\ Hash[text[k + 1]].entry \in 1 .. Dim /\ Hash[text[k + 1]].sign \in {1, -1}
         /\ BalanceTo(text, k + 1, d) =
              IF Hash[text[k + 1]].entry = d
              THEN BalanceTo(text, k, d) + Hash[text[k + 1]].sign
              ELSE BalanceTo(text, k, d)
<1>. DEFINE h == Hash[text[k + 1]]
<1>1. h \in [entry : 1 .. Dim, sign : {1, -1}]
  <2>1. k + 1 \in 1 .. Len(text)
    BY LenProperties
  <2>2. text[k + 1] \in Words
    BY <2>1, ElementOfSeq
  <2>. QED
    BY <2>2, EmbedderConstants
<1>2. \A sign : h = [entry |-> d, sign |-> sign] <=> h.entry = d /\ h.sign = sign
  BY <1>1
<1>3. \A sign \in {1, -1} :
        /\ Cardinality(Adding(text, k, d, sign)) \in Nat
        /\ Cardinality(Adding(text, k + 1, d, sign)) =
             IF h = [entry |-> d, sign |-> sign]
             THEN Cardinality(Adding(text, k, d, sign)) + 1
             ELSE Cardinality(Adding(text, k, d, sign))
  BY OneMoreAdding
<1>4. h.entry \in 1 .. Dim /\ h.sign \in {1, -1}
  BY <1>1
<1>. HIDE DEF h
<1>5. BalanceTo(text, k, d) \in Int
  BY <1>3 DEF BalanceTo
<1>6. BalanceTo(text, k + 1, d) =
        IF h.entry = d THEN BalanceTo(text, k, d) + h.sign ELSE BalanceTo(text, k, d)
  <2>1. /\ Cardinality(Adding(text, k, d, 1)) \in Nat
        /\ Cardinality(Adding(text, k + 1, d, 1)) =
             IF h.entry = d /\ h.sign = 1 THEN Cardinality(Adding(text, k, d, 1)) + 1
             ELSE Cardinality(Adding(text, k, d, 1))
    BY <1>2, <1>3
  <2>2. /\ Cardinality(Adding(text, k, d, -1)) \in Nat
        /\ Cardinality(Adding(text, k + 1, d, -1)) =
             IF h.entry = d /\ h.sign = -1 THEN Cardinality(Adding(text, k, d, -1)) + 1
             ELSE Cardinality(Adding(text, k, d, -1))
    BY <1>2, <1>3
  <2>. QED
    BY <1>4, <2>1, <2>2 DEF BalanceTo
<1>. QED
  BY <1>4, <1>5, <1>6 DEF h

(* The row at hand is what its first words add up to; no row after it has  *)
(* been touched, and none from it on has been divided.                     *)
RowAtHand ==
  row <= Len(chunks) =>
    \A d \in 1 .. Dim : matrix[row].sums[d] = BalanceTo(chunks[row], wordsIn, d)
RowsToCome ==
  /\ \A r \in row .. Len(chunks) : matrix[r].dividedBy = 1
  /\ \A r \in row + 1 .. Len(chunks) : \A d \in 1 .. Dim : matrix[r].sums[d] = 0

IndexInv ==
  IndexTypeOK /\ RowAtHand /\ RowsToCome /\ RowsStandAlone /\ RowsAreUnitOrZero

LEMMA ChunkFacts ==
  ASSUME NEW texts \in ChunkLists
  PROVE  /\ texts \in Seq(Seq(Words)) /\ Len(texts) \in Nat /\ DOMAIN texts = 1 .. Len(texts)
         /\ \A r \in 1 .. Len(texts) : texts[r] \in Seq(Words) /\ Len(texts[r]) \in Nat
<1>1. texts \in Seq(Seq(Words))
  BY EmbedderConstants
<1>2. Len(texts) \in Nat /\ DOMAIN texts = 1 .. Len(texts)
  BY <1>1, LenProperties
<1>3. \A r \in 1 .. Len(texts) : texts[r] \in Seq(Words)
  BY <1>1, ElementOfSeq
<1>. QED
  BY <1>1, <1>2, <1>3, LenProperties

LEMMA IndexFacts ==
  ASSUME IndexTypeOK
  PROVE  /\ chunks \in ChunkLists /\ Len(chunks) \in Nat /\ row \in Nat /\ row > 0
         /\ \A r \in 1 .. Len(chunks) : chunks[r] \in Seq(Words) /\ Len(chunks[r]) \in Nat
         /\ matrix \in Seq(Row) /\ Len(matrix) = Len(chunks) /\ DOMAIN matrix = 1 .. Len(chunks)
         /\ \A r \in 1 .. Len(chunks) :
              /\ matrix[r] = [sums |-> matrix[r].sums, dividedBy |-> matrix[r].dividedBy]
              /\ matrix[r].sums \in [1 .. Dim -> Int] /\ matrix[r].dividedBy \in Nat
<1>1. /\ chunks \in ChunkLists /\ Len(chunks) \in Nat
      /\ \A r \in 1 .. Len(chunks) : chunks[r] \in Seq(Words) /\ Len(chunks[r]) \in Nat
  BY ChunkFacts DEF IndexTypeOK
<1>2. row \in Nat /\ row > 0 /\ matrix \in Seq(Row) /\ Len(matrix) = Len(chunks)
  BY <1>1 DEF IndexTypeOK
<1>3. DOMAIN matrix = 1 .. Len(chunks) /\ \A r \in 1 .. Len(chunks) : matrix[r] \in Row
  BY <1>2, LenProperties, ElementOfSeq
<1>4. \A v \in Row : /\ v = [sums |-> v.sums, dividedBy |-> v.dividedBy]
                     /\ v.sums \in [1 .. Dim -> Int] /\ v.dividedBy \in Nat
  BY DEF Row
<1>. QED
  BY <1>1, <1>2, <1>3, <1>4

(* A new index: every row is zero, and the first one is at hand.           *)
LEMMA StartKeepsInv ==
  ASSUME NEW texts \in ChunkLists,
         chunks' = texts, row' = 1, wordsIn' = 0, matrix' = [r \in DOMAIN texts |-> Zeros]
  PROVE  IndexInv'
<1>1. /\ texts \in Seq(Seq(Words)) /\ Len(texts) \in Nat /\ DOMAIN texts = 1 .. Len(texts)
      /\ \A r \in 1 .. Len(texts) : texts[r] \in Seq(Words) /\ Len(texts[r]) \in Nat
  BY ChunkFacts
<1>2. Zeros \in Row /\ Zeros.dividedBy = 1 /\ \A d \in 1 .. Dim : Zeros.sums[d] = 0
  BY DEF Zeros, Row
<1>3. \A r \in 1 .. Len(texts) : matrix'[r] = Zeros
  BY <1>1
<1>4. IndexTypeOK'
  <2>1. matrix' \in [1 .. Len(texts) -> Row]
    BY <1>1, <1>2
  <2>2. matrix' \in Seq(Row) /\ Len(matrix') = Len(texts)
    BY <1>1, <2>1, FunctionIsSeq
  <2>3. 1 \in 1 .. Len(texts) + 1 /\ (1 <= Len(texts) => 0 \in 0 .. Len(texts[1]))
    BY <1>1
  <2>. QED
    BY <2>2, <2>3 DEF IndexTypeOK
<1>5. RowAtHand'
  <2>. SUFFICES ASSUME 1 <= Len(texts), NEW d \in 1 .. Dim
                PROVE  matrix'[1].sums[d] = BalanceTo(texts[1], 0, d)
    BY DEF RowAtHand
  <2>1. texts[1] \in Seq(Words) /\ matrix'[1] = Zeros
    BY <1>1, <1>3
  <2>2. BalanceTo(texts[1], 0, d) = 0
    BY <2>1, WordsCounted
  <2>. QED
    BY <1>2, <2>1, <2>2
<1>6. RowsToCome'
  <2>. SUFFICES /\ \A r \in 1 .. Len(texts) : matrix'[r].dividedBy = 1
                /\ \A r \in 1 + 1 .. Len(texts) : \A d \in 1 .. Dim : matrix'[r].sums[d] = 0
    BY DEF RowsToCome
  <2>. QED
    BY <1>1, <1>2, <1>3
<1>7. RowsStandAlone' /\ RowsAreUnitOrZero'
  BY DEF RowsStandAlone, RowsAreUnitOrZero
<1>. QED
  BY <1>4, <1>5, <1>6, <1>7 DEF IndexInv

LEMMA IndexInitially == IndexInit => IndexInv
<1>. SUFFICES ASSUME IndexInit
              PROVE  IndexInv
  OBVIOUS
<1>1. chunks = <<>> /\ row = 1 /\ wordsIn = 0 /\ matrix = <<>> /\ Len(<<>>) = 0
  BY EmptySeq DEF IndexInit
<1>2. IndexTypeOK
  BY <1>1, EmbedderConstants, EmptySeq DEF IndexTypeOK
<1>. QED
  BY <1>1, <1>2 DEF IndexInv, RowAtHand, RowsToCome, RowsStandAlone, RowsAreUnitOrZero

LEMMA AddWordKeepsInv ==
  ASSUME IndexInv, AddWord
  PROVE  IndexInv'
<1>. DEFINE h == Hash[chunks[row][wordsIn + 1]]
<1>1. /\ chunks \in ChunkLists /\ Len(chunks) \in Nat /\ row \in Nat /\ row > 0
      /\ matrix \in Seq(Row) /\ Len(matrix) = Len(chunks) /\ DOMAIN matrix = 1 .. Len(chunks)
      /\ \A r \in 1 .. Len(chunks) :
           /\ chunks[r] \in Seq(Words) /\ Len(chunks[r]) \in Nat
           /\ matrix[r] = [sums |-> matrix[r].sums, dividedBy |-> matrix[r].dividedBy]
           /\ matrix[r].sums \in [1 .. Dim -> Int] /\ matrix[r].dividedBy \in Nat
  BY IndexFacts DEF IndexInv
<1>2. /\ row <= Len(chunks) /\ wordsIn < Len(chunks[row])
      /\ matrix' = [matrix EXCEPT ![row].sums[h.entry] = @ + h.sign]
      /\ wordsIn' = wordsIn + 1 /\ chunks' = chunks /\ row' = row
  BY <1>1 DEF AddWord, Built, NextWord
<1>3. row \in 1 .. Len(chunks) /\ wordsIn \in Nat /\ chunks[row] \in Seq(Words)
  BY <1>1, <1>2 DEF IndexInv, IndexTypeOK
<1>4. h.entry \in 1 .. Dim /\ h.sign \in Int
  <2>1. 1 \in 1 .. Dim
    BY EmbedderConstants
  <2>. QED
    BY <1>2, <1>3, <2>1, OneMoreWord
<1>. HIDE DEF h
<1>5. /\ matrix'[row] = [sums |-> [matrix[row].sums EXCEPT ![h.entry] = @ + h.sign],
                         dividedBy |-> matrix[row].dividedBy]
      /\ DOMAIN matrix' = 1 .. Len(chunks)
      /\ \A r \in 1 .. Len(chunks) : r # row => matrix'[r] = matrix[r]
  <2>. DEFINE new == [matrix[row].sums EXCEPT ![h.entry] = @ + h.sign]
  <2>1. matrix' = [matrix EXCEPT ![row] = [matrix[row] EXCEPT !.sums = new]]
    BY <1>2
  <2>2. matrix[row] = [sums |-> matrix[row].sums, dividedBy |-> matrix[row].dividedBy]
    BY <1>1, <1>3
  <2>. HIDE DEF new
  <2>3. [matrix[row] EXCEPT !.sums = new] = [sums |-> new, dividedBy |-> matrix[row].dividedBy]
    BY <2>2
  <2>4. matrix'[row] = [sums |-> new, dividedBy |-> matrix[row].dividedBy]
    BY <1>1, <1>3, <2>1, <2>3
  <2>5. /\ DOMAIN matrix' = 1 .. Len(chunks)
        /\ \A r \in 1 .. Len(chunks) : r # row => matrix'[r] = matrix[r]
    BY <1>1, <2>1
  <2>. QED
    BY <2>4, <2>5 DEF new
<1>6. /\ matrix'[row].sums \in [1 .. Dim -> Int] /\ matrix'[row].dividedBy = matrix[row].dividedBy
      /\ \A d \in 1 .. Dim : matrix'[row].sums[d] =
           IF h.entry = d THEN matrix[row].sums[d] + h.sign ELSE matrix[row].sums[d]
  <2>1. matrix[row].sums \in [1 .. Dim -> Int]
    BY <1>1, <1>3
  <2>2. matrix'[row].sums = [matrix[row].sums EXCEPT ![h.entry] = @ + h.sign]
        /\ matrix'[row].dividedBy = matrix[row].dividedBy
    BY <1>5
  <2>3. \A d \in 1 .. Dim : matrix[row].sums[d] \in Int /\ matrix[row].sums[d] + h.sign \in Int
    <3>1. \A d \in 1 .. Dim : matrix[row].sums[d] \in Int
      BY <2>1
    <3>2. \A n \in Int : n + h.sign \in Int
      BY <1>4
    <3>. QED
      BY <3>1, <3>2
  <2>4. matrix'[row].sums =
          [d \in 1 .. Dim |-> IF h.entry = d THEN matrix[row].sums[d] + h.sign ELSE matrix[row].sums[d]]
    BY <1>4, <2>1, <2>2
  <2>. QED
    BY <2>2, <2>3, <2>4
<1>7. IndexTypeOK'
  <2>1. matrix'[row] \in Row
    BY <1>1, <1>3, <1>5, <1>6 DEF Row
  <2>2. \A r \in 1 .. Len(chunks) : matrix'[r] \in Row
    BY <1>1, <1>5, <2>1, ElementOfSeq
  <2>3. matrix' = [r \in 1 .. Len(chunks) |-> matrix'[r]]
    BY <1>1, <1>2
  <2>4. matrix' \in [1 .. Len(chunks) -> Row]
    BY <2>2, <2>3
  <2>5. matrix' \in Seq(Row) /\ Len(matrix') = Len(chunks)
    BY <1>1, <2>4, FunctionIsSeq
  <2>6. wordsIn' \in 0 .. Len(chunks[row])
    BY <1>1, <1>2, <1>3
  <2>. QED
    BY <1>1, <1>2, <1>3, <2>5, <2>6 DEF IndexTypeOK
<1>8. RowAtHand'
  <2>. SUFFICES ASSUME NEW d \in 1 .. Dim
                PROVE  matrix'[row].sums[d] = BalanceTo(chunks[row], wordsIn + 1, d)
    BY <1>2 DEF RowAtHand
  <2>1. matrix[row].sums[d] = BalanceTo(chunks[row], wordsIn, d)
    BY <1>2 DEF IndexInv, RowAtHand
  <2>2. BalanceTo(chunks[row], wordsIn + 1, d) =
          IF h.entry = d THEN BalanceTo(chunks[row], wordsIn, d) + h.sign
          ELSE BalanceTo(chunks[row], wordsIn, d)
    BY <1>2, <1>3, OneMoreWord DEF h
  <2>. QED
    BY <1>6, <2>1, <2>2
<1>9. RowsToCome'
  <2>. SUFFICES /\ \A r \in row .. Len(chunks) : matrix'[r].dividedBy = 1
                /\ \A r \in row + 1 .. Len(chunks) : \A d \in 1 .. Dim : matrix'[r].sums[d] = 0
    BY <1>2 DEF RowsToCome
  <2>1. /\ \A r \in row .. Len(chunks) : matrix[r].dividedBy = 1
        /\ \A r \in row + 1 .. Len(chunks) : \A d \in 1 .. Dim : matrix[r].sums[d] = 0
    BY DEF IndexInv, RowsToCome
  <2>2. \A r \in row + 1 .. Len(chunks) : r \in 1 .. Len(chunks) /\ r # row /\ matrix'[r] = matrix[r]
    BY <1>1, <1>5
  <2>3. \A r \in row .. Len(chunks) : r = row \/ matrix'[r] = matrix[r]
    BY <1>1, <1>5
  <2>4. \A r \in row .. Len(chunks) : matrix'[r].dividedBy = 1
    BY <1>3, <1>6, <2>1, <2>3
  <2>. QED
    BY <2>1, <2>2, <2>4
<1>10. \A r \in 1 .. row - 1 : matrix'[r] = matrix[r]
  BY <1>1, <1>3, <1>5
<1>11. RowsStandAlone' /\ RowsAreUnitOrZero'
  <2>1. RowsStandAlone'
    BY <1>2, <1>10 DEF IndexInv, RowsStandAlone
  <2>2. RowsAreUnitOrZero'
    BY <1>2, <1>10 DEF IndexInv, RowsAreUnitOrZero
  <2>. QED
    BY <2>1, <2>2
<1>. QED
  BY <1>7, <1>8, <1>9, <1>11 DEF IndexInv

LEMMA NormalizeKeepsInv ==
  ASSUME IndexInv, Normalize
  PROVE  IndexInv'
<1>. DEFINE norm == Norm(matrix[row].sums)
<1>1. /\ chunks \in ChunkLists /\ Len(chunks) \in Nat /\ row \in Nat /\ row > 0
      /\ matrix \in Seq(Row) /\ Len(matrix) = Len(chunks) /\ DOMAIN matrix = 1 .. Len(chunks)
      /\ \A r \in 1 .. Len(chunks) :
           /\ chunks[r] \in Seq(Words) /\ Len(chunks[r]) \in Nat
           /\ matrix[r] = [sums |-> matrix[r].sums, dividedBy |-> matrix[r].dividedBy]
           /\ matrix[r].sums \in [1 .. Dim -> Int] /\ matrix[r].dividedBy \in Nat
  BY IndexFacts DEF IndexInv
<1>2. /\ row <= Len(chunks) /\ ~ (wordsIn < Len(chunks[row]))
      /\ matrix' = IF norm > 0 THEN [matrix EXCEPT ![row].dividedBy = norm] ELSE matrix
      /\ row' = row + 1 /\ wordsIn' = 0 /\ chunks' = chunks
  BY <1>1 DEF Normalize, Built, NextWord
<1>3. row \in 1 .. Len(chunks) /\ wordsIn = Len(chunks[row]) /\ chunks[row] \in Seq(Words)
  BY <1>1, <1>2 DEF IndexInv, IndexTypeOK
<1>4. norm \in Nat /\ (norm = 0 <=> \A d \in 1 .. Dim : matrix[row].sums[d] = 0)
  BY <1>1, <1>3, NormOf
<1>5. \A d \in 1 .. Dim : matrix[row].sums[d] = Balance(chunks[row], d)
  <2>. SUFFICES ASSUME NEW d \in 1 .. Dim
                PROVE  matrix[row].sums[d] = Balance(chunks[row], d)
    OBVIOUS
  <2>1. matrix[row].sums[d] = BalanceTo(chunks[row], Len(chunks[row]), d)
    BY <1>2, <1>3 DEF IndexInv, RowAtHand
  <2>. QED
    BY <1>3, <2>1, WordsCounted
<1>. HIDE DEF norm
<1>6. /\ DOMAIN matrix' = 1 .. Len(chunks)
      /\ \A r \in 1 .. Len(chunks) : r # row => matrix'[r] = matrix[r]
      /\ matrix'[row] = [sums |-> matrix[row].sums,
                         dividedBy |-> IF norm > 0 THEN norm ELSE matrix[row].dividedBy]
  BY <1>1, <1>2, <1>3
<1>7. /\ matrix'[row].sums = matrix[row].sums
      /\ matrix'[row].dividedBy = IF norm > 0 THEN norm ELSE matrix[row].dividedBy
  BY <1>6
<1>8. IndexTypeOK'
  <2>1. matrix'[row] \in Row
    BY <1>1, <1>3, <1>4, <1>6 DEF Row
  <2>2. \A r \in 1 .. Len(chunks) : matrix'[r] \in Row
    BY <1>1, <1>6, <2>1, ElementOfSeq
  <2>3. matrix' = [r \in 1 .. Len(chunks) |-> matrix'[r]]
    <3>1. CASE norm > 0
      BY <1>1, <1>2, <3>1
    <3>2. CASE ~ (norm > 0)
      <4>1. matrix' = matrix /\ matrix \in [1 .. Len(chunks) -> Row]
        BY <1>1, <1>2, <3>2, LenProperties
      <4>. QED
        BY <4>1
    <3>. QED
      BY <3>1, <3>2
  <2>4. matrix' \in [1 .. Len(chunks) -> Row]
    BY <2>2, <2>3
  <2>5. matrix' \in Seq(Row) /\ Len(matrix') = Len(chunks)
    BY <1>1, <2>4, FunctionIsSeq
  <2>6. row' <= Len(chunks) => 0 \in 0 .. Len(chunks[row'])
    BY <1>1, <1>2
  <2>. QED
    BY <1>1, <1>2, <1>3, <2>5, <2>6 DEF IndexTypeOK
<1>9. RowAtHand'
  <2>. SUFFICES ASSUME row + 1 <= Len(chunks), NEW d \in 1 .. Dim
                PROVE  matrix'[row + 1].sums[d] = BalanceTo(chunks[row + 1], 0, d)
    BY <1>2 DEF RowAtHand
  <2>1. row + 1 \in row + 1 .. Len(chunks) /\ row + 1 \in 1 .. Len(chunks) /\ row + 1 # row
    BY <1>1
  <2>2. matrix'[row + 1].sums[d] = 0
    BY <1>6, <2>1 DEF IndexInv, RowsToCome
  <2>3. chunks[row + 1] \in Seq(Words)
    BY <1>1, <2>1
  <2>. QED
    BY <2>2, <2>3, WordsCounted
<1>10. RowsToCome'
  <2>. SUFFICES /\ \A r \in row + 1 .. Len(chunks) : matrix'[r].dividedBy = 1
                /\ \A r \in row + 1 + 1 .. Len(chunks) : \A d \in 1 .. Dim : matrix'[r].sums[d] = 0
    BY <1>2 DEF RowsToCome
  <2>1. \A r \in row + 1 .. Len(chunks) : r \in row .. Len(chunks) /\ matrix'[r] = matrix[r]
    BY <1>1, <1>6
  <2>2. \A r \in row + 1 + 1 .. Len(chunks) : r \in row + 1 .. Len(chunks)
    BY <1>1
  <2>. QED
    BY <2>1, <2>2 DEF IndexInv, RowsToCome
<1>11. \A r \in 1 .. row' - 1 : r = row \/ (r \in 1 .. row - 1 /\ matrix'[r] = matrix[r])
  BY <1>1, <1>2, <1>6
<1>12. RowsStandAlone'
  <2>. SUFFICES ASSUME NEW r \in 1 .. row' - 1, NEW d \in 1 .. Dim
                PROVE  matrix'[r].sums[d] = Balance(chunks[r], d)
    BY <1>2 DEF RowsStandAlone, Balance
  <2>1. CASE r = row
    BY <1>5, <1>7, <2>1
  <2>2. CASE r \in 1 .. row - 1 /\ matrix'[r] = matrix[r]
    BY <2>2 DEF IndexInv, RowsStandAlone
  <2>. QED
    BY <1>11, <2>1, <2>2
<1>13. RowsAreUnitOrZero'
  <2>. SUFFICES ASSUME NEW r \in 1 .. row' - 1
                PROVE  IF \A d \in 1 .. Dim : Balance(chunks[r], d) = 0
                       THEN matrix'[r] = Zeros
                       ELSE matrix'[r].dividedBy = Norm(matrix'[r].sums) /\ matrix'[r].dividedBy > 0
    BY <1>2 DEF RowsAreUnitOrZero
  <2>1. CASE r = row
    <3>1. CASE norm = 0
      <4>1. matrix[row].dividedBy = 1
        BY <1>1, <1>3 DEF IndexInv, RowsToCome
      <4>2. matrix'[row] = [sums |-> matrix[row].sums, dividedBy |-> 1]
        BY <1>6, <3>1, <4>1
      <4>3. matrix[row].sums = [d \in 1 .. Dim |-> 0]
        BY <1>1, <1>3, <1>4, <3>1
      <4>. QED
        BY <1>4, <1>5, <2>1, <3>1, <4>2, <4>3 DEF Zeros
    <3>2. CASE norm # 0
      <4>1. norm > 0
        BY <1>4, <3>2
      <4>2. ~ \A d \in 1 .. Dim : Balance(chunks[row], d) = 0
        BY <1>4, <1>5, <3>2
      <4>3. matrix'[row].dividedBy = norm /\ norm = Norm(matrix'[row].sums)
        BY <1>7, <4>1 DEF norm
      <4>. QED
        BY <2>1, <4>1, <4>2, <4>3
    <3>. QED
      BY <3>1, <3>2
  <2>2. CASE r \in 1 .. row - 1 /\ matrix'[r] = matrix[r]
    BY <2>2 DEF IndexInv, RowsAreUnitOrZero
  <2>. QED
    BY <1>11, <2>1, <2>2
<1>. QED
  BY <1>8, <1>9, <1>10, <1>12, <1>13 DEF IndexInv

LEMMA IndexInductive == IndexInv /\ [IndexNext]_indexVars => IndexInv'
<1>. SUFFICES ASSUME IndexInv, [IndexNext]_indexVars
              PROVE  IndexInv'
  OBVIOUS
<1>1. CASE AddWord
  BY <1>1, AddWordKeepsInv
<1>2. CASE Normalize
  BY <1>2, NormalizeKeepsInv
<1>3. ASSUME NEW texts \in ChunkLists, DenseIndex(texts) PROVE IndexInv'
  BY <1>3, StartKeepsInv DEF DenseIndex
<1>4. CASE UNCHANGED indexVars
  <2>1. chunks' = chunks /\ row' = row /\ wordsIn' = wordsIn /\ matrix' = matrix
    BY <1>4 DEF indexVars
  <2>2. IndexTypeOK' /\ RowAtHand' /\ RowsToCome'
    BY <2>1 DEF IndexInv, IndexTypeOK, RowAtHand, RowsToCome
  <2>3. RowsStandAlone' /\ RowsAreUnitOrZero'
    BY <2>1 DEF IndexInv, RowsStandAlone, RowsAreUnitOrZero
  <2>. QED
    BY <2>2, <2>3 DEF IndexInv
<1>. QED
  BY <1>1, <1>2, <1>3, <1>4 DEF IndexNext, Embed

LEMMA IndexInvariant == IndexSpec => []IndexInv
BY IndexInitially, IndexInductive, PTL DEF IndexSpec

(* For every hash, size of a row and index built before: a finished row is *)
(* about its own text only, and not about the order of its words.          *)
THEOREM RowsAlwaysStandAlone == IndexSpec => []RowsStandAlone
<1>1. IndexInv => RowsStandAlone
  BY DEF IndexInv
<1>. QED
  BY <1>1, IndexInvariant, PTL

(* A finished row has been divided by its length, or is zero and has not.  *)
THEOREM RowsAreNormal == IndexSpec => []RowsAreUnitOrZero
<1>1. IndexInv => RowsAreUnitOrZero
  BY DEF IndexInv
<1>. QED
  BY <1>1, IndexInvariant, PTL
=============================================================================
