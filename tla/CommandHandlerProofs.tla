------------------------ MODULE CommandHandlerProofs ------------------------
(***************************************************************************)
(* Proofs about the commands, for any nodes, paths and semantic types, for *)
(* any number of capabilities a device may have and of requests under way. *)
(***************************************************************************)
EXTENDS CommandHandler, FiniteSetTheorems, TLAPS

USE CommandAssumption, NothingAssumption

----------------------------------------------------------------------------
(* Commands and their outcomes.                                            *)

(* After a command there is one outcome, its own.                          *)
LEMMA EndsFacts ==
    ASSUME NEW c \in Commands, NEW code \in Codes, Ends(c, code)
    PROVE  /\ handling' \in Result
           /\ handling'.command = c
           /\ handling'.code = code
           /\ answer' = Nothing
           /\ Outcomes' = {handling'}
<1>1. handling' \in Result
  BY Zenon DEF Ends, Result
<1>2. answer' \notin Result
  BY DEF Ends
<1>3. Outcomes' = {handling'}
  BY <1>1, <1>2 DEF Outcomes
<1>. QED BY <1>1, <1>3 DEF Ends

(* A command whose success establishes what it promises.                   *)
LEMMA EndsOk ==
    ASSUME NEW c \in Commands, NEW code \in Codes, Ends(c, code),
           code = "OK" => Holds(c)'
    PROVE  OkIsDone'
  BY EndsFacts DEF OkIsDone, Holds, Registered, WithSemantic

(* What there is to be said of outcomes stays true while there are no new  *)
(* ones, and the registry and the controller stay as they are.             *)
LEMMA SameOutcomes ==
    ASSUME OkIsDone, Outcomes' \subseteq Outcomes,
           UNCHANGED <<registry, controllerVars>>
    PROVE  OkIsDone'
  BY DEF OkIsDone, Holds, Registered, WithSemantic, controllerVars

----------------------------------------------------------------------------
(* Requests and reports.                                                   *)

(* Marking a request changes its mark only.                                *)
LEMMA MarkFacts ==
    ASSUME NEW r \in Request, NEW n
    PROVE  /\ Mark(r, n) \in Request
           /\ r.node = n => Mark(r, n).touched
           /\ r.node # n => Mark(r, n) = r
  BY DEF Mark, Request

(* The record of one device is written: requests and reports of others     *)
(* still match, and those of this one are marked.                          *)
LEMMA TouchFacts ==
    ASSUME TypeOK, RequestsMatch, ReportsAreLabelled, NEW n, Touch(n),
           \A m \in DOMAIN registry \ {n} :
              m \in DOMAIN registry' /\ registry'[m] = registry[m]
    PROVE  /\ inflight' \subseteq Request
           /\ chip' \in Report \cup {Nothing}
           /\ RequestsMatch'
           /\ ReportsAreLabelled'
<1>1. \A r \in inflight' :
         /\ r \in Request
         /\ ~r.touched => r \in inflight /\ r.node # n
  BY MarkFacts DEF TypeOK, Touch
<1>2. RequestsMatch'
  <2>. SUFFICES ASSUME NEW r \in inflight', ~r.touched, r.asked \in Readable
                PROVE  /\ Registered(r.node)'
                       /\ \E i \in OnPath(r.node, r.path)' :
                             registry'[r.node][i].semantic = r.asked
    BY DEF RequestsMatch, Registered, OnPath
  <2>1. r \in inflight /\ r.node # n
    BY <1>1
  <2>2. /\ Registered(r.node)
        /\ \E i \in OnPath(r.node, r.path) : registry[r.node][i].semantic = r.asked
    BY <2>1 DEF RequestsMatch
  <2>3. r.node \in DOMAIN registry' /\ registry'[r.node] = registry[r.node]
    BY <2>1, <2>2 DEF Registered
  <2>. QED BY <2>2, <2>3 DEF Registered, OnPath
<1>3. CASE chip = Nothing
  BY <1>1, <1>2, <1>3 DEF Touch, ReportsAreLabelled
<1>4. CASE chip # Nothing
  <2>1. chip \in Report /\ chip' = [chip EXCEPT !.of = Mark(chip.of, n)]
    BY <1>4 DEF TypeOK, Touch
  <2>2. chip.of \in Request
    BY <2>1 DEF Report
  <2>3. chip' \in Report /\ chip'.of = Mark(chip.of, n) /\ chip'.label = chip.label
    BY <2>1, <2>2, MarkFacts DEF Report
  <2>4. ReportsAreLabelled'
    <3>. SUFFICES ASSUME ~chip'.of.touched, chip'.label # Nothing,
                         chip'.of.asked \in Readable
                  PROVE  ReportsAreLabelled'
      BY DEF ReportsAreLabelled
    <3>1. chip.of.node # n /\ chip'.of = chip.of
      BY <2>2, <2>3, MarkFacts
    <3>2. /\ Registered(chip.of.node)
          /\ \E i \in OnPath(chip.of.node, chip.of.path) :
                /\ registry[chip.of.node][i].semantic = chip.of.asked
                /\ chip.label = chip.of.asked \/ Shadowed(chip.of, i)
      BY <1>4, <2>3, <3>1 DEF ReportsAreLabelled
    <3>3. /\ chip.of.node \in DOMAIN registry'
          /\ registry'[chip.of.node] = registry[chip.of.node]
      BY <3>1, <3>2 DEF Registered
    <3>. QED BY <2>3, <3>1, <3>2, <3>3
             DEF ReportsAreLabelled, Registered, OnPath, Shadowed
  <2>. QED BY <1>1, <1>2, <2>3, <2>4
<1>. QED BY <1>3, <1>4

(* Nothing is written: what is under way still matches.                    *)
LEMMA SameRequests ==
    ASSUME TypeOK, RequestsMatch, UNCHANGED registry, inflight' \subseteq inflight
    PROVE  inflight' \subseteq Request /\ RequestsMatch'
  BY DEF TypeOK, RequestsMatch, Registered, OnPath

LEMMA SameReport ==
    ASSUME ReportsAreLabelled, UNCHANGED <<registry, chip>>
    PROVE  ReportsAreLabelled'
  BY DEF ReportsAreLabelled, Registered, OnPath, Shadowed

----------------------------------------------------------------------------
(* Commands.                                                               *)

(* A failed command.                                                       *)
LEMMA FailsStep ==
    ASSUME Inv, NEW c \in Commands, NEW codes \in SUBSET (Codes \ {"OK"}), Fails(c, codes)
    PROVE  Inv'
<1>1. PICK code \in codes : Ends(c, code)
  BY DEF Fails
<1>2. code \in Codes /\ code # "OK"
  OBVIOUS
<1>3. UNCHANGED <<registry, callbacks, initialized, inflight, chip>>
  BY DEF Fails, controllerVars, matterVars
<1>4. OkIsDone'
  BY <1>1, <1>2, <1>3, EndsOk
<1>5. RequestsMatch' /\ ReportsAreLabelled'
  BY <1>3, SameRequests, SameReport DEF Inv
<1>6. TypeOK'
  BY <1>1, <1>2, <1>3, EndsFacts DEF Inv, TypeOK
<1>. QED BY <1>4, <1>5, <1>6 DEF Inv

(* A command that succeeds and changes nothing.                            *)
LEMMA SucceedsStep ==
    ASSUME Inv, NEW c \in Commands, Ends(c, "OK"), Holds(c),
           UNCHANGED <<registry, controllerVars, matterVars>>
    PROVE  Inv'
<1>1. UNCHANGED <<registry, callbacks, initialized, inflight, chip>> /\ "OK" \in Codes
  BY DEF controllerVars, matterVars, Codes
<1>2. Holds(c)'
  BY <1>1 DEF Holds, Registered, WithSemantic
<1>3. OkIsDone'
  BY <1>1, <1>2, EndsOk
<1>4. RequestsMatch' /\ ReportsAreLabelled'
  BY <1>1, SameRequests, SameReport DEF Inv
<1>5. TypeOK'
  BY <1>1, EndsFacts DEF Inv, TypeOK
<1>. QED BY <1>3, <1>4, <1>5 DEF Inv

(* A command that writes the record of its device.                         *)
LEMMA WritesStep ==
    ASSUME Inv, NEW c \in Commands, NEW code \in {"OK", "FAIL"}, Ends(c, code),
           Touch(c.node), UNCHANGED controllerVars,
           DOMAIN registry' \subseteq Nodes,
           \A n \in DOMAIN registry' :
              registry'[n] \in Seq(Capability) /\ Len(registry'[n]) <= MaxCaps,
           \A m \in DOMAIN registry \ {c.node} :
              m \in DOMAIN registry' /\ registry'[m] = registry[m],
           Holds(c)'
    PROVE  Inv'
<1>1. code \in Codes
  BY DEF Codes
<1>2. OkIsDone'
  BY <1>1, EndsOk
<1>3. /\ inflight' \subseteq Request
      /\ chip' \in Report \cup {Nothing}
      /\ RequestsMatch' /\ ReportsAreLabelled'
  BY TouchFacts DEF Inv
<1>4. TypeOK'
  BY <1>1, <1>3, EndsFacts DEF Inv, TypeOK, controllerVars
<1>. QED BY <1>2, <1>3, <1>4 DEF Inv

(* The fields of a command of each kind.                                   *)
LEMMA CommandFields ==
    ASSUME NEW c \in Commands
    PROVE  /\ c.op \in {"get", "remove", "rename", "pair", "relay.set", "invoke",
                        "capability.add", "semantic read",
                        "read", "subscribe", "raw read", "raw subscribe"}
                 => c.node \in Nodes
           /\ c.op = "capability.add" => c.cap \in Capability
           /\ c.op = "semantic read" => c.semantic \in Readable
           /\ c.op \in {"read", "subscribe", "raw read", "raw subscribe"}
                 => c.path \in Paths
  BY DEF Commands

LEMMA RemoveStep ==
    ASSUME Inv, RemoveDevice
    PROVE  Inv'
<1>1. PICK c \in Commands :
         c.op = "remove" /\ Registered(c.node) /\ Save(c, Without(c.node))
  BY DEF RemoveDevice
<1>2. c.node \in Nodes /\ registry' = Without(c.node)
  BY <1>1, CommandFields DEF Save
<1>3. DOMAIN registry \subseteq Nodes
  BY DEF Inv, TypeOK
<1>4. /\ DOMAIN registry' = DOMAIN registry \ {c.node}
      /\ \A m \in DOMAIN registry \ {c.node} : registry'[m] = registry[m]
  BY <1>2, <1>3 DEF Without
<1>5. \A n \in DOMAIN registry' :
         registry'[n] \in Seq(Capability) /\ Len(registry'[n]) <= MaxCaps
  BY <1>4 DEF Inv, TypeOK
<1>6. Holds(c)'
  BY <1>1, <1>4 DEF Holds, Registered
<1>7. PICK code \in {"OK", "FAIL"} : Ends(c, code)
  BY <1>1 DEF Save
<1>8. Touch(c.node) /\ UNCHANGED controllerVars
  BY <1>1 DEF Save
<1>. QED BY <1>3, <1>4, <1>5, <1>6, <1>7, <1>8, WritesStep

LEMMA RenameStep ==
    ASSUME Inv, RenameDevice
    PROVE  Inv'
<1>1. PICK c \in Commands : c.op = "rename" /\ Registered(c.node) /\ Save(c, registry)
  BY DEF RenameDevice
<1>2. UNCHANGED registry /\ Touch(c.node) /\ UNCHANGED controllerVars
  BY <1>1 DEF Save
<1>3. Holds(c)'
  BY <1>1, <1>2 DEF Holds, Registered
<1>4. PICK code \in {"OK", "FAIL"} : Ends(c, code)
  BY <1>1 DEF Save
<1>. QED BY <1>2, <1>3, <1>4, WritesStep DEF Inv, TypeOK

(* A record with the capability, one that was there or a new one.          *)
LEMMA AddCapabilityStep ==
    ASSUME Inv, AddCapability
    PROVE  Inv'
<1>0. PICK c \in Commands :
         /\ c.op = "capability.add" /\ Registered(c.node)
         /\ \E caps :
              /\ Save(c, With(c.node, caps))
              /\ \/ \E i \in 1..Len(registry[c.node]) :
                       caps = [registry[c.node] EXCEPT ![i] = c.cap]
                 \/ /\ Len(registry[c.node]) < MaxCaps
                    /\ caps = Append(registry[c.node], c.cap)
  BY DEF AddCapability
<1>1. PICK caps :
         /\ c.op = "capability.add" /\ Registered(c.node)
         /\ Save(c, With(c.node, caps))
         /\ \/ \E i \in 1..Len(registry[c.node]) :
                  caps = [registry[c.node] EXCEPT ![i] = c.cap]
            \/ /\ Len(registry[c.node]) < MaxCaps
               /\ caps = Append(registry[c.node], c.cap)
  BY <1>0
<1>2. c.node \in Nodes /\ c.cap \in Capability
  BY <1>1, CommandFields
<1>3. /\ DOMAIN registry \subseteq Nodes
      /\ c.node \in DOMAIN registry
      /\ registry[c.node] \in Seq(Capability)
      /\ Len(registry[c.node]) <= MaxCaps
  BY <1>1 DEF Inv, TypeOK, Registered
<1>4. /\ caps \in Seq(Capability)
      /\ Len(caps) <= MaxCaps
      /\ \E i \in 1..Len(caps) : caps[i] = c.cap
  <2>1. CASE \E i \in 1..Len(registry[c.node]) :
                caps = [registry[c.node] EXCEPT ![i] = c.cap]
    BY <1>2, <1>3, <2>1
  <2>2. CASE /\ Len(registry[c.node]) < MaxCaps
             /\ caps = Append(registry[c.node], c.cap)
    <3>1. Len(caps) = Len(registry[c.node]) + 1 /\ caps[Len(caps)] = c.cap
      BY <1>2, <1>3, <2>2
    <3>. QED BY <1>2, <1>3, <2>2, <3>1
  <2>. QED BY <1>1, <2>1, <2>2
<1>5. /\ DOMAIN registry' = DOMAIN registry
      /\ registry'[c.node] = caps
      /\ \A m \in DOMAIN registry \ {c.node} : registry'[m] = registry[m]
  <2>1. registry' = With(c.node, caps)
    BY <1>1 DEF Save
  <2>2. /\ DOMAIN registry' = DOMAIN registry \cup {c.node}
        /\ registry'[c.node] = caps
        /\ \A m \in DOMAIN registry \ {c.node} : registry'[m] = registry[m]
    BY <1>3, <2>1 DEF With
  <2>. QED BY <1>3, <2>2
<1>6. \A n \in DOMAIN registry' :
         registry'[n] \in Seq(Capability) /\ Len(registry'[n]) <= MaxCaps
  BY <1>4, <1>5 DEF Inv, TypeOK
<1>7. Holds(c)'
  BY <1>1, <1>3, <1>4, <1>5 DEF Holds, Registered
<1>8. PICK code \in {"OK", "FAIL"} : Ends(c, code)
  BY <1>1 DEF Save
<1>9. Touch(c.node) /\ UNCHANGED controllerVars
  BY <1>1 DEF Save
<1>. QED BY <1>3, <1>5, <1>6, <1>7, <1>8, <1>9, WritesStep

LEMMA PairStep ==
    ASSUME Inv, Pair
    PROVE  Inv'
<1>1. PICK c \in Commands :
         /\ c.op = "pair"
         /\ \/ registry' = With(c.node, << >>) /\ Touch(c.node)
            \/ UNCHANGED <<registry, matterVars>>
         /\ UNCHANGED controllerVars
         /\ Ends(c, "OK")
  BY DEF Pair
<1>2. c.node \in Nodes /\ Holds(c) /\ Holds(c)'
  BY <1>1, CommandFields DEF Holds
<1>3. CASE registry' = With(c.node, << >>) /\ Touch(c.node)
  <2>1. DOMAIN registry \subseteq Nodes
    BY DEF Inv, TypeOK
  <2>2. /\ DOMAIN registry' = DOMAIN registry \cup {c.node}
        /\ registry'[c.node] = << >>
        /\ \A m \in DOMAIN registry \ {c.node} : registry'[m] = registry[m]
    BY <1>3, <2>1 DEF With
  <2>3. \A n \in DOMAIN registry' :
           registry'[n] \in Seq(Capability) /\ Len(registry'[n]) <= MaxCaps
    <3>1. << >> \in Seq(Capability) /\ Len(<< >>) <= MaxCaps
      OBVIOUS
    <3>2. \A n \in DOMAIN registry' \ {c.node} :
             registry'[n] \in Seq(Capability) /\ Len(registry'[n]) <= MaxCaps
      BY <2>2 DEF Inv, TypeOK
    <3>. QED BY <2>2, <3>1, <3>2
  <2>. QED BY <1>1, <1>2, <1>3, <2>1, <2>2, <2>3, WritesStep
<1>4. CASE UNCHANGED <<registry, matterVars>>
  BY <1>1, <1>2, <1>4, SucceedsStep
<1>. QED BY <1>1, <1>3, <1>4

LEMMA InitControllerStep ==
    ASSUME Inv, InitController
    PROVE  Inv'
<1>1. PICK c \in Commands, code \in {"OK", "FAIL"} :
         /\ c.op = "controller_init"
         /\ callbacks' = TRUE
         /\ UNCHANGED <<registry, inflight, chip>>
         /\ initialized' \in BOOLEAN
         /\ code = "OK" => initialized'
         /\ Ends(c, code)
  BY DEF InitController, matterVars, Inv, TypeOK
<1>2. code \in Codes
  BY DEF Codes
<1>3. code = "OK" => Holds(c)'
  BY <1>1 DEF Holds
<1>4. OkIsDone'
  BY <1>1, <1>2, <1>3, EndsOk
<1>5. RequestsMatch' /\ ReportsAreLabelled'
  BY <1>1, SameRequests, SameReport DEF Inv
<1>6. TypeOK'
  BY <1>1, <1>2, EndsFacts DEF Inv, TypeOK
<1>. QED BY <1>4, <1>5, <1>6 DEF Inv

(* A request handed to the CHIP stack; one of a semantic type is for the   *)
(* path of such a capability.                                              *)
LEMMA SubmitStep ==
    ASSUME Inv, NEW c \in Commands, NEW kind \in {"read", "subscription"},
           NEW n \in Nodes, NEW p \in Paths, NEW asked \in Readable \cup {Nothing},
           Submit(c, kind, n, p, asked), Holds(c),
           asked \in Readable =>
              /\ Registered(n)
              /\ \E i \in OnPath(n, p) : registry[n][i].semantic = asked
    PROVE  Inv'
<1>1. /\ UNCHANGED <<registry, callbacks, initialized, chip>>
      /\ Ends(c, "OK") /\ "OK" \in Codes
  BY DEF Submit, controllerVars, Codes
<1>2. Holds(c)'
  BY <1>1 DEF Holds, Registered, WithSemantic
<1>3. OkIsDone'
  BY <1>1, <1>2, EndsOk
<1>. DEFINE new == [kind |-> kind, node |-> n, path |-> p, asked |-> asked,
                    touched |-> FALSE]
<1>4. new \in Request /\ inflight' \subseteq inflight \cup {new}
  BY DEF Submit, Request
<1>5. inflight' \subseteq Request
  BY <1>4 DEF Inv, TypeOK
<1>6. RequestsMatch'
  BY <1>1, <1>4 DEF Inv, RequestsMatch, Registered, OnPath
<1>7. ReportsAreLabelled'
  BY <1>1, SameReport DEF Inv
<1>8. TypeOK'
  BY <1>1, <1>5, EndsFacts DEF Inv, TypeOK
<1>. QED BY <1>3, <1>6, <1>7, <1>8 DEF Inv

LEMMA SemanticReadStep ==
    ASSUME Inv, SemanticRead
    PROVE  Inv'
<1>1. PICK c \in Commands, i \in 1..MaxCaps :
         /\ c.op = "semantic read"
         /\ find_capability(c.node, c.semantic, i)
         /\ Submit(c, "read", c.node, registry[c.node][i].path, c.semantic)
  BY DEF SemanticRead
<1>2. c.node \in Nodes /\ c.semantic \in Readable
  BY <1>1, CommandFields
<1>3. /\ Registered(c.node)
      /\ i \in 1..Len(registry[c.node])
      /\ registry[c.node][i].semantic = c.semantic
  BY <1>1 DEF find_capability, IsFirst, WithSemantic
<1>4. registry[c.node][i] \in Capability
  BY <1>3 DEF Inv, TypeOK, Registered
<1>5. registry[c.node][i].path \in Paths /\ i \in OnPath(c.node, registry[c.node][i].path)
  BY <1>3, <1>4 DEF Capability, OnPath
<1>6. Holds(c)
  BY <1>1, <1>3 DEF Holds, WithSemantic
<1>. QED BY <1>1, <1>2, <1>3, <1>5, <1>6, SubmitStep

LEMMA AttributeStep ==
    ASSUME Inv, AttributeRead \/ AttributeSubscribe
    PROVE  Inv'
<1>1. PICK c \in Commands, kind \in {"read", "subscription"} :
         /\ \/ c.op \in {"read", "subscribe"} /\ Registered(c.node)
            \/ c.op \in {"raw read", "raw subscribe"}
         /\ Submit(c, kind, c.node, c.path, Nothing)
  BY DEF AttributeRead, AttributeSubscribe
<1>2. c.node \in Nodes /\ c.path \in Paths
  BY <1>1, CommandFields
<1>3. Holds(c)
  BY <1>1 DEF Holds
<1>. QED BY <1>1, <1>2, <1>3, SubmitStep

LEMMA InvokeStep ==
    ASSUME Inv, Invoke
    PROVE  Inv'
<1>1. PICK c \in Commands :
         /\ \/ c.op = "invoke"
            \/ c.op = "relay.set" /\ \E i \in 1..MaxCaps : find_capability(c.node, "relay", i)
         /\ UNCHANGED <<registry, controllerVars, matterVars>>
         /\ Ends(c, "OK")
  BY DEF Invoke
<1>2. Holds(c)
  BY <1>1 DEF Holds, find_capability, IsFirst
<1>. QED BY <1>1, <1>2, SucceedsStep

LEMMA QueryStep ==
    ASSUME Inv, Query \/ Control
    PROVE  Inv'
<1>1. PICK c \in Commands :
         /\ c.op \in {"query", "get", "control"}
         /\ c.op = "get" => Registered(c.node)
         /\ UNCHANGED <<registry, controllerVars, matterVars>>
         /\ Ends(c, "OK")
  <2>1. CASE Query
    BY <2>1 DEF Query
  <2>2. CASE Control
    BY <2>2 DEF Control
  <2>. QED BY <2>1, <2>2
<1>2. Holds(c)
  BY <1>1 DEF Holds
<1>. QED BY <1>1, <1>2, SucceedsStep

LEMMA FailedStep ==
    ASSUME Inv,
           \/ UnknownAction \/ InvalidPayload \/ NotRegistered
           \/ CommandFails \/ NoSuchCapability
    PROVE  Inv'
<1>1. PICK c \in Commands, codes \in SUBSET (Codes \ {"OK"}) : Fails(c, codes)
  <2>1. /\ {"NOT_SUPPORTED"} \in SUBSET (Codes \ {"OK"})
        /\ {"INVALID_ARG"} \in SUBSET (Codes \ {"OK"})
        /\ {"NOT_FOUND"} \in SUBSET (Codes \ {"OK"})
        /\ Failures \in SUBSET (Codes \ {"OK"})
    BY DEF Codes, Failures
  <2>. QED BY <2>1 DEF UnknownAction, InvalidPayload, NotRegistered, CommandFails,
                       NoSuchCapability
<1>. QED BY <1>1, FailsStep

----------------------------------------------------------------------------
(* Answers.                                                                *)

(* Steps that neither write nor report.                                    *)
LEMMA QuietStep ==
    ASSUME Inv, UNCHANGED <<registry, controllerVars, matterVars>>,
           Outcomes' \subseteq Outcomes,
           handling' \in Result \cup {Nothing},
           answer' \in Result \cup {Nothing, ProtocolError}
    PROVE  Inv'
<1>1. UNCHANGED <<registry, callbacks, initialized, inflight, chip>>
  BY DEF controllerVars, matterVars
<1>2. OkIsDone'
  BY SameOutcomes DEF Inv
<1>3. RequestsMatch' /\ ReportsAreLabelled'
  BY <1>1, SameRequests, SameReport DEF Inv
<1>. QED BY <1>1, <1>2, <1>3 DEF Inv, TypeOK

LEMMA MalformedStep ==
    ASSUME Inv, MalformedMessage
    PROVE  Inv'
<1>1. /\ UNCHANGED <<registry, controllerVars, matterVars>>
      /\ handling = Nothing /\ handling' = Nothing
      /\ answer' \in {Nothing, ProtocolError}
  BY DEF MalformedMessage
<1>2. Outcomes' \subseteq Outcomes
  BY <1>1 DEF Outcomes
<1>. QED BY <1>1, <1>2, QuietStep

(* The answer is the result, or an error in the place of its ok.           *)
LEMMA AnswerStep ==
    ASSUME Inv, Answer
    PROVE  Inv'
<1>1. /\ handling \in Result /\ handling' = Nothing
      /\ UNCHANGED <<registry, controllerVars, matterVars>>
      /\ answer' \in Payload(handling) \cup {Nothing}
  BY DEF Answer, Inv, TypeOK
<1>2. CASE answer' = handling \/ answer' = Nothing
  <2>1. Outcomes' \subseteq Outcomes
    BY <1>1, <1>2 DEF Outcomes
  <2>. QED BY <1>1, <1>2, <2>1, QuietStep
<1>3. CASE answer' = [handling EXCEPT !.code = "NO_MEM"]
  <2>1. /\ answer' \in Result /\ answer'.code = "NO_MEM"
    BY <1>1, <1>3 DEF Result, Codes
  <2>2. Outcomes' = {answer'}
    BY <1>1, <2>1 DEF Outcomes
  <2>3. OkIsDone'
    BY <2>1, <2>2 DEF OkIsDone
  <2>4. UNCHANGED <<registry, callbacks, initialized, inflight, chip>>
    BY <1>1 DEF controllerVars, matterVars
  <2>5. RequestsMatch' /\ ReportsAreLabelled'
    BY <2>4, SameRequests, SameReport DEF Inv
  <2>6. TypeOK'
    BY <1>1, <2>1, <2>4 DEF Inv, TypeOK
  <2>. QED BY <2>3, <2>5, <2>6 DEF Inv
<1>. QED BY <1>1, <1>2, <1>3 DEF Payload

----------------------------------------------------------------------------
(* The CHIP task.                                                          *)

(* Steps of the CHIP task leave the outcomes as they are.                  *)
LEMMA ChipStep ==
    ASSUME Inv, UNCHANGED <<registry, controllerVars, handling, answer>>,
           inflight' \subseteq inflight,
           chip' \in Report \cup {Nothing}, ReportsAreLabelled'
    PROVE  Inv'
<1>1. Outcomes' \subseteq Outcomes
  BY DEF Outcomes
<1>2. OkIsDone'
  BY <1>1, SameOutcomes DEF Inv
<1>3. inflight' \subseteq Request /\ RequestsMatch'
  BY SameRequests DEF Inv
<1>4. TypeOK'
  BY <1>3 DEF Inv, TypeOK, controllerVars
<1>. QED BY <1>2, <1>3, <1>4 DEF Inv

(* The first capability on the path is the one read, or shadows it.        *)
LEMMA AttributeReportStep ==
    ASSUME Inv, AttributeReport
    PROVE  Inv'
<1>1. PICK r \in inflight :
         /\ inflight' \in Rest(r)
         /\ \/ \E i \in 1..MaxCaps :
                  /\ find_capability_by_path(r.node, r.path, i)
                  /\ chip' = [of |-> r, label |-> registry[r.node][i].semantic]
            \/ chip' = [of |-> r, label |-> Nothing]
  BY DEF AttributeReport
<1>2. UNCHANGED <<registry, controllerVars, handling, answer>>
  BY DEF AttributeReport
<1>3. inflight' \subseteq inflight
  BY <1>1 DEF Rest
<1>4. r \in Request
  BY DEF Inv, TypeOK
<1>5. CASE chip' = [of |-> r, label |-> Nothing]
  <2>1. chip' \in Report /\ chip'.label = Nothing
    BY <1>4, <1>5 DEF Report
  <2>. QED BY <1>2, <1>3, <2>1, ChipStep DEF ReportsAreLabelled
<1>6. ASSUME NEW i \in 1..MaxCaps,
             find_capability_by_path(r.node, r.path, i),
             chip' = [of |-> r, label |-> registry[r.node][i].semantic]
      PROVE  Inv'
  <2>1. /\ Registered(r.node)
        /\ i \in OnPath(r.node, r.path)
        /\ \A j \in OnPath(r.node, r.path) : i <= j
    BY <1>6 DEF find_capability_by_path, IsFirst
  <2>2. registry[r.node][i] \in Capability
    BY <2>1 DEF Inv, TypeOK, Registered, OnPath
  <2>3. chip' \in Report /\ chip'.of = r /\ chip'.label = registry[r.node][i].semantic
    BY <1>4, <1>6, <2>2 DEF Report, Capability
  <2>4. ASSUME ~r.touched, r.asked \in Readable
        PROVE  \E k \in OnPath(r.node, r.path) :
                  /\ registry[r.node][k].semantic = r.asked
                  /\ registry[r.node][i].semantic = r.asked \/ Shadowed(r, k)
    <3>1. PICK k \in OnPath(r.node, r.path) : registry[r.node][k].semantic = r.asked
      BY <2>4 DEF Inv, RequestsMatch
    <3>2. i \in Nat /\ k \in Nat /\ i <= k /\ registry[r.node][i].path = r.path /\ i >= 1
      BY <2>1, <3>1 DEF OnPath, Inv, TypeOK, Registered
    <3>3. i = k \/ i \in 1..(k - 1)
      BY <3>2
    <3>. QED BY <3>1, <3>2, <3>3 DEF Shadowed
  <2>5. ReportsAreLabelled'
    BY <1>2, <2>1, <2>3, <2>4
       DEF ReportsAreLabelled, Registered, OnPath, Shadowed
  <2>. QED BY <1>2, <1>3, <2>3, <2>5, ChipStep
<1>. QED BY <1>1, <1>5, <1>6

LEMMA NoReportStep ==
    ASSUME Inv, NoReport \/ SubscribeDone
    PROVE  Inv'
<1>1. /\ UNCHANGED <<registry, controllerVars, handling, answer, chip>>
      /\ inflight' \subseteq inflight
  BY DEF NoReport, SubscribeDone
<1>2. ReportsAreLabelled' /\ chip' \in Report \cup {Nothing}
  BY <1>1, SameReport DEF Inv, TypeOK
<1>. QED BY <1>1, <1>2, ChipStep

LEMMA BroadcastStep ==
    ASSUME Inv, BroadcastReport
    PROVE  Inv'
  BY ChipStep DEF BroadcastReport, ReportsAreLabelled

LEMMA RebootStep ==
    ASSUME Inv, Reboot
    PROVE  Inv'
<1>1. Outcomes' = {}
  BY DEF Reboot, Outcomes
<1>. QED BY <1>1 DEF Reboot, Inv, TypeOK, OkIsDone, RequestsMatch,
                     ReportsAreLabelled

----------------------------------------------------------------------------
(* The invariant.                                                          *)

LEMMA InitInv == Init => Inv
<1>. SUFFICES ASSUME Init PROVE Inv
  OBVIOUS
<1>1. Outcomes = {}
  BY DEF Init, Outcomes
<1>. QED BY <1>1 DEF Init, Inv, TypeOK, OkIsDone, RequestsMatch,
                     ReportsAreLabelled

LEMMA NextInv == Inv /\ [Next]_vars => Inv'
<1>. SUFFICES ASSUME Inv, [Next]_vars PROVE Inv'
  OBVIOUS
<1>1. CASE UNCHANGED vars
  <2>1. Outcomes' \subseteq Outcomes
    BY <1>1 DEF vars, Outcomes
  <2>. QED BY <1>1, <2>1, QuietStep DEF vars, controllerVars, matterVars, Inv, TypeOK
<1>2. CASE Next
  BY <1>2, FailedStep, QueryStep, RemoveStep, RenameStep, AddCapabilityStep,
     InitControllerStep, PairStep, SemanticReadStep, AttributeStep, InvokeStep,
     MalformedStep, AnswerStep, AttributeReportStep, NoReportStep, BroadcastStep,
     RebootStep
     DEF Next
<1>. QED BY <1>1, <1>2

(* Every reachable state is of the declared types, and no device has more  *)
(* capabilities than its record has room for.                              *)
THEOREM CommandTypes == Spec => []TypeOK
<1>1. Inv => TypeOK
  BY DEF Inv
<1>. QED BY <1>1, InitInv, NextInv, PTL DEF Spec

(* A command answered with ok has been carried out                         *)
(* (inbound_message_handler.cpp:180), whatever the CHIP task does.         *)
THEOREM OkMeansDone == Spec => []OkIsDone
<1>1. Inv => OkIsDone
  BY DEF Inv
<1>. QED BY <1>1, InitInv, NextInv, PTL DEF Spec

(* The report of a temperature or pressure read is labelled as one, unless *)
(* shadowed or overtaken by a command (outbound_message_builder.cpp:248).  *)
THEOREM ReportsLabelled == Spec => []ReportsAreLabelled
<1>1. Inv => ReportsAreLabelled
  BY DEF Inv
<1>. QED BY <1>1, InitInv, NextInv, PTL DEF Spec
----------------------------------------------------------------------------
(* The registry takes the effects RegistryContents has.                    *)

(* RegistryContents counts as this module does.                            *)
LEMMA SameCardinality == \A S : Contents!Cardinality(S) = Cardinality(S)
  BY DEF Contents!Cardinality, Cardinality

(* A list of capabilities as a function of their places: one is replaced,  *)
(* or put at the end.                                                      *)
LEMMA PutPlace ==
    ASSUME NEW s \in Seq(Capability), NEW v \in Capability
    PROVE  /\ \A i \in 1..Len(s) : Contents!Put(s, i, v) = [s EXCEPT ![i] = v]
           /\ Contents!Put(s, Len(s) + 1, v) = Append(s, v)
<1>0. Len(s) \in Nat /\ DOMAIN s = 1..Len(s)
  OBVIOUS
<1>1. ASSUME NEW i \in 1..Len(s)
      PROVE  Contents!Put(s, i, v) = [s EXCEPT ![i] = v]
  BY <1>0 DEF Contents!Put
<1>2. Contents!Put(s, Len(s) + 1, v) = Append(s, v)
  <2>. DEFINE t == Append(s, v)
  <2>1. /\ t \in Seq(Capability) /\ Len(t) = Len(s) + 1
        /\ t[Len(s) + 1] = v /\ \A i \in 1..Len(s) : t[i] = s[i]
    BY <1>0
  <2>. HIDE DEF t
  <2>3. t = [i \in 1..Len(t) |-> t[i]]
    BY <2>1
  <2>2. 1..Len(s) \cup {Len(s) + 1} = 1..(Len(s) + 1)
    BY <1>0
  <2>4. Contents!Put(s, Len(s) + 1, v) = t
    BY <1>0, <2>1, <2>2, <2>3 DEF Contents!Put
  <2>. QED BY <2>4 DEF t
<1>. QED BY <1>1, <1>2

(* A device put in the registry, or taken out.                             *)
LEMMA WithDevices ==
    ASSUME NEW n, NEW caps, registry' = With(n, caps)
    PROVE  Devices' = Contents!Put(Devices, n, [label |-> Nothing, caps |-> caps])
  BY DEF With, Devices, Contents!Put

LEMMA WithoutDevices ==
    ASSUME NEW n, registry' = Without(n)
    PROVE  Devices' = Contents!Delete(Devices, n)
  BY DEF Without, Devices, Contents!Delete

(* What the step of a command has to show.                                 *)
Promised ==
    \/ /\ UNCHANGED registry
       /\ CarriedOut /\ handling'.code = "OK"
             => handling'.command.op \notin {"remove", "rename", "capability.add"}
    \/ /\ CarriedOut
       /\ \E c \in RegistryCommands(handling'.command) :
              Contents!Effect(c, Devices, Devices')

LEMMA EndsCarriedOut ==
    ASSUME NEW c \in Commands, NEW code \in Codes, Ends(c, code)
    PROVE  CarriedOut /\ handling'.command = c /\ handling'.code = code
<1>1. handling = Nothing
  BY DEF Ends
<1>. QED BY <1>1, EndsFacts DEF CarriedOut

LEMMA RemovePromised == RemoveDevice => Promised
<1>. SUFFICES ASSUME RemoveDevice PROVE Promised
  OBVIOUS
<1>1. PICK c \in Commands :
         c.op = "remove" /\ Registered(c.node) /\ Save(c, Without(c.node))
  BY DEF RemoveDevice
<1>2. CarriedOut /\ handling'.command = c
  BY <1>1, EndsCarriedOut DEF Save, Codes
<1>. DEFINE d == [op |-> "remove", id |-> c.node, label |-> Nothing]
<1>3. d \in RegistryCommands(c)
  BY <1>1 DEF RegistryCommands
<1>4. Devices' = Contents!Delete(Devices, c.node) /\ c.node \in DOMAIN Devices
  BY <1>1, WithoutDevices DEF Save, Registered, Devices
<1>5. Contents!Effect(d, Devices, Devices')
  BY <1>4 DEF Contents!Effect
<1>. QED BY <1>2, <1>3, <1>5 DEF Promised

LEMMA RenamePromised == RenameDevice => Promised
<1>. SUFFICES ASSUME RenameDevice PROVE Promised
  OBVIOUS
<1>1. PICK c \in Commands : c.op = "rename" /\ Registered(c.node) /\ Save(c, registry)
  BY DEF RenameDevice
<1>2. CarriedOut /\ handling'.command = c
  BY <1>1, EndsCarriedOut DEF Save, Codes
<1>. DEFINE d == [op |-> "rename", id |-> c.node, label |-> Nothing]
<1>3. d \in RegistryCommands(c)
  BY <1>1 DEF RegistryCommands
<1>4. /\ Devices' = Devices /\ c.node \in DOMAIN Devices
      /\ Devices[c.node] = [label |-> Nothing, caps |-> Devices[c.node].caps]
      /\ Devices = [n \in DOMAIN Devices |-> Devices[n]]
  BY <1>1 DEF Save, Registered, Devices
<1>5. Devices = Contents!Put(Devices, c.node,
                   [label |-> Nothing, caps |-> Devices[c.node].caps])
  BY <1>4 DEF Contents!Put
<1>6. Contents!Effect(d, Devices, Devices')
  BY <1>4, <1>5 DEF Contents!Effect
<1>. QED BY <1>2, <1>3, <1>6 DEF Promised

LEMMA AddCapabilityPromised == TypeOK /\ AddCapability => Promised
<1>. SUFFICES ASSUME TypeOK, AddCapability PROVE Promised
  OBVIOUS
<1>1. PICK c \in Commands :
         /\ c.op = "capability.add" /\ Registered(c.node)
         /\ \/ \E i \in 1..Len(registry[c.node]) :
                  Save(c, With(c.node, [registry[c.node] EXCEPT ![i] = c.cap]))
            \/ /\ Len(registry[c.node]) < MaxCaps
               /\ Save(c, With(c.node, Append(registry[c.node], c.cap)))
  BY DEF AddCapability
<1>2. CarriedOut /\ handling'.command = c
  BY <1>1, EndsCarriedOut DEF Save, Codes
<1>. DEFINE caps == registry[c.node]
            d(i) == [op |-> "addcap", id |-> c.node, cap |-> i, target |-> c.cap]
<1>3. caps \in Seq(Capability) /\ Len(caps) <= MaxCaps /\ Len(caps) \in Nat
  BY <1>1 DEF TypeOK, Registered
<1>4. c.cap \in Capability
  BY <1>1, CommandFields
<1>5. \A i \in 1..MaxCaps : d(i) \in RegistryCommands(c)
  BY <1>1 DEF RegistryCommands
<1>6. c.node \in DOMAIN Devices /\ Devices[c.node] = [label |-> Nothing, caps |-> caps]
  BY <1>1 DEF Registered, Devices
<1>7. \E i \in 1..MaxCaps :
         /\ i \in DOMAIN caps \/ Cardinality(DOMAIN caps) < MaxCaps
         /\ registry' = With(c.node, Contents!Put(caps, i, c.cap))
  <2>1. CASE \E i \in 1..Len(caps) : Save(c, With(c.node, [caps EXCEPT ![i] = c.cap]))
    <3>1. PICK i \in 1..Len(caps) : registry' = With(c.node, [caps EXCEPT ![i] = c.cap])
      BY <2>1 DEF Save
    <3>2. i \in 1..MaxCaps /\ i \in DOMAIN caps
      BY <1>3
    <3>. QED BY <1>3, <1>4, <3>1, <3>2, PutPlace
  <2>2. CASE Len(caps) < MaxCaps /\ Save(c, With(c.node, Append(caps, c.cap)))
    <3>1. registry' = With(c.node, Contents!Put(caps, Len(caps) + 1, c.cap))
      BY <1>3, <1>4, <2>2, PutPlace DEF Save
    <3>2. Cardinality(DOMAIN caps) = Len(caps)
      BY <1>3, FS_Interval
    <3>. QED BY <1>3, <2>2, <3>1, <3>2
  <2>. QED BY <1>1, <2>1, <2>2
<1>8. PICK i \in 1..MaxCaps :
         /\ i \in DOMAIN caps \/ Contents!Cardinality(DOMAIN caps) < MaxCaps
         /\ Devices' = Contents!Put(Devices, c.node,
                          [label |-> Nothing, caps |-> Contents!Put(caps, i, c.cap)])
  BY <1>7, WithDevices, SameCardinality
<1>9. Contents!Effect(d(i), Devices, Devices')
  BY <1>6, <1>8 DEF Contents!Effect
<1>. QED BY <1>2, <1>5, <1>9 DEF Promised

LEMMA PairPromised ==
    ASSUME IsFiniteSet(Nodes), TypeOK, Pair
    PROVE  Promised
<1>1. PICK c \in Commands :
         /\ c.op = "pair"
         /\ registry' = With(c.node, << >>) \/ UNCHANGED registry
         /\ Ends(c, "OK")
  BY DEF Pair
<1>2. CarriedOut /\ handling'.command = c
  BY <1>1, EndsCarriedOut DEF Codes
<1>3. CASE UNCHANGED registry
  BY <1>1, <1>2, <1>3 DEF Promised
<1>4. CASE registry' = With(c.node, << >>)
  <2>. DEFINE d == [op |-> "pair", id |-> c.node, label |-> Nothing]
  <2>1. d \in RegistryCommands(c)
    BY <1>1 DEF RegistryCommands
  <2>2. c.node \in DOMAIN Devices \/ Cardinality(DOMAIN Devices) < Cardinality(Nodes)
    <3>1. DOMAIN Devices = DOMAIN registry /\ DOMAIN registry \subseteq Nodes
          /\ c.node \in Nodes
      BY <1>1, CommandFields DEF Devices, TypeOK
    <3>2. CASE c.node \notin DOMAIN registry
      <4>1. DOMAIN registry \subseteq Nodes \ {c.node}
        BY <3>1, <3>2
      <4>2. /\ IsFiniteSet(Nodes \ {c.node})
            /\ Cardinality(Nodes \ {c.node}) = Cardinality(Nodes) - 1
        BY <3>1, FS_RemoveElement
      <4>3. Cardinality(DOMAIN registry) <= Cardinality(Nodes \ {c.node})
        BY <4>1, <4>2, FS_Subset
      <4>4. Cardinality(Nodes) \in Nat /\ Cardinality(DOMAIN registry) \in Nat
        BY <4>1, <4>2, FS_Subset, FS_CardinalityType
      <4>. QED BY <3>1, <4>2, <4>3, <4>4
    <3>. QED BY <3>1, <3>2
  <2>3. Devices' = Contents!Put(Devices, c.node, [label |-> Nothing, caps |-> << >>])
    BY <1>4, WithDevices
  <2>4. Contents!Effect(d, Devices, Devices')
    BY <2>2, <2>3, SameCardinality DEF Contents!Effect
  <2>. QED BY <1>2, <2>1, <2>4 DEF Promised
<1>. QED BY <1>1, <1>3, <1>4

(* Commands that are not the registry's, and failures.                     *)
LEMMA OthersPromised ==
    ASSUME NEW c \in Commands, NEW code \in Codes, Ends(c, code), UNCHANGED registry,
           code # "OK" \/ c.op \notin {"remove", "rename", "capability.add"}
    PROVE  Promised
  BY EndsCarriedOut DEF Promised

LEMMA FailsPromised ==
    ASSUME NEW c \in Commands, NEW codes \in SUBSET (Codes \ {"OK"}), Fails(c, codes)
    PROVE  Promised
  BY OthersPromised DEF Fails

LEMMA SubmitPromised ==
    ASSUME NEW c \in Commands, NEW kind, NEW n, NEW p, NEW asked,
           Submit(c, kind, n, p, asked),
           c.op \notin {"remove", "rename", "capability.add"}
    PROVE  Promised
  BY OthersPromised DEF Submit, Codes

LEMMA PromisedStep ==
    ASSUME IsFiniteSet(Nodes), TypeOK, Next
    PROVE  Promised
<1>1. CASE UnknownAction \/ InvalidPayload \/ NotRegistered \/ CommandFails \/ NoSuchCapability
  <2>1. PICK c \in Commands, codes \in SUBSET (Codes \ {"OK"}) : Fails(c, codes)
    <3>1. /\ {"NOT_SUPPORTED"} \in SUBSET (Codes \ {"OK"})
          /\ {"INVALID_ARG"} \in SUBSET (Codes \ {"OK"})
          /\ {"NOT_FOUND"} \in SUBSET (Codes \ {"OK"})
          /\ Failures \in SUBSET (Codes \ {"OK"})
      BY DEF Codes, Failures
    <3>. QED BY <1>1, <3>1 DEF UnknownAction, InvalidPayload, NotRegistered, CommandFails,
                              NoSuchCapability
  <2>. QED BY <2>1, FailsPromised
<1>2. CASE Query \/ Control \/ Invoke
  <2>1. PICK c \in Commands : /\ c.op \notin {"remove", "rename", "capability.add"}
                              /\ UNCHANGED registry /\ Ends(c, "OK")
    BY <1>2 DEF Query, Control, Invoke
  <2>. QED BY <2>1, OthersPromised DEF Codes
<1>3. CASE InitController
  <2>1. PICK c \in Commands, code \in {"OK", "FAIL"} :
           c.op = "controller_init" /\ UNCHANGED registry /\ Ends(c, code)
    BY <1>3 DEF InitController
  <2>. QED BY <2>1, OthersPromised DEF Codes
<1>4. CASE SemanticRead \/ AttributeRead \/ AttributeSubscribe
  BY <1>4, SubmitPromised DEF SemanticRead, AttributeRead, AttributeSubscribe
<1>5. CASE /\ UNCHANGED registry
           /\ handling' \in {handling, Nothing}
  BY <1>5 DEF Promised, CarriedOut
<1>6. CASE MalformedMessage \/ Answer \/ AttributeReport \/ NoReport \/ BroadcastReport
           \/ SubscribeDone \/ Reboot
  BY <1>5, <1>6 DEF MalformedMessage, Answer, AttributeReport, NoReport, BroadcastReport,
     SubscribeDone, Reboot
<1>. QED
  BY <1>1, <1>2, <1>3, <1>4, <1>6, RemovePromised, RenamePromised, AddCapabilityPromised,
     PairPromised DEF Next

(* For any finite set of nodes and any limits: commands change the         *)
(* registry by the effects RegistryContents has for them, and answer ok    *)
(* only after the effect, pairing excepted.                                *)
THEOREM RegistryAsPromisedCorrect ==
    ASSUME IsFiniteSet(Nodes)
    PROVE  Spec => RegistryAsPromised
<1>1. TypeOK /\ [Next]_vars => [Promised]_vars
  BY PromisedStep
<1>. QED BY <1>1, CommandTypes, PTL DEF Spec, RegistryAsPromised, Promised
=============================================================================
