-------------------------- MODULE Commands_proofs --------------------------
(***************************************************************************)
(* Proofs about Commands, for every configuration, every decision of the   *)
(* ACLs and every command.                                                 *)
(***************************************************************************)
EXTENDS Commands, SequenceTheorems, WellFoundedInduction, TLAPS

\* No message so far ends the response.
Quiet(msgs) == \A k \in 1..Len(msgs) : ~IsTerminal(msgs[k])

\* execs is a sequence, whatever its elements are made of.
ExecsInv == \E S : execs \in Seq(S)

\* A program is about to be run only for a rule that permits the user.
RuleInv == pc = "run" => rule \in permit

\* Until the end nothing terminal has been sent, but for the two known cases.
QuietInv ==
    pc # "done" /\ ~fatal /\ ~surplus /\ ~(failed /\ okAny) => Quiet(out)

\* Too many arguments are met in the lookup.
SurplusInv == pc \in {"check", "lookup"} => ~surplus

IInv ==
    /\ TypeOK /\ SurplusInv /\ ExecsInv /\ RuleInv /\ QuietInv
    /\ ExecPermitted /\ SingleAnswer

\* A program other than those of a summary is started once, by the last step.
\* A summary is asked for by a command of one word and no rule.
RunInv ==
    /\ pc \notin {"summary", "done"} => execs = <<>>
    /\ pc = "summary" => rule = NoRule /\ Len(argv) = 1
    /\ pc = "done" /\ execs # <<>> =>
          (rule = NoRule /\ Len(argv) = 1) \/ execs = <<TheExec>>

\* The checks for NULs that have been passed, also by a command that was run.
Past(pcs) == pc \in pcs \/ execs # <<>>

NulInv ==
    /\ Past({"lookup", "nul", "authorize", "run", "summary"}) =>
          argv # <<>> /\ \A k \in 1..Len(argv) : k <= 2 => ~argv[k].nul
    /\ Past({"authorize", "run", "summary"}) =>
          \A k \in 2..Len(argv) : argv[k].nul => NulAllowed(k)

-----------------------------------------------------------------------------
\* A set of positive numbers that is not empty has a least element.
LEMMA LeastElement ==
    ASSUME NEW T, T \subseteq Nat, T # {}
    PROVE  \E k \in T : \A j \in T : k <= j
<1>1. PICK k \in T : \A j \in T : ~(<<j, k>> \in OpToRel(<, Nat))
  BY NatLessThanWellFounded, WFMin
<1>2. \A j \in T : ~(j < k)
  BY <1>1 DEF OpToRel
<1> QED
  BY <1>2

\* find_config_line returns NULL or the first rule that matches.
LEMMA FindConfigLine ==
    ASSUME TypeOK, NEW c, NEW sub
    PROVE  LET f == find_config_line(c, sub)
           IN /\ f \in 0..Len(config)
              /\ f # NoRule => /\ line_matches(config[f], c, sub)
                              /\ \A k \in 1..(f - 1) :
                                    ~line_matches(config[k], c, sub)
              /\ f = NoRule => \A k \in 1..Len(config) :
                                 ~line_matches(config[k], c, sub)
<1> DEFINE M == {k \in 1..Len(config) : line_matches(config[k], c, sub)}
<1>0. Len(config) \in Nat
  BY DEF TypeOK
<1>1. CASE M = {}
  BY <1>0, <1>1 DEF find_config_line, NoRule
<1>2. CASE M # {}
  <2>1. M \subseteq Nat
    BY <1>0
  <2>2. \E k \in M : \A j \in M : k <= j
    BY <1>2, <2>1, LeastElement
  <2>3. find_config_line(c, sub) = CHOOSE k \in M : \A j \in M : k <= j
    BY <1>2 DEF find_config_line
  <2>4. /\ find_config_line(c, sub) \in M
        /\ \A j \in M : find_config_line(c, sub) <= j
    BY <2>2, <2>3
  <2> QED
    BY <1>0, <2>4 DEF NoRule
<1> QED
  BY <1>1, <1>2

\* The kinds of messages the server sends are messages.
LEMMA Messages ==
    /\ Output \in Message /\ ~IsTerminal(Output)
    /\ \A c \in ErrorCodes : Error(c) \in Message /\ IsTerminal(Error(c))
    /\ \A n \in Int : Status(n) \in Message /\ IsTerminal(Status(n))
<1>1. \A n \in Int : WireStatus(n) \in Int
  BY CommandsProtocolAssumption DEF WireStatus
<1> QED
  BY <1>1 DEF Message, Output, Error, Status, IsTerminal

\* What a program may send while it runs.
LEMMA OutputsFacts ==
    ASSUME NEW o \in Outputs
    PROVE  o \in Seq(Message) /\ Quiet(o)
<1>1. CASE o = <<>>
  BY <1>1 DEF Quiet
<1>2. CASE o = <<Output>>
  BY <1>2, Messages DEF Quiet
<1> QED
  BY <1>1, <1>2 DEF Outputs

\* Exit statuses are numbers.
LEMMA ExitStatusType ==
    ASSUME NEW n \in Nat
    PROVE  ExitStatus(n) \in Int /\ WEXITSTATUS(n) \in Int
BY DEF ExitStatus, WEXITSTATUS, WIFEXITED

\* Sending keeps the sequence of messages well typed.
LEMMA SendType ==
    ASSUME TypeOK, NEW msgs \in Seq(Message), Send(msgs)
    PROVE  out' \in Seq(Message) /\ fatal' \in BOOLEAN
<1>1. fatal' \in BOOLEAN
  BY Zenon DEF TypeOK, Send
<1>2. out \in Seq(Message)
  BY DEF TypeOK
<1>3. CASE out' = out \o msgs
  BY <1>1, <1>2, <1>3, ConcatProperties, Zenon
<1>4. CASE \E n \in 0..(Len(msgs) - 1) :
             out' = IF fatal THEN out ELSE out \o SubSeq(msgs, 1, n)
  <2>1. PICK n \in 0..(Len(msgs) - 1) :
               out' = IF fatal THEN out ELSE out \o SubSeq(msgs, 1, n)
    BY <1>4
  <2>2. n \in Int /\ \A k \in 1..n : msgs[k] \in Message
    OBVIOUS
  <2>3. SubSeq(msgs, 1, n) \in Seq(Message)
    BY <2>2, SubSeqProperties
  <2> QED
    <3>1. out \o SubSeq(msgs, 1, n) \in Seq(Message)
      BY <1>2, <2>3, ConcatProperties
    <3> QED
      BY <1>1, <1>2, <2>1, <3>1, Zenon
<1> QED
  BY <1>1, <1>3, <1>4 DEF Send

\* A response that was quiet and gets one terminal message is complete.
LEMMA FinalMessage ==
    ASSUME TypeOK, NEW o \in Outputs, NEW m \in Message, IsTerminal(m),
           ~fatal => Quiet(out), Send(o \o <<m>>)
    PROVE  AnsweredOnce'
<1> SUFFICES ASSUME ~fatal' PROVE
      /\ out' # <<>>
      /\ \A k \in 1..Len(out') : IsTerminal(out'[k]) <=> k = Len(out')
  BY DEF AnsweredOnce, IsTerminal
<1>1. out' = out \o (o \o <<m>>) /\ Quiet(out)
  BY DEF Send
<1>2. out \in Seq(Message) /\ o \in Seq(Message) /\ Quiet(o)
  BY OutputsFacts DEF TypeOK
<1>3. /\ Len(out') = Len(out) + Len(o) + 1
      /\ \A k \in 1..Len(out) : out'[k] = out[k]
      /\ \A k \in (Len(out) + 1)..(Len(out) + Len(o)) :
            out'[k] = o[k - Len(out)]
      /\ out'[Len(out) + Len(o) + 1] = m
  BY <1>1, <1>2
<1>4. ASSUME NEW k \in 1..Len(out')
      PROVE  IsTerminal(out'[k]) <=> k = Len(out')
  <2>1. CASE k \in 1..Len(out)
    BY <1>1, <1>2, <1>3, <2>1 DEF Quiet
  <2>2. CASE k \in (Len(out) + 1)..(Len(out) + Len(o))
    <3>1. k - Len(out) \in 1..Len(o)
      BY <1>2, <2>2
    <3> QED
      BY <1>2, <1>3, <2>2, <3>1 DEF Quiet
  <2>3. CASE k = Len(out) + Len(o) + 1
    BY <1>3, <2>3
  <2> QED
    BY <1>2, <1>3, <2>1, <2>2, <2>3
<1> QED
  BY <1>2, <1>3, <1>4

\* A response stays quiet when only output is sent.
LEMMA QuietMessage ==
    ASSUME TypeOK, NEW o \in Outputs, ~fatal => Quiet(out), Send(o \o <<>>)
    PROVE  ~fatal' => Quiet(out')
<1> SUFFICES ASSUME ~fatal' PROVE Quiet(out')
  OBVIOUS
<1>1. out' = out \o (o \o <<>>) /\ Quiet(out)
  BY DEF Send
<1>2. out \in Seq(Message) /\ o \in Seq(Message) /\ Quiet(o)
  BY OutputsFacts DEF TypeOK
<1>3. /\ Len(out') = Len(out) + Len(o)
      /\ \A k \in 1..Len(out) : out'[k] = out[k]
      /\ \A k \in (Len(out) + 1)..(Len(out) + Len(o)) :
            out'[k] = o[k - Len(out)]
  BY <1>1, <1>2
<1>4. ASSUME NEW k \in 1..Len(out') PROVE ~IsTerminal(out'[k])
  <2>1. CASE k \in 1..Len(out)
    BY <1>1, <1>3, <2>1 DEF Quiet
  <2>2. CASE k \in (Len(out) + 1)..(Len(out) + Len(o))
    <3>1. k - Len(out) \in 1..Len(o)
      BY <1>2, <2>2
    <3> QED
      BY <1>2, <1>3, <2>2, <3>1 DEF Quiet
  <2> QED
    BY <1>2, <1>3, <2>1, <2>2
<1> QED
  BY <1>4 DEF Quiet

\* Rejecting a command answers it.
LEMMA RejectFacts ==
    ASSUME TypeOK, NEW c \in ErrorCodes, Reject(c), ~fatal => Quiet(out)
    PROVE  AnsweredOnce'
<1>1. Error(c) \in Message /\ IsTerminal(Error(c))
  BY Messages
<1>2. <<>> \in Outputs /\ <<Error(c)>> = <<>> \o <<Error(c)>>
  BY <1>1 DEF Outputs
<1>3. Send(<<>> \o <<Error(c)>>)
  BY <1>2 DEF Reject
<1> QED
  BY <1>1, <1>2, <1>3, FinalMessage

\* One more program that is permitted has been started.
LEMMA ExecsExtended ==
    ASSUME ExecsInv, ExecPermitted, NEW e, e.rule \in permit,
           UNCHANGED permit,
           execs' = execs \/ execs' = Append(execs, e)
    PROVE  ExecsInv' /\ ExecPermitted'
<1>1. CASE execs' = execs
  BY <1>1 DEF ExecsInv, ExecPermitted
<1>2. CASE execs' = Append(execs, e)
  <2>1. PICK S : execs \in Seq(S)
    BY DEF ExecsInv
  <2>2. execs \in Seq(S \cup {e})
    BY <2>1
  <2>3. execs' \in Seq(S \cup {e}) /\ Len(execs') = Len(execs) + 1
    BY <1>2, <2>2
  <2>4. ASSUME NEW k \in 1..Len(execs') PROVE execs'[k].rule \in permit
    <3>1. CASE k = Len(execs) + 1
      BY <1>2, <2>2, <3>1
    <3>2. CASE k # Len(execs) + 1
      BY <1>2, <2>2, <2>3, <3>2 DEF ExecPermitted
    <3> QED
      BY <3>1, <3>2
  <2> QED
    BY <2>3, <2>4 DEF ExecsInv, ExecPermitted
<1> QED
  BY <1>1, <1>2

-----------------------------------------------------------------------------
(* One lemma for each way a step can go, then one for each action. *)

\* No program is started.
LEMMA NothingRun ==
    ASSUME ExecsInv, ExecPermitted, UNCHANGED <<execs, permit>>
    PROVE  ExecsInv' /\ ExecPermitted'
BY DEF ExecsInv, ExecPermitted

\* A step that sends nothing and does not finish keeps the response quiet.
LEMMA Proceed ==
    ASSUME QuietInv, pc # "done", pc' # "done",
           UNCHANGED <<out, fatal, surplus, failed, okAny>>
    PROVE  QuietInv' /\ SingleAnswer'
BY DEF QuietInv, SingleAnswer, AnsweredOnce, Quiet, IsTerminal

\* A step that refuses the command ends the response.
LEMMA Refuse ==
    ASSUME TypeOK, QuietInv, pc # "done", NEW c \in ErrorCodes, Reject(c),
           UNCHANGED <<surplus, failed, okAny>>
    PROVE  /\ out' \in Seq(Message) /\ fatal' \in BOOLEAN /\ pc' = "done"
           /\ QuietInv' /\ RuleInv' /\ SingleAnswer'
<1>1. pc' = "done" /\ Send(<<Error(c)>>)
  BY DEF Reject
<1>2. QuietInv' /\ RuleInv'
  BY <1>1 DEF QuietInv, RuleInv
<1>3. <<Error(c)>> \in Seq(Message)
  BY Messages
<1>4. out' \in Seq(Message) /\ fatal' \in BOOLEAN
  BY <1>1, <1>3, SendType
<1>5. ASSUME ~surplus, ~(failed /\ okAny) PROVE AnsweredOnce'
  <2>1. ~fatal => Quiet(out)
    BY <1>5 DEF QuietInv
  <2> QED
    BY <2>1, RejectFacts
<1>6. SingleAnswer'
  BY <1>5 DEF SingleAnswer
<1> QED
  BY <1>1, <1>2, <1>4, <1>6

\* The checks before and after the lookup.
LEMMA CheckStep ==
    ASSUME IInv, CheckCommand \/ CheckNul
    PROVE  IInv'
<1>1. /\ pc \in {"check", "nul"}
      /\ UNCHANGED <<config, permit, argv, rule, help, surplus, i, okAny,
                     statusAll, procStatus, ran, failed, execs, result>>
  BY DEF CheckCommand, CheckNul, inputs, summaryVars, processVars
<1>2. ExecsInv' /\ ExecPermitted'
  BY <1>1, NothingRun DEF IInv
<1>3. CASE Reject("BAD_COMMAND")
  <2>1. "BAD_COMMAND" \in ErrorCodes
    BY DEF ErrorCodes
  <2>2. /\ out' \in Seq(Message) /\ fatal' \in BOOLEAN /\ pc' = "done"
        /\ QuietInv' /\ RuleInv' /\ SingleAnswer'
    BY <1>1, <1>3, <2>1, Refuse DEF IInv
  <2>3. TypeOK'
    BY <1>1, <2>2, Zenon DEF IInv, TypeOK
  <2> QED
    BY <1>2, <2>2, <2>3 DEF IInv, SurplusInv
<1>4. CASE /\ (pc' = "lookup" /\ pc = "check") \/ pc' = "authorize"
           /\ UNCHANGED <<out, fatal>>
  <2>1. QuietInv' /\ SingleAnswer'
    BY <1>1, <1>4, Proceed DEF IInv
  <2>2. TypeOK'
    BY <1>1, <1>4, Zenon DEF IInv, TypeOK
  <2>3. RuleInv'
    BY <1>4 DEF RuleInv
  <2> QED
    BY <1>1, <1>2, <1>4, <2>1, <2>2, <2>3 DEF IInv, SurplusInv
<1> QED
  BY <1>3, <1>4 DEF CheckCommand, CheckNul

\* Looking up the rule.
LEMMA LookupStep ==
    ASSUME IInv, Lookup
    PROVE  IInv'
<1> DEFINE found  == find_config_line(Word(1), Word(2))
           isHelp == found = NoRule /\ Word(1) = "help"
<1>1. /\ pc = "lookup"
      /\ UNCHANGED <<config, permit, argv, i, okAny, statusAll, procStatus,
                     ran, failed, execs, result>>
  BY DEF Lookup, inputs, summaryVars, processVars
<1>2. ExecsInv' /\ ExecPermitted'
  BY <1>1, NothingRun DEF IInv
<1>3. /\ surplus' = (isHelp /\ Len(argv) > 3)
      /\ IF surplus' THEN Send(<<Error("TOOMANY_ARGS")>>)
                     ELSE UNCHANGED <<out, fatal>>
      /\ help' = (isHelp /\ Len(argv) > 1)
      /\ rule' = IF help' THEN find_config_line(Word(2), Word(3)) ELSE found
      /\ pc' = IF isHelp /\ Len(argv) = 1 THEN "summary" ELSE "nul"
  BY DEF Lookup
<1>4. pc' \in {"summary", "nul"} /\ surplus' \in BOOLEAN /\ help' \in BOOLEAN
  BY <1>3, Zenon
<1>5. rule' \in 0..Len(config)
  <2>1. found \in 0..Len(config)
    BY FindConfigLine DEF IInv
  <2>2. find_config_line(Word(2), Word(3)) \in 0..Len(config)
    BY FindConfigLine DEF IInv
  <2> QED
    BY <1>3, <2>1, <2>2
<1>6. out' \in Seq(Message) /\ fatal' \in BOOLEAN
  <2>1. CASE surplus'
    <3>1. <<Error("TOOMANY_ARGS")>> \in Seq(Message)
      BY Messages DEF ErrorCodes
    <3> QED
      BY <1>3, <2>1, <3>1, SendType DEF IInv
  <2>2. CASE ~surplus'
    BY <1>3, <2>2, Zenon DEF IInv, TypeOK
  <2> QED
    BY <2>1, <2>2
<1>7. TypeOK'
  <2>1. pc' \in {"check", "lookup", "nul", "authorize", "run", "summary",
                 "done"}
    BY <1>4
  <2> QED
    BY <1>1, <1>4, <1>5, <1>6, <2>1, Zenon DEF IInv, TypeOK
<1>8. RuleInv'
  BY <1>4 DEF RuleInv
<1>9. SingleAnswer'
  BY <1>4 DEF SingleAnswer, AnsweredOnce
<1>10. QuietInv'
  <2> SUFFICES ASSUME ~surplus', ~fatal', ~(failed' /\ okAny')
               PROVE  Quiet(out)'
    BY DEF QuietInv
  <2>1. UNCHANGED <<out, fatal>>
    BY <1>3
  <2>2. surplus \/ Quiet(out)
    BY <1>1, <2>1 DEF IInv, QuietInv
  <2>3. ~surplus
    BY <1>1 DEF IInv, SurplusInv
  <2> QED
    BY <2>1, <2>2, <2>3 DEF Quiet
<1> QED
  BY <1>2, <1>4, <1>7, <1>8, <1>9, <1>10 DEF IInv, SurplusInv

\* The ACL of the rule, and asking for help that a rule does not have.
LEMMA AuthorizeStep ==
    ASSUME IInv, Authorize \/ NoHelp
    PROVE  IInv'
<1>1. /\ pc \in {"authorize", "run"}
      /\ UNCHANGED <<config, permit, argv, rule, help, surplus, i, okAny,
                     statusAll, procStatus, ran, failed, execs, result>>
  BY DEF Authorize, NoHelp, inputs, summaryVars, processVars
<1>2. ExecsInv' /\ ExecPermitted'
  BY <1>1, NothingRun DEF IInv
<1>3. CASE \E c \in ErrorCodes : Reject(c)
  <2>1. /\ out' \in Seq(Message) /\ fatal' \in BOOLEAN /\ pc' = "done"
        /\ QuietInv' /\ RuleInv' /\ SingleAnswer'
    BY <1>1, <1>3, Refuse DEF IInv
  <2>2. TypeOK'
    BY <1>1, <2>1, Zenon DEF IInv, TypeOK
  <2> QED
    BY <1>2, <2>1, <2>2 DEF IInv, SurplusInv
<1>4. CASE rule \in permit /\ pc' = "run" /\ UNCHANGED <<out, fatal>>
  <2>1. QuietInv' /\ SingleAnswer'
    BY <1>1, <1>4, Proceed DEF IInv
  <2>2. TypeOK'
    BY <1>1, <1>4, Zenon DEF IInv, TypeOK
  <2>3. RuleInv'
    BY <1>1, <1>4 DEF RuleInv
  <2> QED
    BY <1>2, <1>4, <2>1, <2>2, <2>3 DEF IInv, SurplusInv
<1>5. CASE Authorize
  BY <1>3, <1>4, <1>5 DEF Authorize, ErrorCodes
<1>6. CASE NoHelp
  BY <1>3, <1>6 DEF NoHelp, ErrorCodes
<1> QED
  BY <1>5, <1>6

\* Output followed by one more message is a sequence of messages.
LEMMA OutputThen ==
    ASSUME NEW o \in Outputs, NEW m \in Message
    PROVE  o \o <<m>> \in Seq(Message)
<1>1. o \in Seq(Message) /\ <<m>> \in Seq(Message)
  BY OutputsFacts
<1> QED
  BY <1>1, ConcatProperties

\* server_process_run fails: one program at most is started, and what is
\* sent answers a command that had no answer yet.
LEMMA FailFacts ==
    ASSUME TypeOK, ExecsInv, ExecPermitted, UNCHANGED permit,
           NEW e, e.rule \in permit, NEW status \in Nat,
           ProcessFails(e, status)
    PROVE  /\ ExecsInv' /\ ExecPermitted'
           /\ out' \in Seq(Message) /\ fatal' \in BOOLEAN
           /\ (~fatal => Quiet(out)) => AnsweredOnce'
           /\ procStatus' = status /\ failed' = TRUE /\ ran' = ran
<1>1. Error("INTERNAL") \in Message /\ IsTerminal(Error("INTERNAL"))
  BY Messages DEF ErrorCodes
<1>2. PICK o \in Outputs : Send(o \o <<Error("INTERNAL")>>)
  <2>1. CASE Send(<<Error("INTERNAL")>>)
    <3>1. <<>> \in Outputs
      BY DEF Outputs
    <3>2. <<>> \o <<Error("INTERNAL")>> = <<Error("INTERNAL")>>
      BY <1>1
    <3> QED
      BY <2>1, <3>1, <3>2
  <2> QED
    BY <2>1 DEF ProcessFails
<1>3. out' \in Seq(Message) /\ fatal' \in BOOLEAN
  BY <1>1, <1>2, OutputThen, SendType
<1>4. ASSUME ~fatal => Quiet(out) PROVE AnsweredOnce'
  BY <1>1, <1>2, <1>4, FinalMessage
<1>5. ExecsInv' /\ ExecPermitted'
  BY ExecsExtended DEF ProcessFails
<1> QED
  BY <1>3, <1>4, <1>5 DEF ProcessFails

\* The program of a command or of its help runs.
LEMMA RunSucceedsStep ==
    ASSUME IInv, RunSucceeds
    PROVE  IInv'
<1>1. /\ pc = "run" /\ pc' = "done"
      /\ UNCHANGED <<config, permit, argv, rule, help, surplus, i, okAny,
                     statusAll, failed>>
  BY DEF RunSucceeds, ProcessSucceeds, inputs, summaryVars
<1>2. PICK status \in WaitStatuses :
        /\ ProcessSucceeds(TheExec, status, <<Status(ExitStatus(status))>>)
        /\ result' = ExitStatus(status)
  BY DEF RunSucceeds
<1>3. status \in Nat /\ ExitStatus(status) \in Int
  BY StatusAssumption, ExitStatusType
<1>4. /\ Status(ExitStatus(status)) \in Message
      /\ IsTerminal(Status(ExitStatus(status)))
  BY <1>3, Messages
<1>5. PICK o \in Outputs : Send(o \o <<Status(ExitStatus(status))>>)
  BY <1>2 DEF ProcessSucceeds
<1>6. out' \in Seq(Message) /\ fatal' \in BOOLEAN
  BY <1>4, <1>5, OutputThen, SendType DEF IInv
<1>7. TheExec.rule = rule /\ rule \in permit
  BY <1>1 DEF TheExec, Exec, IInv, RuleInv
<1>8. ExecsInv' /\ ExecPermitted'
  BY <1>1, <1>2, <1>7, ExecsExtended DEF ProcessSucceeds, IInv
<1>9. SingleAnswer'
  <2>1. ASSUME ~surplus, ~(failed /\ okAny) PROVE AnsweredOnce'
    <3>1. ~fatal => Quiet(out)
      BY <1>1, <2>1 DEF IInv, QuietInv
    <3> QED
      BY <1>4, <1>5, <3>1, FinalMessage DEF IInv
  <2> QED
    BY <1>1, <2>1 DEF SingleAnswer
<1>10. TypeOK'
  <2>1. ran' \in Seq(Nat)
    BY <1>2, <1>3 DEF ProcessSucceeds, IInv, TypeOK
  <2>2. procStatus' \in Nat /\ result' \in Int
    BY <1>2, <1>3 DEF ProcessSucceeds
  <2> QED
    BY <1>1, <1>6, <2>1, <2>2, Zenon DEF IInv, TypeOK
<1> QED
  BY <1>1, <1>8, <1>9, <1>10 DEF IInv, SurplusInv, RuleInv, QuietInv

\* The program of a command or of its help cannot be run to its end.
LEMMA RunFailsStep ==
    ASSUME IInv, RunFails
    PROVE  IInv'
<1>1. /\ pc = "run" /\ pc' = "done"
      /\ UNCHANGED <<config, permit, argv, rule, help, surplus, i, okAny,
                     statusAll>>
  BY DEF RunFails, inputs, summaryVars
<1>2. PICK status \in WaitStatuses \cup {0} :
        ProcessFails(TheExec, status) /\ result' = status
  BY DEF RunFails
<1>3. status \in Nat
  BY StatusAssumption
<1>4. TheExec.rule = rule /\ rule \in permit
  BY <1>1 DEF TheExec, Exec, IInv, RuleInv
<1>5. /\ ExecsInv' /\ ExecPermitted'
      /\ out' \in Seq(Message) /\ fatal' \in BOOLEAN
      /\ (~fatal => Quiet(out)) => AnsweredOnce'
      /\ procStatus' = status /\ failed' = TRUE /\ ran' = ran
  BY <1>1, <1>2, <1>3, <1>4, FailFacts DEF IInv
<1>6. SingleAnswer'
  <2>1. ASSUME ~surplus', ~(failed' /\ okAny') PROVE AnsweredOnce'
    BY <1>1, <1>5, <2>1 DEF IInv, QuietInv
  <2> QED
    BY <2>1 DEF SingleAnswer
<1>7. TypeOK'
  <2>1. procStatus' \in Nat /\ result' \in Int /\ failed' \in BOOLEAN
    BY <1>2, <1>3, <1>5
  <2> QED
    BY <1>1, <1>5, <2>1, Zenon DEF IInv, TypeOK
<1> QED
  BY <1>1, <1>5, <1>6, <1>7 DEF IInv, SurplusInv, RuleInv, QuietInv

\* A rule without a summary, or whose ACL does not permit the user.
LEMMA SummarySkipStep ==
    ASSUME IInv, SummarySkip
    PROVE  IInv'
<1>1. /\ pc = "summary" /\ procStatus' = 0 /\ i' = i + 1
      /\ UNCHANGED <<config, permit, argv, pc, rule, help, surplus, okAny,
                     statusAll, ran, failed, execs, out, fatal, result>>
  BY DEF SummarySkip, inputs
<1>2. ExecsInv' /\ ExecPermitted' /\ QuietInv' /\ SingleAnswer'
  BY <1>1, NothingRun, Proceed DEF IInv
<1>3. procStatus' \in Nat /\ i' \in Nat \ {0}
  BY <1>1 DEF IInv, TypeOK
<1>4. TypeOK'
  BY <1>1, <1>3, Zenon DEF IInv, TypeOK
<1> QED
  BY <1>1, <1>2, <1>4 DEF IInv, SurplusInv, RuleInv

\* The summary of one rule.
LEMMA SummaryRunStep ==
    ASSUME IInv, SummaryRun
    PROVE  IInv'
<1>1. /\ pc = "summary" /\ i' = i + 1 /\ i \in permit /\ okAny' = TRUE
      /\ UNCHANGED <<config, permit, argv, pc, rule, help, surplus, result,
                     failed>>
  BY DEF SummaryRun, ProcessSucceeds, Summarized, inputs
<1>2. PICK status \in WaitStatuses :
        /\ ProcessSucceeds(SummaryExec(i), status, <<>>)
        /\ statusAll' = IF status # 0 THEN status ELSE statusAll
  BY DEF SummaryRun
<1>3. status \in Nat
  BY StatusAssumption
<1>4. PICK o \in Outputs : Send(o \o <<>>)
  BY <1>2 DEF ProcessSucceeds
<1>5. out' \in Seq(Message) /\ fatal' \in BOOLEAN
  <2>1. o \o <<>> \in Seq(Message)
    BY OutputsFacts
  <2> QED
    BY <1>4, <2>1, SendType DEF IInv
<1>6. SummaryExec(i).rule = i
  BY DEF SummaryExec, Exec
<1>7. ExecsInv' /\ ExecPermitted'
  BY <1>1, <1>2, <1>6, ExecsExtended DEF ProcessSucceeds, IInv
<1>8. QuietInv'
  <2>1. ASSUME ~surplus, ~failed PROVE ~fatal' => Quiet(out')
    BY <1>1, <1>4, <2>1, QuietMessage DEF IInv, QuietInv
  <2> QED
    BY <1>1, <2>1 DEF QuietInv, Quiet, IsTerminal
<1>9. SingleAnswer'
  BY <1>1 DEF SingleAnswer, AnsweredOnce
<1>10. TypeOK'
  <2>1. ran' \in Seq(Nat)
    BY <1>2, <1>3 DEF ProcessSucceeds, IInv, TypeOK
  <2>2. /\ procStatus' \in Nat /\ i' \in Nat \ {0}
        /\ statusAll' \in Nat
    BY <1>1, <1>2, <1>3 DEF ProcessSucceeds, IInv, TypeOK
  <2> QED
    BY <1>1, <1>5, <2>1, <2>2, Zenon DEF IInv, TypeOK
<1> QED
  BY <1>1, <1>7, <1>8, <1>9, <1>10 DEF IInv, SurplusInv, RuleInv

\* The program of a summary cannot be run to its end.
LEMMA SummaryRunFailsStep ==
    ASSUME IInv, SummaryRunFails
    PROVE  IInv'
<1>1. /\ pc = "summary" /\ i' = i + 1 /\ i \in permit /\ okAny' = TRUE
      /\ UNCHANGED <<config, permit, argv, pc, rule, help, surplus, result,
                     statusAll>>
  BY DEF SummaryRunFails, Summarized, inputs
<1>2. PICK status \in WaitStatuses \cup {0} :
        ProcessFails(SummaryExec(i), status)
  BY DEF SummaryRunFails
<1>3. status \in Nat
  BY StatusAssumption
<1>4. SummaryExec(i).rule = i
  BY DEF SummaryExec, Exec
<1>5. /\ ExecsInv' /\ ExecPermitted'
      /\ out' \in Seq(Message) /\ fatal' \in BOOLEAN
      /\ procStatus' = status /\ failed' = TRUE /\ ran' = ran
  BY <1>1, <1>2, <1>3, <1>4, FailFacts DEF IInv
<1>6. QuietInv' /\ SingleAnswer'
  BY <1>1, <1>5 DEF QuietInv, SingleAnswer
<1>7. TypeOK'
  <2>1. procStatus' \in Nat /\ i' \in Nat \ {0} /\ failed' \in BOOLEAN
    BY <1>1, <1>3, <1>5 DEF IInv, TypeOK
  <2> QED
    BY <1>1, <1>5, <2>1, Zenon DEF IInv, TypeOK
<1> QED
  BY <1>1, <1>5, <1>6, <1>7 DEF IInv, SurplusInv, RuleInv

\* The status or the error that ends a summary.
LEMMA SummaryEndStep ==
    ASSUME IInv, SummaryEnd
    PROVE  IInv'
<1>1. /\ pc = "summary" /\ pc' = "done"
      /\ UNCHANGED <<config, permit, argv, rule, help, surplus, i, okAny,
                     statusAll, procStatus, ran, failed, execs, result>>
  BY DEF SummaryEnd, inputs, summaryVars, processVars
<1>2. ExecsInv' /\ ExecPermitted'
  BY <1>1, NothingRun DEF IInv
<1>3. PICK m \in Message : IsTerminal(m) /\ Send(<<m>>)
  <2>1. CASE okAny
    <3>1. WEXITSTATUS(procStatus) \in Int
      BY ExitStatusType DEF IInv, TypeOK
    <3>2. (IF WIFEXITED(statusAll) THEN WEXITSTATUS(procStatus) ELSE -1) \in Int
      BY <3>1
    <3> QED
      BY <2>1, <3>2, Messages DEF SummaryEnd
  <2>2. CASE ~okAny
    BY <2>2, Messages DEF SummaryEnd, ErrorCodes
  <2> QED
    BY <2>1, <2>2
<1>4. <<>> \in Outputs /\ <<m>> = <<>> \o <<m>> /\ <<m>> \in Seq(Message)
  BY DEF Outputs
<1>5. out' \in Seq(Message) /\ fatal' \in BOOLEAN
  BY <1>3, <1>4, SendType DEF IInv
<1>6. SingleAnswer'
  <2>1. ASSUME ~surplus, ~(failed /\ okAny) PROVE AnsweredOnce'
    <3>1. ~fatal => Quiet(out)
      BY <1>1, <2>1 DEF IInv, QuietInv
    <3> QED
      BY <1>3, <1>4, <3>1, FinalMessage DEF IInv
  <2> QED
    BY <1>1, <2>1 DEF SingleAnswer
<1>7. TypeOK'
  BY <1>1, <1>5, Zenon DEF IInv, TypeOK
<1> QED
  BY <1>1, <1>2, <1>6, <1>7 DEF IInv, SurplusInv, RuleInv, QuietInv

\* The start of server_run_command.
LEMMA InitInv == Init => IInv
<1> SUFFICES ASSUME Init PROVE IInv
  OBVIOUS
<1>1. config \in Seq(Rule) /\ argv \in Seq(Argument)
  BY ConfigsAssumption, RequestsAssumption DEF Init
<1>2. /\ rule \in 0..Len(config) /\ i \in Nat \ {0} /\ statusAll \in Nat
      /\ procStatus \in Nat /\ ran \in Seq(Nat) /\ out \in Seq(Message)
      /\ result \in Int /\ permit \subseteq 1..Len(config)
  BY <1>1 DEF Init, NoRule
<1>3. TypeOK
  BY <1>1, <1>2, Zenon DEF Init, TypeOK
<1>4. execs = <<>> /\ <<>> \in Seq({}) /\ Len(<<>>) = 0
  BY DEF Init
<1> QED
  BY <1>3, <1>4 DEF Init, IInv, SurplusInv, ExecsInv, RuleInv, QuietInv, Quiet,
     ExecPermitted, SingleAnswer, AnsweredOnce

\* IInv is an inductive invariant.
THEOREM Invariance == Spec => []IInv
<1>1. ASSUME IInv, [Next]_vars PROVE IInv'
  <2>1. CASE UNCHANGED vars
    BY <1>1, <2>1 DEF vars, inputs, summaryVars, processVars, IInv, TypeOK,
       SurplusInv, ExecsInv, RuleInv, QuietInv, Quiet, IsTerminal,
       ExecPermitted, SingleAnswer, AnsweredOnce
  <2>2. CASE Finished
    BY <2>1, <2>2 DEF Finished
  <2> QED
    BY <1>1, <2>1, <2>2, CheckStep, LookupStep, AuthorizeStep,
       RunSucceedsStep, RunFailsStep, SummarySkipStep, SummaryRunStep,
       SummaryRunFailsStep, SummaryEndStep DEF Next
<1> QED
  BY <1>1, InitInv, PTL DEF Spec

\* Type correctness of server_run_command.
THEOREM TypeCorrect == Spec => []TypeOK
<1>1. IInv => TypeOK
  BY DEF IInv
<1> QED
  BY <1>1, Invariance, PTL

\* No program is started for a user whom the ACL of its rule does not permit,
\* whatever the rules, the ACLs and the command are.
THEOREM Permitted == Spec => []ExecPermitted
<1>1. IInv => ExecPermitted
  BY DEF IInv
<1> QED
  BY <1>1, Invariance, PTL

\* The client gets exactly one status or error, as the last message, for
\* every command but the two kinds that SingleAnswer names.
THEOREM Answered == Spec => []SingleAnswer
<1>1. IInv => SingleAnswer
  BY DEF IInv
<1> QED
  BY <1>1, Invariance, PTL

-----------------------------------------------------------------------------
(* The arguments of the program *)

\* What the program is started with is fixed by the rule and the command.
LEMMA SameExec ==
    ASSUME UNCHANGED <<config, argv, rule, help>>
    PROVE  TheExec' = TheExec /\ \A k : NulAllowed(k)' <=> NulAllowed(k)
BY DEF TheExec, Exec, create_argv_command, create_argv_help, StdinPosition,
       NulAllowed

\* A step that starts nothing and ends the command, or that leaves pc.
LEMMA NoMoreRuns ==
    ASSUME RunInv, NulInv, UNCHANGED <<config, argv, rule, help, execs>>,
           pc' = pc \/ pc' = "done"
    PROVE  RunInv' /\ NulInv'
<1>1. TheExec' = TheExec /\ \A k : NulAllowed(k)' <=> NulAllowed(k)
  BY SameExec
<1>2. RunInv'
  BY <1>1 DEF RunInv, NoRule
<1>3. NulInv'
  BY <1>1 DEF NulInv, Past
<1> QED
  BY <1>2, <1>3

\* The command is run, or its program could not be started.
LEMMA OneRun ==
    ASSUME RunInv, NulInv, pc = "run", pc' = "done",
           UNCHANGED <<config, argv, rule, help>>,
           execs' = execs \/ execs' = Append(execs, TheExec)
    PROVE  RunInv' /\ NulInv'
<1>1. TheExec' = TheExec /\ \A k : NulAllowed(k)' <=> NulAllowed(k)
  BY SameExec
<1>2. execs = <<>>
  BY DEF RunInv
<1>3. execs' = <<>> \/ execs' = <<TheExec>>
  BY <1>2
<1>4. RunInv'
  BY <1>1, <1>3 DEF RunInv
<1>5. NulInv'
  BY <1>1 DEF NulInv, Past
<1> QED
  BY <1>4, <1>5

\* A step of a summary.
LEMMA SummaryRuns ==
    ASSUME RunInv, NulInv, pc = "summary", pc' \in {"summary", "done"},
           UNCHANGED <<config, argv, rule, help>>
    PROVE  RunInv' /\ NulInv'
<1>1. \A k : NulAllowed(k)' <=> NulAllowed(k)
  BY SameExec
<1>2. RunInv'
  BY DEF RunInv
<1>3. NulInv'
  BY <1>1 DEF NulInv, Past
<1> QED
  BY <1>2, <1>3

\* The lookup finds the rule of the command.
LEMMA LookupRuns ==
    ASSUME RunInv, NulInv, Lookup
    PROVE  RunInv' /\ NulInv'
<1>1. /\ pc = "lookup" /\ UNCHANGED <<argv, execs>>
      /\ pc' \in {"summary", "nul"}
  BY DEF Lookup, inputs, processVars
<1>2. pc' = "summary" => rule' = NoRule /\ Len(argv) = 1
  <2> SUFFICES ASSUME pc' = "summary" PROVE rule' = NoRule /\ Len(argv) = 1
    OBVIOUS
  <2> DEFINE found == find_config_line(Word(1), Word(2))
             isHelp == found = NoRule /\ Word(1) = "help"
  <2>1. /\ help' = (isHelp /\ Len(argv) > 1)
        /\ rule' = IF help' THEN find_config_line(Word(2), Word(3)) ELSE found
        /\ pc' = IF isHelp /\ Len(argv) = 1 THEN "summary" ELSE "nul"
    BY DEF Lookup
  <2>2. isHelp /\ Len(argv) = 1
    BY <2>1, Zenon
  <2>3. ~(Len(argv) > 1)
    BY <2>2
  <2>4. ~help'
    BY <2>1, <2>3
  <2> QED
    BY <2>1, <2>2, <2>4
<1>3. execs' = <<>>
  BY <1>1 DEF RunInv
<1>4. RunInv'
  BY <1>1, <1>2, <1>3 DEF RunInv
<1>5. pc' = "summary" => 2..Len(argv) = {}
  <2>1. 2..1 = {}
    OBVIOUS
  <2> QED
    BY <1>2, <2>1, Zenon
<1>6. NulInv'
  BY <1>1, <1>3, <1>5 DEF NulInv, Past
<1> QED
  BY <1>4, <1>6

\* RunInv and NulInv are kept by every step.
LEMMA RunsStep ==
    ASSUME RunInv, NulInv, [Next]_vars
    PROVE  RunInv' /\ NulInv'
<1>1. CASE UNCHANGED vars \/ Finished
  <2>1. UNCHANGED <<config, argv, rule, help, execs, pc>>
    BY <1>1 DEF Finished, vars, inputs, processVars
  <2> QED
    BY <2>1, NoMoreRuns
<1>2. CASE CheckCommand
  <2>1. UNCHANGED <<config, argv, rule, help, execs>> /\ pc = "check"
    BY <1>2 DEF CheckCommand, inputs, processVars
  <2>2. CASE argv = <<>> \/ \E k \in 1..Len(argv) : k <= 2 /\ argv[k].nul
    <3>1. pc' = "done"
      BY <1>2, <2>2 DEF CheckCommand, Reject
    <3> QED
      BY <2>1, <3>1, NoMoreRuns
  <2>3. CASE ~(argv = <<>> \/ \E k \in 1..Len(argv) : k <= 2 /\ argv[k].nul)
    <3>1. pc' = "lookup" /\ execs = <<>>
      BY <1>2, <2>1, <2>3 DEF CheckCommand, RunInv
    <3>2. RunInv'
      BY <2>1, <3>1 DEF RunInv
    <3>3. NulInv'
      BY <2>1, <2>3, <3>1 DEF NulInv, Past
    <3> QED
      BY <3>2, <3>3
  <2> QED
    BY <2>2, <2>3
<1>3. CASE Lookup
  BY <1>3, LookupRuns
<1>4. CASE CheckNul
  <2>1. UNCHANGED <<config, argv, rule, help, execs>> /\ pc = "nul"
    BY <1>4 DEF CheckNul, inputs, processVars
  <2>2. CASE \E k \in 2..Len(argv) : argv[k].nul /\ ~NulAllowed(k)
    <3>1. pc' = "done"
      BY <1>4, <2>2 DEF CheckNul, Reject
    <3> QED
      BY <2>1, <3>1, NoMoreRuns
  <2>3. CASE ~\E k \in 2..Len(argv) : argv[k].nul /\ ~NulAllowed(k)
    <3>1. pc' = "authorize" /\ execs = <<>>
      BY <1>4, <2>1, <2>3 DEF CheckNul, RunInv
    <3>2. \A k : NulAllowed(k)' <=> NulAllowed(k)
      BY <2>1, SameExec
    <3>3. RunInv'
      BY <2>1, <3>1 DEF RunInv
    <3>4. NulInv'
      BY <2>1, <2>3, <3>1, <3>2 DEF NulInv, Past
    <3> QED
      BY <3>3, <3>4
  <2> QED
    BY <2>2, <2>3
<1>5. CASE Authorize
  <2>1. UNCHANGED <<config, argv, rule, help, execs>> /\ pc = "authorize"
    BY <1>5 DEF Authorize, inputs, processVars
  <2>2. pc' = "done" \/ pc' = "run"
    BY <1>5 DEF Authorize, Reject
  <2>3. CASE pc' = "done"
    BY <2>1, <2>3, NoMoreRuns
  <2>4. CASE pc' = "run"
    <3>1. \A k : NulAllowed(k)' <=> NulAllowed(k)
      BY <2>1, SameExec
    <3>2. RunInv'
      BY <2>1, <2>4 DEF RunInv
    <3>3. NulInv'
      BY <2>1, <2>4, <3>1 DEF NulInv, Past
    <3> QED
      BY <3>2, <3>3
  <2> QED
    BY <2>2, <2>3, <2>4
<1>6. CASE NoHelp
  <2>1. UNCHANGED <<config, argv, rule, help, execs>> /\ pc' = "done"
    BY <1>6 DEF NoHelp, Reject, inputs, processVars
  <2> QED
    BY <2>1, NoMoreRuns
<1>7. CASE RunSucceeds
  <2>1. /\ UNCHANGED <<config, argv, rule, help>>
        /\ pc = "run" /\ pc' = "done"
        /\ execs' = Append(execs, TheExec)
    BY <1>7 DEF RunSucceeds, ProcessSucceeds, inputs
  <2> QED
    BY <2>1, OneRun
<1>8. CASE RunFails
  <2>1. /\ UNCHANGED <<config, argv, rule, help>>
        /\ pc = "run" /\ pc' = "done"
        /\ execs' = execs \/ execs' = Append(execs, TheExec)
    BY <1>8 DEF RunFails, ProcessFails, inputs
  <2> QED
    BY <2>1, OneRun
<1>9. CASE SummarySkip \/ SummaryRun \/ SummaryRunFails \/ SummaryEnd
  <2>1. /\ UNCHANGED <<config, argv, rule, help>>
        /\ pc = "summary" /\ pc' \in {"summary", "done"}
    BY <1>9 DEF SummarySkip, SummaryRun, SummaryRunFails, SummaryEnd, inputs
  <2> QED
    BY <2>1, SummaryRuns
<1> QED
  BY <1>1, <1>2, <1>3, <1>4, <1>5, <1>6, <1>7, <1>8, <1>9 DEF Next

LEMMA Runs == Spec => [](RunInv /\ NulInv)
<1>1. Init => RunInv /\ NulInv
  BY DEF Init, RunInv, NulInv, Past
<1> QED
  BY <1>1, RunsStep, PTL DEF Spec

\* An argument passed on standard input is the only one with a NUL.
LEMMA NulsOnStdin ==
    ASSUME TypeOK, RunInv, NulInv
    PROVE  NulOnlyOnStdin
<1> SUFFICES ASSUME pc = "done", ~help, execs # <<>>,
                    NEW k \in 1..Len(argv), argv[k].nul
             PROVE  execs[1].input = <<argv[k]>>
  BY DEF NulOnlyOnStdin
<1>0. Len(argv) \in Nat
  BY LenProperties DEF TypeOK
<1>1. k > 2 /\ NulAllowed(k)
  BY <1>0 DEF NulInv, Past
<1>2. execs = <<TheExec>>
  BY <1>0, <1>1 DEF RunInv
<1>3. /\ rule # NoRule
      /\ config[rule].stdin = k - 1
         \/ (k = Len(argv) /\ config[rule].stdin = -1)
  BY <1>1 DEF NulAllowed
<1>4. StdinPosition = k
  BY <1>0, <1>1, <1>3 DEF StdinPosition
<1>5. TheExec.input = <<argv[k]>>
  BY <1>0, <1>1, <1>4 DEF TheExec, Exec
<1> QED
  BY <1>2, <1>5

\* No argument of a command that is run is cut short at a NUL, whatever rule,
\* offset of the argument for standard input and arguments there are.
THEOREM NulsStayOffTheCommandLine == Spec => []NulOnlyOnStdin
<1>1. TypeOK /\ RunInv /\ NulInv => NulOnlyOnStdin
  BY NulsOnStdin
<1> QED
  BY <1>1, TypeCorrect, Runs, PTL

\* What a command line is made of.  The provers do not know that a literal is
\* in STRING.
Strings == STRING \cup {"sudo", "-u", "--"}

\* Words of the command from some position on are a sequence of strings.
LEMMA WordsFacts ==
    ASSUME argv \in Seq(Argument), NEW n \in Nat, NEW m \in Nat,
           n + m <= Len(argv)
    PROVE  LET ws == [k \in 1..n |-> argv[k + m].word] IN
           /\ ws \in Seq(Strings) /\ Len(ws) = n
           /\ \A k \in 1..n : ws[k] = argv[k + m].word
<1> DEFINE ws == [k \in 1..n |-> argv[k + m].word]
<1>0. Len(argv) \in Nat
  BY LenProperties
<1>1. ASSUME NEW k \in 1..n PROVE argv[k + m].word \in Strings
  <2>1. k + m \in 1..Len(argv)
    BY <1>0
  <2>2. argv[k + m] \in Argument
    BY <2>1, ElementOfSeq
  <2> QED
    BY <2>2 DEF Argument, Strings
<1>2. ws \in Seq(Strings) /\ Len(ws) = n
  BY <1>1, IsASeq
<1> QED
  BY <1>2

\* What follows the name of the program.
LEMMA ConcatTail ==
    ASSUME NEW S, NEW p \in Seq(S), NEW w \in Seq(S)
    PROVE  /\ Len(p \o w) = Len(p) + Len(w)
           /\ SubSeq(p \o w, Len(p) + 1, Len(p) + Len(w)) = w
<1> DEFINE m == Len(p)
           n == Len(w)
           c == p \o w
           t == SubSeq(c, m + 1, m + n)
<1>1. m \in Nat /\ n \in Nat
  BY LenProperties
<1>2. /\ c \in Seq(S) /\ Len(c) = m + n
      /\ \A j \in 1..(m + n) : c[j] = IF j <= m THEN p[j] ELSE w[j - m]
  BY ConcatProperties
<1> HIDE DEF c
<1>3. \A j \in (m + 1)..(m + n) : c[j] \in S
  BY <1>1, <1>2, ElementOfSeq
<1>4. /\ t \in Seq(S)
      /\ Len(t) = IF m + 1 <= m + n THEN (m + n) - (m + 1) + 1 ELSE 0
      /\ \A j \in 1..((m + n) - (m + 1) + 1) : t[j] = c[(m + 1) + j - 1]
  BY <1>1, <1>3, SubSeqProperties
<1> HIDE DEF t, m, n
<1>5. Len(t) = n
  BY <1>1, <1>4
<1>6. ASSUME NEW j \in 1..n PROVE t[j] = w[j]
  <2>1. t[j] = c[m + j]
    BY <1>1, <1>4
  <2>2. m + j \in 1..(m + n) /\ ~(m + j <= m) /\ (m + j) - m = j
    BY <1>1
  <2> QED
    BY <1>2, <2>1, <2>2
<1>7. t = w
  BY <1>4, <1>5, <1>6, SeqEqual DEF n
<1> QED
  BY <1>2, <1>7 DEF t, m, n, c

\* Splicing out an argument removes it from the words of the command.
LEMMA Spliced ==
    ASSUME argv \in Seq(Argument), NEW q \in 2..Len(argv)
    PROVE  LET words == [k \in 1..(Len(argv) - 1) |-> argv[k + 1].word]
               before == [k \in 1..(q - 2) |-> argv[k + 1].word]
               after == [k \in 1..(Len(argv) - q) |-> argv[k + q].word]
           IN /\ before \o after = RemoveAt(words, q - 1)
              /\ before \o after \in Seq(Strings)
              /\ Len(before \o after) = Len(argv) - 2
<1> DEFINE L == Len(argv)
           words == [k \in 1..(L - 1) |-> argv[k + 1].word]
           before == [k \in 1..(q - 2) |-> argv[k + 1].word]
           after == [k \in 1..(L - q) |-> argv[k + q].word]
           left == SubSeq(words, 1, (q - 1) - 1)
           right == SubSeq(words, (q - 1) + 1, Len(words))
<1>1. L \in Nat /\ L >= 2 /\ q \in Nat
  BY LenProperties
<1>2. /\ words \in Seq(Strings) /\ Len(words) = L - 1
      /\ \A k \in 1..(L - 1) : words[k] = argv[k + 1].word
  <2>1. L - 1 \in Nat /\ (L - 1) + 1 <= Len(argv) /\ 1 \in Nat
    BY <1>1
  <2> QED
    BY <2>1, WordsFacts
<1>3. /\ before \in Seq(Strings) /\ Len(before) = q - 2
      /\ \A k \in 1..(q - 2) : before[k] = argv[k + 1].word
  <2>1. q - 2 \in Nat /\ (q - 2) + 1 <= Len(argv) /\ 1 \in Nat
    BY <1>1
  <2> QED
    BY <2>1, WordsFacts
<1>4. /\ after \in Seq(Strings) /\ Len(after) = L - q
      /\ \A k \in 1..(L - q) : after[k] = argv[k + q].word
  <2>1. L - q \in Nat /\ (L - q) + q <= Len(argv) /\ q \in Nat
    BY <1>1
  <2> QED
    BY <2>1, WordsFacts
<1> HIDE DEF words, before, after
<1>5. \A k \in 1..(L - 1) : words[k] \in Strings
  BY <1>2, ElementOfSeq
<1>6. /\ left \in Seq(Strings)
      /\ Len(left) = IF 1 <= (q - 1) - 1 THEN ((q - 1) - 1) - 1 + 1 ELSE 0
      /\ \A k \in 1..(((q - 1) - 1) - 1 + 1) : left[k] = words[1 + k - 1]
  <2>1. \A k \in 1..((q - 1) - 1) : words[k] \in Strings
    BY <1>1, <1>5
  <2>2. (q - 1) - 1 \in Int /\ 1 \in Int
    BY <1>1
  <2> QED
    BY <2>1, <2>2, SubSeqProperties
<1>7. /\ right \in Seq(Strings)
      /\ Len(right) = IF (q - 1) + 1 <= Len(words)
                        THEN Len(words) - ((q - 1) + 1) + 1 ELSE 0
      /\ \A k \in 1..(Len(words) - ((q - 1) + 1) + 1) :
            right[k] = words[((q - 1) + 1) + k - 1]
  <2>1. \A k \in ((q - 1) + 1)..Len(words) : words[k] \in Strings
    BY <1>1, <1>2, <1>5
  <2>2. (q - 1) + 1 \in Int /\ Len(words) \in Int
    BY <1>1, <1>2
  <2> QED
    BY <2>1, <2>2, SubSeqProperties
<1> HIDE DEF left, right, L
<1>8. before = left
  <2>1. Len(before) = Len(left)
    BY <1>1, <1>3, <1>6
  <2>2. \A k \in 1..Len(before) : before[k] = left[k]
    <3> SUFFICES ASSUME NEW k \in 1..(q - 2) PROVE before[k] = left[k]
      BY <1>3
    <3>1. left[k] = words[k] /\ k \in 1..(L - 1)
      BY <1>1, <1>6 DEF L
    <3> QED
      BY <1>2, <1>3, <3>1
  <2> QED
    BY <1>3, <1>6, <2>1, <2>2, SeqEqual
<1>9. after = right
  <2>1. Len(after) = Len(right)
    BY <1>1, <1>2, <1>4, <1>7 DEF L
  <2>2. \A k \in 1..Len(after) : after[k] = right[k]
    <3> SUFFICES ASSUME NEW k \in 1..(L - q) PROVE after[k] = right[k]
      BY <1>4
    <3>1. k \in 1..(Len(words) - ((q - 1) + 1) + 1)
      BY <1>1, <1>2 DEF L
    <3>2. ((q - 1) + 1) + k - 1 = (q + k) - 1
      BY <1>1 DEF L
    <3>3. (q + k) - 1 \in 1..(L - 1) /\ ((q + k) - 1) + 1 = k + q
      BY <1>1 DEF L
    <3>4. right[k] = words[(q + k) - 1]
      BY <1>7, <3>1, <3>2
    <3>5. words[(q + k) - 1] = argv[k + q].word
      BY <1>2, <3>3
    <3> QED
      BY <1>4, <3>4, <3>5
  <2> QED
    BY <1>4, <1>7, <2>1, <2>2, SeqEqual
<1>10. /\ before \o after \in Seq(Strings)
       /\ Len(before \o after) = Len(before) + Len(after)
  BY <1>3, <1>4, ConcatProperties
<1>11. Len(before) + Len(after) = L - 2
  BY <1>1, <1>3, <1>4 DEF L
<1>12. before \o after = RemoveAt(words, q - 1)
  BY <1>8, <1>9 DEF RemoveAt, left, right
<1> QED
  BY <1>10, <1>11, <1>12 DEF words, before, after, L

\* The last words on the command line are those of the command.
LEMMA ArgumentsPassed ==
    ASSUME TypeOK, RunInv, NulInv
    PROVE  ArgumentsReachProgram
<1> DEFINE words == [k \in 1..(Len(argv) - 1) |-> argv[k + 1].word]
           name == IF config[rule].sudo = Null THEN <<config[rule].program>>
                   ELSE <<"sudo", "-u", config[rule].sudo, "--",
                          config[rule].program>>
           size == IF config[rule].sudo = Null THEN 1 ELSE 5
           e == execs[1]
<1> SUFFICES ASSUME CommandRun PROVE PassedWith(Designated)
  BY DEF ArgumentsReachProgram
<1>0. pc = "done" /\ ~help /\ rule # NoRule /\ execs # <<>>
  BY DEF CommandRun
<1>1. e = TheExec
  BY <1>0 DEF RunInv
<1>2. argv \in Seq(Argument) /\ Len(argv) \in Nat /\ Len(argv) >= 1
  <2>1. argv \in Seq(Argument) /\ argv # <<>>
    BY <1>0 DEF TypeOK, NulInv, Past
  <2> QED
    BY <2>1, EmptySeq, LenProperties
<1>r. config[rule] \in Rule
  <2>1. config \in Seq(Rule) /\ rule \in 1..Len(config)
    BY <1>0, LenProperties DEF TypeOK, NoRule
  <2> QED
    BY <2>1, ElementOfSeq
<1>3. name \in Seq(Strings)
  <2>1. config[rule] \in Rule
    BY <1>r
  <2>2. config[rule].program \in Strings /\ config[rule].sudo \in Strings
    BY <2>1 DEF Rule, Strings
  <2> DEFINE r == config[rule]
  <2>3. <<r.program>> \in Seq(Strings)
    BY <2>2
  <2>4. <<"sudo", "-u", r.sudo, "--", r.program>> \in Seq(Strings)
    <3>1. \A S : \A a, b, c, d, f \in S : <<a, b, c, d, f>> \in Seq(S)
      OBVIOUS
    <3>2. "sudo" \in Strings /\ "-u" \in Strings /\ "--" \in Strings
      BY DEF Strings
    <3> QED
      BY <2>2, <3>1, <3>2, Zenon
  <2> QED
    BY <2>3, <2>4, Zenon
<1>4. words \in Seq(Strings) /\ Len(words) = Len(argv) - 1
  <2>1. Len(argv) - 1 \in Nat /\ (Len(argv) - 1) + 1 <= Len(argv) /\ 1 \in Nat
    BY <1>2
  <2> QED
    BY <1>2, <2>1, WordsFacts
<1>5. Len(name) = size /\ size \in Nat
  <2>1. \A a, b, c, d, f : Len(<<a>>) = 1 /\ Len(<<a, b, c, d, f>>) = 5
    OBVIOUS
  <2> QED
    BY <2>1, Zenon
<1>6. CASE StdinPosition \notin 2..Len(argv)
  <2>0. create_argv_command = name \o words
    BY <1>6, Zenon DEF create_argv_command
  <2>1. e.argv = name \o words /\ e.input = NoInput
    <3>1. e = Exec(rule, name \o words, NoInput)
      BY <1>0, <1>1, <1>6, <2>0, Zenon DEF TheExec
    <3> HIDE DEF name, words, e
    <3> QED
      BY <3>1 DEF Exec
  <2>2. Designated = 0
    <3>1. config[rule].stdin \in Int
      BY <1>r DEF Rule
    <3>2. CASE config[rule].stdin = -1
      <4>1. Len(argv) \notin 2..Len(argv)
        BY <1>6, <3>2 DEF StdinPosition
      <4>2. Len(argv) - 1 = 0
        <5>1. \A n \in Nat : n >= 1 /\ n \notin 2..n => n - 1 = 0
          OBVIOUS
        <5> QED
          BY <1>2, <4>1, <5>1
      <4> QED
        BY <3>2, <4>2 DEF Designated
    <3>3. CASE config[rule].stdin # -1
      <4>1. config[rule].stdin + 1 \notin 2..Len(argv)
        BY <1>6, <3>3 DEF StdinPosition
      <4>2. config[rule].stdin \notin 1..(Len(argv) - 1)
        BY <1>2, <3>1, <4>1
      <4> QED
        BY <3>3, <4>2 DEF Designated
    <3> QED
      BY <3>2, <3>3
  <2> HIDE DEF name
  <2>3. /\ Len(e.argv) = size + Len(words)
        /\ SubSeq(e.argv, size + 1, size + Len(words)) = words
    <3> HIDE DEF words, e
    <3> QED
      BY <1>3, <1>4, <1>5, <2>1, ConcatTail
  <2> HIDE DEF Designated
  <2> QED
    BY <2>1, <2>2, <2>3 DEF PassedWith
<1>7. CASE StdinPosition \in 2..Len(argv)
  <2> DEFINE q == StdinPosition
             before == [k \in 1..(q - 2) |-> argv[k + 1].word]
             after == [k \in 1..(Len(argv) - q) |-> argv[k + q].word]
             rest == before \o after
  <2>1. e.argv = name \o rest /\ e.input = <<argv[q]>>
    BY <1>0, <1>1, <1>7 DEF TheExec, Exec, create_argv_command
  <2>2. Designated = q - 1
    <3>1. config[rule].stdin \in Int
      BY <1>r DEF Rule
    <3> QED
      BY <1>2, <1>7, <3>1 DEF Designated, StdinPosition
  <2> HIDE DEF q
  <2>3. q \in 2..Len(argv)
    BY <1>7 DEF q
  <2>4. /\ rest = RemoveAt(words, q - 1) /\ rest \in Seq(Strings)
        /\ Len(rest) = Len(argv) - 2
    BY <1>2, <2>3, Spliced
  <2>5. /\ Len(e.argv) = size + Len(rest)
        /\ SubSeq(e.argv, size + 1, size + Len(rest)) = rest
    <3> HIDE DEF name, words, e, rest
    <3> QED
      BY <1>3, <1>5, <2>1, <2>4, ConcatTail
  <2>6. q - 1 # 0 /\ (q - 1) + 1 = q
    BY <1>2, <2>3
  <2> HIDE DEF name, rest, Designated
  <2> QED
    BY <2>1, <2>2, <2>4, <2>5, <2>6 DEF PassedWith
<1> QED
  BY <1>6, <1>7

\* Whatever the rule and the offset of the argument for standard input, each
\* argument of the command is passed once and in order, and the one on
\* standard input is the one that the option stdin names.
THEOREM ArgumentsArePassed == Spec => []ArgumentsReachProgram
<1>1. TypeOK /\ RunInv /\ NulInv => ArgumentsReachProgram
  BY ArgumentsPassed
<1> QED
  BY <1>1, TypeCorrect, Runs, PTL
=============================================================================
