--------------------------- MODULE Config_proofs ---------------------------
(***************************************************************************)
(* Proofs about Config: what server_config_acl_permit answers for every    *)
(* set of files and directories, however they include each other, for      *)
(* every client, and for a stack of any size.                              *)
(***************************************************************************)
EXTENDS Config, SequenceTheorems, WellFoundedInduction, TLAPS

\* TypeOK in two parts: Boolean variables, and the others.
FlagTypes ==
    /\ answer \in BOOLEAN /\ granted \in BOOLEAN
    /\ denied \in BOOLEAN /\ errored \in BOOLEAN

StateTypes ==
    /\ fs \in [Names -> Node]
    /\ client \in Client
    /\ phase \in {"load", "loaded", "permit", "done", "crashed"}
    /\ stack \in Seq(Frame)
    /\ todo.op \in {"none", "return", "include", "open", "check"}
    /\ todo.op = "return" => todo.status \in ConfigStatus
    /\ pos \in Nat

\* A function has returned s to whoever is waiting for it.
Returning(s) == todo.op = "return" /\ todo.status = s

\* While the configuration is read nothing checks an ACL, and while an ACL is
\* checked nothing reads a configuration; every frame but that of a deny is
\* about something on the disk.
FramesInv ==
    /\ \A k \in 1..Len(stack) :
          stack[k].kind # "deny" => stack[k].name \in Names
    /\ phase = "load" =>
          /\ todo.op # "check"
          /\ \A k \in 1..Len(stack) : stack[k].kind \in {"conf", "dir"}
    /\ phase = "loaded" => stack = <<>> /\ todo = None
    /\ phase = "permit" =>
          \A k \in 1..Len(stack) : stack[k].kind \in {"acl", "dir", "deny"}

\* An error is on its way to server_config_acl_permit, or has arrived there.
ErrorInv ==
    errored => \/ phase = "permit" /\ Returning(ERROR)
               \/ phase = "done" /\ ~answer

\* So is a refusal, and no deny is left that could turn it into NOMATCH.
DenyInv ==
    denied => \/ phase = "permit" /\ Returning(DENY) /\ ~Denying(stack)
              \/ phase = "done" /\ ~answer

\* Frame k of a directory has seen a match and no deny surrounds it.
Matched(frames, k) ==
    /\ frames[k].kind = "dir" /\ frames[k].status = SUCCESS
    /\ \A j \in 1..(k - 1) : frames[j].kind # "deny"

HasMatch(frames) == \E k \in 1..Len(frames) : Matched(frames, k)

\* Every success outside of a deny, on its way up or kept by a directory,
\* comes from a match.
GrantInv ==
    /\ phase = "permit" /\ Returning(SUCCESS) /\ ~Denying(stack) => granted
    /\ phase = "permit" /\ HasMatch(stack) => granted
    /\ phase = "done" /\ answer => granted

IInv == TypeOK /\ FramesInv /\ ErrorInv /\ DenyInv /\ GrantInv

-----------------------------------------------------------------------------
(* Lemmas about the operators of the model *)

\* The two parts are the whole.
LEMMA TypeParts == TypeOK <=> FlagTypes /\ StateTypes
BY Zenon DEF TypeOK, FlagTypes, StateTypes

\* The frame that runs, and what is left when it is gone.
LEMMA PopFacts ==
    ASSUME stack \in Seq(Frame), stack # <<>>
    PROVE  /\ Len(stack) \in Nat \ {0}
           /\ Top \in Frame
           /\ Pop \in Seq(Frame)
           /\ Len(Pop) = Len(stack) - 1
           /\ \A k \in 1..(Len(stack) - 1) : Pop[k] = stack[k]
<1>1. Len(stack) \in Nat \ {0}
  BY EmptySeq
<1>2. \A k \in 1..Len(stack) : stack[k] \in Frame
  BY ElementOfSeq
<1> DEFINE n == Len(stack) - 1
<1>3. n \in Nat /\ \A k \in 1..n : stack[k] \in Frame
  BY <1>1, <1>2
<1> HIDE DEF n
<1>4. /\ SubSeq(stack, 1, n) \in Seq(Frame)
      /\ Len(SubSeq(stack, 1, n)) = n
      /\ \A k \in 1..n : SubSeq(stack, 1, n)[k] = stack[k]
  BY <1>3, SubSeqProperties
<1> QED
  BY <1>1, <1>2, <1>4 DEF Top, Pop, n

\* The frame that runs is replaced.
LEMMA SetFacts ==
    ASSUME stack \in Seq(Frame), stack # <<>>, NEW f \in Frame
    PROVE  /\ SetTop(f) \in Seq(Frame)
           /\ Len(SetTop(f)) = Len(stack)
           /\ SetTop(f)[Len(stack)] = f
           /\ \A k \in 1..(Len(stack) - 1) : SetTop(f)[k] = stack[k]
<1>1. Len(stack) \in 1..Len(stack)
  BY EmptySeq
<1> QED
  BY <1>1, ExceptSeq DEF SetTop

\* A frame whose position or status changes is still a frame.
LEMMA FrameFacts ==
    ASSUME NEW f \in Frame
    PROVE  /\ f.pos \in Nat /\ f.status \in ConfigStatus
           /\ \A p \in Nat : /\ [f EXCEPT !.pos = p] \in Frame
                             /\ [f EXCEPT !.pos = p].kind = f.kind
                             /\ [f EXCEPT !.pos = p].name = f.name
                             /\ [f EXCEPT !.pos = p].status = f.status
           /\ \A s \in ConfigStatus :
                 /\ [f EXCEPT !.status = s] \in Frame
                 /\ [f EXCEPT !.status = s].kind = f.kind
                 /\ [f EXCEPT !.status = s].name = f.name
                 /\ [f EXCEPT !.status = s].status = s
BY DEF Frame

\* A function is called.
LEMMA PushFacts ==
    ASSUME stack \in Seq(Frame), NEW f \in Frame
    PROVE  /\ Append(stack, f) \in Seq(Frame)
           /\ Len(Append(stack, f)) = Len(stack) + 1
           /\ Append(stack, f)[Len(stack) + 1] = f
           /\ \A k \in 1..Len(stack) : Append(stack, f)[k] = stack[k]
BY AppendProperties

\* A deny is waiting in one of the frames.
LEMMA DenyingFrames ==
    ASSUME NEW s \in Seq(Frame)
    PROVE  Denying(s) <=> \E k \in 1..Len(s) : s[k].kind = "deny"
BY LenProperties DEF Denying

\* A set of positive numbers that is not empty has a least element.
LEMMA LeastElement ==
    ASSUME NEW T, T \subseteq Nat, T # {}
    PROVE  \E k \in T : \A j \in T : k <= j
<1>1. PICK k \in T : \A j \in T : ~(<<j, k>> \in OpToRel(<, Nat))
  BY NatLessThanWellFounded, WFMin
<1>2. \A j \in T : ~(j < k)
  BY <1>1 DEF OpToRel
<1> QED
  BY <1>2

\* A line ends with one of the chunks from its first on, or the file does.
LEMMA LastChunkRange ==
    ASSUME NEW lines, Len(lines) \in Nat, NEW i \in Nat
    PROVE  LastChunk(lines, i) \in Nat
<1> DEFINE ends == {j \in i..Len(lines) : \/ lines[j].end = "newline"
                                          \/ j = i /\ lines[j].size = 2}
<1>1. LastChunk(lines, i) =
        IF ends = {} THEN Len(lines) + 1
        ELSE CHOOSE j \in ends : \A k \in ends : j <= k
  BY DEF LastChunk
<1>2. ends \subseteq Nat
  OBVIOUS
<1>3. CASE ends # {}
  <2>1. \E j \in ends : \A k \in ends : j <= k
    BY <1>2, <1>3, LeastElement
  <2> QED
    BY <1>1, <1>2, <1>3, <2>1
<1> QED
  BY <1>1, <1>3

\* Every scheme answers with a status, whatever the external libraries say.
LEMMA LeafStatusType ==
    ASSUME NEW scheme, NEW data
    PROVE  LeafStatus(scheme, data) \in ConfigStatus
<1> USE DEF ConfigStatus
<1>1. acl_check_princ(data) \in ConfigStatus
  BY DEF acl_check_princ
<1>2. acl_check_anyuser(data) \in ConfigStatus
  BY DEF acl_check_anyuser
<1>3. Evaluation(data) \in ConfigStatus
  BY DEF Evaluation
<1>4. acl_check_localgroup(data) \in ConfigStatus
  BY DEF acl_check_localgroup
<1> QED
  BY <1>1, <1>2, <1>3, <1>4
  DEF LeafStatus, acl_check_gput, acl_check_pcre, acl_check_regex

\* What a deny makes of a status: never a success, and an error stays one.
LEMMA DenyStatusFacts ==
    ASSUME NEW s \in ConfigStatus
    PROVE  /\ DenyStatus(s) \in ConfigStatus \ {SUCCESS}
           /\ s = ERROR => DenyStatus(s) = ERROR
BY DEF DenyStatus, ConfigStatus, SUCCESS, NOMATCH, ERROR, DENY

-----------------------------------------------------------------------------
(* Types *)

\* Every step keeps the flags Boolean.
LEMMA FlagStep ==
    ASSUME FlagTypes, [Next]_vars
    PROVE  FlagTypes'
<1> USE DEF FlagTypes, vars, inputs, history, Result, Note, Push, EndConfFile
<1>1. CASE Active /\ handle_include
  BY <1>1, Zenon DEF handle_include
<1>2. CASE Active /\ OpenFile
  BY <1>2, Zenon DEF OpenFile
<1>3. CASE Active /\ ReadDir
  BY <1>3, Zenon DEF ReadDir
<1>4. CASE Active /\ ReadDirResult
  BY <1>4, Zenon DEF ReadDirResult
<1>5. CASE Active /\ ReadConfLine
  BY <1>5, Zenon DEF ReadConfLine
<1>6. CASE Active /\ ConfInclude
  BY <1>6, Zenon DEF ConfInclude
<1>7. CASE Active /\ Loaded
  BY <1>7, Zenon DEF Loaded
<1>8. CASE Active /\ acl_check
  BY <1>8, Zenon DEF acl_check
<1>9. CASE Active /\ acl_check_deny
  BY <1>9, Zenon DEF acl_check_deny
<1>10. CASE Active /\ ReadAclLine
  BY <1>10, Zenon DEF ReadAclLine
<1>11. CASE Active /\ AclResult
  BY <1>11, Zenon DEF AclResult
<1>12. CASE Active /\ NextAcl
  BY <1>12, Zenon DEF NextAcl
<1>13. CASE Active /\ AclPermit
  BY <1>13, Zenon DEF AclPermit
<1>14. CASE Permit
  BY <1>14, Zenon DEF Permit
<1>15. CASE UNCHANGED vars
  BY <1>15, Zenon
<1> QED
  BY <1>1, <1>2, <1>3, <1>4, <1>5, <1>6, <1>7, <1>8, <1>9, <1>10, <1>11,
     <1>12, <1>13, <1>14, <1>15 DEF Next, Step, Finished

\* What is known of the frame that runs.
LEMMA RunningFrame ==
    ASSUME StateTypes, stack # <<>>
    PROVE  /\ Top \in Frame /\ Pop \in Seq(Frame)
           /\ Top.pos \in Nat /\ Top.pos + 1 \in Nat
           /\ Top.status \in ConfigStatus
           /\ [Top EXCEPT !.pos = Top.pos + 1] \in Frame
           /\ SetTop([Top EXCEPT !.pos = Top.pos + 1]) \in Seq(Frame)
<1>1. Top \in Frame /\ Pop \in Seq(Frame)
  BY PopFacts DEF StateTypes
<1>2. Top.pos \in Nat /\ Top.status \in ConfigStatus
  BY <1>1, FrameFacts
<1>3. Top.pos + 1 \in Nat
  BY <1>2
<1>4. [Top EXCEPT !.pos = Top.pos + 1] \in Frame
  BY <1>1, <1>3, FrameFacts
<1>5. SetTop([Top EXCEPT !.pos = Top.pos + 1]) \in Seq(Frame)
  BY <1>4, SetFacts DEF StateTypes
<1> QED
  BY <1>1, <1>2, <1>3, <1>4, <1>5

\* The line that read_conf_file reads ends somewhere.
LEMMA ConfLine ==
    ASSUME StateTypes, FramesInv, stack # <<>>, Top.kind = "conf"
    PROVE  LastChunk(fs[Top.name].lines, Top.pos) + 1 \in Nat
<1>1. Top.name \in Names /\ Top.pos \in Nat
  BY RunningFrame, PopFacts DEF Top, FramesInv, StateTypes
<1>2. fs[Top.name].lines \in Seq(Chunk)
  BY <1>1 DEF Node, StateTypes
<1>3. Len(fs[Top.name].lines) \in Nat
  BY <1>2, LenProperties
<1>4. LastChunk(fs[Top.name].lines, Top.pos) \in Nat
  BY <1>1, <1>3, LastChunkRange
<1> QED
  BY <1>4

\* Every step keeps the other types.
LEMMA StateStep ==
    ASSUME StateTypes, FramesInv, [Next]_vars
    PROVE  StateTypes'
<1> USE DEF StateTypes, vars, inputs
<1>1. CASE Active /\ handle_include
  <2>1. CASE todo.path \in Names
    <3>1. [kind |-> "dir", name |-> todo.path, pos |-> 1, status |-> NOMATCH]
            \in Frame
      BY <2>1 DEF Frame, ConfigStatus
    <3>2. Append(stack, [kind |-> "dir", name |-> todo.path, pos |-> 1,
                         status |-> NOMATCH]) \in Seq(Frame)
      BY <3>1, PushFacts
    <3>3. /\ UNCHANGED <<inputs, pos>>
          /\ phase' \in {phase, "crashed"}
          /\ stack' \in Seq(Frame)
      BY <1>1, <3>2 DEF handle_include, Push
    <3>4. todo' \in {Return(ERROR), Open(todo.path), None}
      BY <1>1 DEF handle_include, Result
    <3>5. \/ todo'.op \in {"open", "none"}
          \/ todo'.op = "return" /\ todo'.status \in ConfigStatus
      BY <3>4 DEF Return, Open, None, ConfigStatus
    <3> QED
      BY <3>3, <3>5
  <2>2. CASE todo.path \notin Names
    <3>1. Lookup(todo.path).type = "missing"
      BY <2>2 DEF Lookup, Missing
    <3> QED
      BY <1>1, <3>1
      DEF handle_include, SanityCheck, Result, Note, Return, ConfigStatus
  <2> QED
    BY <2>1, <2>2
<1>2. CASE Active /\ OpenFile
  <2>1. CASE todo.path \in Names
    <3>1. FileFrame(todo.path) \in Frame
      BY <2>1 DEF FileFrame, Frame, ConfigStatus
    <3>2. Append(stack, FileFrame(todo.path)) \in Seq(Frame)
      BY <3>1, PushFacts
    <3>3. /\ UNCHANGED <<inputs, pos>>
          /\ phase' \in {phase, "crashed"}
          /\ stack' \in Seq(Frame)
      BY <1>2, <3>2 DEF OpenFile, Push
    <3>4. todo' \in {Return(ERROR), None}
      BY <1>2 DEF OpenFile, Result
    <3>5. \/ todo'.op = "none"
          \/ todo'.op = "return" /\ todo'.status \in ConfigStatus
      BY <3>4 DEF Return, None, ConfigStatus
    <3> QED
      BY <3>3, <3>5
  <2>2. CASE todo.path \notin Names
    <3>1. Lookup(todo.path).type = "missing"
      BY <2>2 DEF Lookup, Missing
    <3> QED
      BY <1>2, <3>1 DEF OpenFile, Result, Note, Return, ConfigStatus
  <2> QED
    BY <2>1, <2>2
<1>3. CASE Active /\ ReadDir
  <2>1. stack # <<>>
    BY <1>3 DEF ReadDir, Running
  <2> QED
    BY <1>3, <2>1, RunningFrame DEF ReadDir, Result, Return, Open, None
<1>4. CASE Active /\ ReadDirResult
  <2>1. stack # <<>> /\ todo.status \in ConfigStatus
    BY <1>4 DEF ReadDirResult, Returned
  <2>2. Top \in Frame /\ Pop \in Seq(Frame)
    BY <2>1, PopFacts
  <2> DEFINE f == [Top EXCEPT !.status =
                      IF todo.status > Top.status THEN todo.status
                      ELSE Top.status]
  <2>3. f \in Frame
    BY <2>1, <2>2, FrameFacts
  <2>4. SetTop(f) \in Seq(Frame)
    BY <2>1, <2>3, SetFacts
  <2> QED
    BY <1>4, <2>1, <2>2, <2>4 DEF ReadDirResult, Result, Return, None
<1>5. CASE Active /\ ReadConfLine
  <2>1. stack # <<>> /\ Top.kind = "conf"
    BY <1>5 DEF ReadConfLine, Running
  <2>2. /\ Top \in Frame /\ Pop \in Seq(Frame) /\ Top.pos + 1 \in Nat
        /\ LastChunk(fs[Top.name].lines, Top.pos) + 1 \in Nat
    BY <2>1, RunningFrame, ConfLine
  <2>3. \A p \in Nat : SetTop([Top EXCEPT !.pos = p]) \in Seq(Frame)
    BY <2>1, <2>2, FrameFacts, SetFacts
  <2> QED
    BY <1>5, <2>2, <2>3
    DEF ReadConfLine, EndConfFile, Result, Return, Include, None, ConfigStatus
<1>6. CASE Active /\ ConfInclude
  <2>1. stack # <<>>
    BY <1>6 DEF ConfInclude, Returned
  <2>2. Pop \in Seq(Frame)
    BY <2>1, PopFacts
  <2> QED
    BY <1>6, <2>2
    DEF ConfInclude, EndConfFile, Result, Return, None, ConfigStatus
<1>7. CASE Active /\ Loaded
  BY <1>7 DEF Loaded, None, history
<1>8. CASE Active /\ acl_check
  <2>1. [kind |-> "deny", name |-> Null, pos |-> 1, status |-> NOMATCH]
          \in Frame
    BY DEF Frame, ConfigStatus
  <2>2. Append(stack, [kind |-> "deny", name |-> Null, pos |-> 1,
                       status |-> NOMATCH]) \in Seq(Frame)
    BY <2>1, PushFacts
  <2>3. /\ UNCHANGED <<inputs, pos>>
        /\ phase' \in {phase, "crashed"}
        /\ stack' \in Seq(Frame)
    BY <1>8, <2>2 DEF acl_check, Push
  <2>4. \/ todo'.op \in {"include", "check"}
        \/ todo'.op = "return" /\ todo'.status \in ConfigStatus
    <3> DEFINE scheme == Scheme(todo.entry, todo.def)
               data == Data(todo.entry)
    <3>1. \/ todo' = Include(data[1], todo.file)
          \/ todo' = Check(data, "princ", todo.file)
          \/ todo' = Return(LeafStatus(scheme, data))
      BY <1>8 DEF acl_check, Result
    <3>2. LeafStatus(scheme, data) \in ConfigStatus
      BY LeafStatusType
    <3> HIDE DEF scheme, data
    <3> QED
      BY <3>1, <3>2 DEF Include, Check, Return
  <2> QED
    BY <2>3, <2>4
<1>9. CASE Active /\ acl_check_deny
  <2>1. stack # <<>> /\ todo.status \in ConfigStatus
    BY <1>9 DEF acl_check_deny, Returned
  <2> QED
    BY <1>9, <2>1, PopFacts, DenyStatusFacts DEF acl_check_deny, Result, Return
<1>10. CASE Active /\ ReadAclLine
  <2>1. stack # <<>>
    BY <1>10 DEF ReadAclLine, Running
  <2> QED
    BY <1>10, <2>1, RunningFrame
    DEF ReadAclLine, Result, Return, Check, None, ConfigStatus
<1>11. CASE Active /\ AclResult
  <2>1. stack # <<>>
    BY <1>11 DEF AclResult, Returned
  <2> QED
    BY <1>11, <2>1, PopFacts DEF AclResult, Returned, Result, Return, None
<1>12. CASE Active /\ NextAcl
  BY <1>12 DEF NextAcl, Check, history
<1>13. CASE Active /\ AclPermit
  BY <1>13 DEF AclPermit, None, history
<1>14. CASE Permit
  BY <1>14 DEF Permit, history
<1>15. CASE UNCHANGED vars
  BY <1>15
<1> QED
  BY <1>1, <1>2, <1>3, <1>4, <1>5, <1>6, <1>7, <1>8, <1>9, <1>10, <1>11,
     <1>12, <1>13, <1>14, <1>15 DEF Next, Step, Finished

-----------------------------------------------------------------------------
(* Frames *)

\* A frame is removed.
LEMMA PopFrames ==
    ASSUME StateTypes, FramesInv, Active, stack # <<>>,
           stack' = Pop, phase' = phase, todo'.op # "check"
    PROVE  FramesInv'
<1>1. /\ Len(stack) \in Nat \ {0} /\ Len(stack') = Len(stack) - 1
      /\ \A k \in 1..(Len(stack) - 1) : stack'[k] = stack[k]
  BY PopFacts DEF StateTypes
<1>2. \A k \in 1..Len(stack') : k \in 1..Len(stack) /\ stack'[k] = stack[k]
  BY <1>1
<1>3. phase' # "loaded"
  BY DEF Active
<1> QED
  BY <1>2, <1>3 DEF FramesInv

\* A frame goes on.
LEMMA SetFrames ==
    ASSUME StateTypes, FramesInv, Active, stack # <<>>,
           NEW f \in Frame, f.kind = Top.kind, f.name = Top.name,
           stack' = SetTop(f), phase' = phase,
           phase = "load" => todo'.op # "check"
    PROVE  FramesInv'
<1>1. Len(stack) \in Nat \ {0}
  BY PopFacts DEF StateTypes
<1>2. /\ Len(stack') = Len(stack) /\ stack'[Len(stack)] = f
      /\ \A k \in 1..(Len(stack) - 1) : stack'[k] = stack[k]
  BY SetFacts DEF StateTypes
<1>3. \A k \in 1..Len(stack) :
         stack'[k].kind = stack[k].kind /\ stack'[k].name = stack[k].name
  BY <1>1, <1>2 DEF Top
<1> QED
  BY <1>2, <1>3 DEF FramesInv, Active

\* A frame is added, or does not fit.
LEMMA PushFrames ==
    ASSUME StateTypes, FramesInv, Active, NEW f \in Frame, Push(f),
           f.kind # "deny" => f.name \in Names,
           phase = "load" => f.kind \in {"conf", "dir"} /\ todo'.op # "check",
           phase = "permit" => f.kind \in {"acl", "dir", "deny"}
    PROVE  FramesInv'
<1>1. CASE stack' = Append(stack, f) /\ phase' = phase
  <2>1. Len(stack) \in Nat
    BY LenProperties DEF StateTypes
  <2> QED
    BY <1>1, <2>1, PushFacts DEF StateTypes, FramesInv, Active
<1>2. CASE phase' = "crashed" /\ UNCHANGED stack
  BY <1>2 DEF FramesInv
<1> QED
  BY <1>1, <1>2 DEF Push

\* The frames stay as they are.
LEMMA SameFrames ==
    ASSUME FramesInv, Active, UNCHANGED <<stack, phase>>,
           phase = "load" => todo'.op # "check"
    PROVE  FramesInv'
BY DEF FramesInv, Active

\* Every step keeps the two kinds of work apart.
LEMMA FramesStep ==
    ASSUME StateTypes, FramesInv, [Next]_vars
    PROVE  FramesInv'
<1>1. CASE Active /\ handle_include
  <2> USE DEF Result, Return, Open, None
  <2>1. CASE todo.path \in Names
    <3> DEFINE f == [kind |-> "dir", name |-> todo.path, pos |-> 1,
                     status |-> NOMATCH]
    <3>1. f \in Frame /\ f.kind = "dir" /\ f.name \in Names
      BY <2>1 DEF Frame, ConfigStatus
    <3>2. CASE Push(f) /\ todo' = None
      BY <1>1, <3>1, <3>2, PushFrames
    <3>3. CASE UNCHANGED <<stack, phase>> /\ todo'.op # "check"
      BY <1>1, <3>3, SameFrames
    <3> QED
      BY <1>1, <3>2, <3>3 DEF handle_include
  <2>2. CASE todo.path \notin Names
    <3>1. Lookup(todo.path).type = "missing"
      BY <2>2 DEF Lookup, Missing
    <3> QED
      BY <1>1, <3>1, SameFrames DEF handle_include, SanityCheck
  <2> QED
    BY <2>1, <2>2
<1>2. CASE Active /\ OpenFile
  <2> USE DEF Result, Return, None
  <2>1. CASE todo.path \in Names
    <3>1. /\ FileFrame(todo.path) \in Frame
          /\ FileFrame(todo.path).name \in Names
          /\ FileFrame(todo.path).kind =
                IF phase = "load" THEN "conf" ELSE "acl"
      BY <2>1 DEF FileFrame, Frame, ConfigStatus
    <3>2. CASE Push(FileFrame(todo.path)) /\ todo' = None
      BY <1>2, <3>1, <3>2, PushFrames
    <3>3. CASE UNCHANGED <<stack, phase>> /\ todo'.op # "check"
      BY <1>2, <3>3, SameFrames
    <3> QED
      BY <1>2, <3>2, <3>3 DEF OpenFile
  <2>2. CASE todo.path \notin Names
    <3>1. Lookup(todo.path).type = "missing"
      BY <2>2 DEF Lookup, Missing
    <3> QED
      BY <1>2, <3>1, SameFrames DEF OpenFile
  <2> QED
    BY <2>1, <2>2
<1>3. CASE Active /\ ReadDir
  <2>1. stack # <<>> /\ Top \in Frame /\ Top.pos + 1 \in Nat
    BY <1>3, RunningFrame DEF ReadDir, Running
  <2>2. CASE stack' = Pop /\ todo' = Return(Top.status)
    BY <1>3, <2>1, <2>2, PopFrames DEF ReadDir, Return
  <2>3. CASE /\ stack' = SetTop([Top EXCEPT !.pos = Top.pos + 1])
             /\ todo'.op # "check"
    BY <1>3, <2>1, <2>3, FrameFacts, SetFrames DEF ReadDir
  <2> QED
    BY <1>3, <2>2, <2>3 DEF ReadDir, Result, Open, None
<1>4. CASE Active /\ ReadDirResult
  <2>1. stack # <<>> /\ Top \in Frame /\ todo.status \in ConfigStatus
    BY <1>4, RunningFrame DEF ReadDirResult, Returned, StateTypes
  <2>2. CASE stack' = Pop /\ todo' = Return(todo.status)
    BY <1>4, <2>1, <2>2, PopFrames DEF ReadDirResult, Return
  <2> DEFINE s == IF todo.status > Top.status THEN todo.status ELSE Top.status
  <2>3. CASE stack' = SetTop([Top EXCEPT !.status = s]) /\ todo' = None
    <3>1. s \in ConfigStatus
      BY <2>1, FrameFacts
    <3> HIDE DEF s
    <3> QED
      BY <1>4, <2>1, <2>3, <3>1, FrameFacts, SetFrames DEF ReadDirResult, None
  <2> QED
    BY <1>4, <2>2, <2>3 DEF ReadDirResult, Result
<1>5. CASE Active /\ ReadConfLine
  <2>1. /\ stack # <<>> /\ Top.kind = "conf"
        /\ Top \in Frame /\ Top.pos + 1 \in Nat
    BY <1>5, RunningFrame DEF ReadConfLine, Running
  <2>2. LastChunk(fs[Top.name].lines, Top.pos) + 1 \in Nat
    BY <2>1, ConfLine
  <2>3. CASE stack' = Pop /\ todo'.op = "return"
    BY <1>5, <2>1, <2>3, PopFrames DEF ReadConfLine
  <2>4. CASE \E p \in Nat : /\ stack' = SetTop([Top EXCEPT !.pos = p])
                            /\ todo'.op # "check"
    BY <1>5, <2>1, <2>4, FrameFacts, SetFrames DEF ReadConfLine
  <2>5. todo = None
    BY <1>5 DEF ReadConfLine, Running
  <2> QED
    BY <1>5, <2>1, <2>2, <2>3, <2>4, <2>5
    DEF ReadConfLine, EndConfFile, Result, Return, Include, None
<1>6. CASE Active /\ ConfInclude
  <2> USE DEF ConfInclude, Returned, EndConfFile, Result, Return, None
  <2>1. CASE stack' = Pop
    BY <1>6, <2>1, PopFrames
  <2>2. CASE UNCHANGED stack
    BY <1>6, <2>2, SameFrames
  <2> QED
    BY <1>6, <2>1, <2>2
<1>7. CASE Active /\ Loaded
  BY <1>7 DEF Loaded, FramesInv
<1>8. CASE Active /\ acl_check
  <2> USE DEF Result, Return, Include, Check
  <2>1. phase = "permit"
    BY <1>8 DEF acl_check, FramesInv, Active
  <2> DEFINE f == [kind |-> "deny", name |-> Null, pos |-> 1,
                   status |-> NOMATCH]
  <2>2. f \in Frame /\ f.kind = "deny"
    BY DEF Frame, ConfigStatus
  <2>3. CASE Push(f)
    BY <1>8, <2>1, <2>2, <2>3, PushFrames
  <2>4. CASE UNCHANGED <<stack, phase>>
    BY <1>8, <2>1, <2>4, SameFrames
  <2> QED
    BY <1>8, <2>3, <2>4 DEF acl_check
<1>9. CASE Active /\ acl_check_deny
  BY <1>9, PopFrames DEF acl_check_deny, Returned, Result, Return
<1>10. CASE Active /\ ReadAclLine
  <2>1. /\ stack # <<>> /\ Top.kind = "acl"
        /\ Top \in Frame /\ Top.pos + 1 \in Nat
    BY <1>10, RunningFrame DEF ReadAclLine, Running
  <2>2. phase = "permit"
    BY <1>10, <2>1, PopFacts DEF Active, FramesInv, Top, StateTypes
  <2>3. CASE stack' = Pop /\ todo'.op = "return"
    BY <1>10, <2>1, <2>3, PopFrames DEF ReadAclLine
  <2>4. CASE stack' = SetTop([Top EXCEPT !.pos = Top.pos + 1])
    BY <1>10, <2>1, <2>2, <2>4, FrameFacts, SetFrames DEF ReadAclLine
  <2> QED
    BY <1>10, <2>3, <2>4 DEF ReadAclLine, Result, Return
<1>11. CASE Active /\ AclResult
  <2> USE DEF AclResult, Returned, Result, Return, None
  <2>1. CASE stack' = Pop
    BY <1>11, <2>1, PopFrames
  <2>2. CASE UNCHANGED stack
    BY <1>11, <2>2, SameFrames
  <2> QED
    BY <1>11, <2>1, <2>2
<1>12. CASE Active /\ NextAcl
  BY <1>12 DEF NextAcl, FramesInv
<1>13. CASE Active /\ AclPermit
  BY <1>13 DEF AclPermit, FramesInv
<1>14. CASE Permit
  BY <1>14 DEF Permit, FramesInv, None
<1>15. CASE UNCHANGED vars
  BY <1>15 DEF vars, FramesInv
<1> QED
  BY <1>1, <1>2, <1>3, <1>4, <1>5, <1>6, <1>7, <1>8, <1>9, <1>10, <1>11,
     <1>12, <1>13, <1>14, <1>15 DEF Next, Step, Finished

-----------------------------------------------------------------------------
(* Errors, refusals and matches *)

\* The four statuses are different.
LEMMA Statuses ==
    /\ SUCCESS # NOMATCH /\ SUCCESS # ERROR /\ SUCCESS # DENY
    /\ NOMATCH # ERROR /\ NOMATCH # DENY /\ ERROR # DENY
BY DEF SUCCESS, NOMATCH, ERROR, DENY

\* Errors and refusals are what stops a directory, a file, and the loop over
\* the entries of a rule.
LEMMA StopFacts ==
    ASSUME NEW s \in ConfigStatus
    PROVE  /\ DirStops(s) <=> s \in {ERROR, DENY}
           /\ IncludeFails(s) <=> s \in {ERROR, DENY}
           /\ Stops(s) <=> s # NOMATCH
BY DEF DirStops, IncludeFails, Stops, ConfigStatus, SUCCESS, NOMATCH, ERROR,
       DENY

\* A function returns: if an error was on its way, that is what it returns.
LEMMA ResultError ==
    ASSUME ErrorInv, Active, NEW s, Result(s), phase' = phase,
           Returning(ERROR) => s = ERROR
    PROVE  ErrorInv'
<1>1. errored' => errored \/ (phase = "permit" /\ s = ERROR)
  BY Zenon DEF Result, Note
<1>2. todo'.op = "return" /\ todo'.status = s
  BY DEF Result, Return
<1> QED
  BY <1>1, <1>2 DEF ErrorInv, Returning, Active

\* Nothing returns, and no error was on its way.
LEMMA NoError ==
    ASSUME ErrorInv, Active, UNCHANGED errored, ~Returning(ERROR)
    PROVE  ErrorInv'
BY DEF ErrorInv, Active

\* Every step passes an error on: no frame, not even that of a deny, turns it
\* into something else.
LEMMA ErrorStep ==
    ASSUME StateTypes, ErrorInv, [Next]_vars
    PROVE  ErrorInv'
<1>1. CASE Active /\ handle_include
  <2>1. ~Returning(ERROR)
    BY <1>1 DEF handle_include, Returning
  <2> QED
    BY <1>1, <2>1, ResultError, NoError DEF handle_include
<1>2. CASE Active /\ OpenFile
  <2>1. ~Returning(ERROR)
    BY <1>2 DEF OpenFile, Returning
  <2> QED
    BY <1>2, <2>1, ResultError, NoError DEF OpenFile
<1>3. CASE Active /\ ReadDir
  <2>1. ~Returning(ERROR)
    BY <1>3 DEF ReadDir, Running, None, Returning
  <2> QED
    BY <1>3, <2>1, ResultError, NoError DEF ReadDir
<1>4. CASE Active /\ ReadDirResult
  <2>1. Returning(ERROR) => DirStops(todo.status)
    BY DEF DirStops, Returning, ERROR, NOMATCH
  <2> QED
    BY <1>4, <2>1, ResultError, NoError DEF ReadDirResult, Returning
<1>5. CASE Active /\ ReadConfLine
  <2>1. ~Returning(ERROR)
    BY <1>5 DEF ReadConfLine, Running, None, Returning
  <2>2. \/ UNCHANGED errored
        \/ \E s : Result(s) /\ phase' = phase
    BY <1>5 DEF ReadConfLine, EndConfFile
  <2> QED
    BY <1>5, <2>1, <2>2, ResultError, NoError
<1>6. CASE Active /\ ConfInclude
  <2>1. Returning(ERROR) => IncludeFails(todo.status)
    BY DEF IncludeFails, Returning, ERROR, NOMATCH
  <2> QED
    BY <1>6, <2>1, ResultError, NoError DEF ConfInclude, EndConfFile
<1>7. CASE Active /\ Loaded
  BY <1>7 DEF Loaded, ErrorInv, history
<1>8. CASE Active /\ acl_check
  <2>1. ~Returning(ERROR)
    BY <1>8 DEF acl_check, Returning
  <2> QED
    BY <1>8, <2>1, ResultError, NoError DEF acl_check
<1>9. CASE Active /\ acl_check_deny
  <2>1. Returning(ERROR) => DenyStatus(todo.status) = ERROR
    BY DenyStatusFacts DEF Returning, ConfigStatus
  <2> QED
    BY <1>9, <2>1, ResultError DEF acl_check_deny
<1>10. CASE Active /\ ReadAclLine
  <2>1. ~Returning(ERROR)
    BY <1>10 DEF ReadAclLine, Running, None, Returning
  <2>2. \/ UNCHANGED errored
        \/ \E s : Result(s) /\ phase' = phase
    BY <1>10 DEF ReadAclLine
  <2> QED
    BY <1>10, <2>1, <2>2, ResultError, NoError
<1>11. CASE Active /\ AclResult
  <2>1. Returning(ERROR) => todo.status # NOMATCH
    BY Statuses DEF Returning
  <2> QED
    BY <1>11, <2>1, ResultError, NoError DEF AclResult, AclDecides, Returning
<1>12. CASE Active /\ NextAcl
  <2>1. ~Returning(ERROR)
    BY <1>12 DEF NextAcl, None, Returning
  <2> QED
    BY <1>12, <2>1, NoError DEF NextAcl, history
<1>13. CASE Active /\ AclPermit
  <2>1. CASE Returning(ERROR)
    <3>1. Stops(todo.status) /\ todo.status # SUCCESS
      BY <2>1 DEF Returning, Stops, SUCCESS, ERROR, NOMATCH
    <3>2. phase' = "done" /\ ~answer'
      BY <1>13, <3>1, Zenon DEF AclPermit
    <3> QED
      BY <3>2 DEF ErrorInv
  <2>2. CASE ~Returning(ERROR)
    BY <1>13, <2>2, NoError DEF AclPermit, history
  <2> QED
    BY <2>1, <2>2
<1>14. CASE Permit
  BY <1>14 DEF Permit, ErrorInv, history
<1>15. CASE UNCHANGED vars
  BY <1>15 DEF vars, history, ErrorInv, Returning
<1> QED
  BY <1>1, <1>2, <1>3, <1>4, <1>5, <1>6, <1>7, <1>8, <1>9, <1>10, <1>11,
     <1>12, <1>13, <1>14, <1>15 DEF Next, Step, Finished

\* A deny waits somewhere if it is the last frame or waits below.
LEMMA PopDenying ==
    ASSUME stack \in Seq(Frame), stack # <<>>
    PROVE  Denying(stack) <=> Denying(Pop) \/ Top.kind = "deny"
<1>1. Len(stack) \in Nat \ {0} /\ Pop \in Seq(Frame)
  BY PopFacts
<1>2. Denying(stack) <=> \E k \in 1..Len(stack) : stack[k].kind = "deny"
  BY DenyingFrames
<1>3. Denying(Pop) <=> \E k \in 1..(Len(stack) - 1) : stack[k].kind = "deny"
  BY <1>1, PopFacts, DenyingFrames
<1> QED
  BY <1>1, <1>2, <1>3 DEF Top

\* Nothing turns on the refusals, and none was on its way.
LEMMA NoDeny ==
    ASSUME DenyInv, Active, UNCHANGED denied, ~Returning(DENY)
    PROVE  DenyInv'
BY DEF DenyInv, Active

\* A frame that is not a deny passes a refusal on.
LEMMA ResultDeny ==
    ASSUME StateTypes, DenyInv, Active, NEW s, Result(s), phase' = phase,
           UNCHANGED denied, stack # <<>>, stack' = Pop,
           Returning(DENY) => s = DENY
    PROVE  DenyInv'
<1>1. todo'.op = "return" /\ todo'.status = s
  BY DEF Result, Return
<1>2. ~Denying(stack) => ~Denying(stack')
  BY PopDenying DEF StateTypes
<1> QED
  BY <1>1, <1>2 DEF DenyInv, Returning, Active

\* Every step passes on a refusal that no deny surrounds.
LEMMA DenyStep ==
    ASSUME StateTypes, FramesInv, DenyInv, [Next]_vars
    PROVE  DenyInv'
<1>1. CASE Active /\ handle_include
  <2>1. ~Returning(DENY)
    BY <1>1 DEF handle_include, Returning
  <2> QED
    BY <1>1, <2>1, NoDeny DEF handle_include
<1>2. CASE Active /\ OpenFile
  <2>1. ~Returning(DENY)
    BY <1>2 DEF OpenFile, Returning
  <2> QED
    BY <1>2, <2>1, NoDeny DEF OpenFile
<1>3. CASE Active /\ ReadDir
  <2>1. ~Returning(DENY)
    BY <1>3 DEF ReadDir, Running, None, Returning
  <2> QED
    BY <1>3, <2>1, NoDeny DEF ReadDir
<1>4. CASE Active /\ ReadDirResult
  <2>1. Returning(DENY) => DirStops(todo.status)
    BY DEF DirStops, Returning, DENY, NOMATCH
  <2> QED
    BY <1>4, <2>1, ResultDeny, NoDeny DEF ReadDirResult, Returned, Returning
<1>5. CASE Active /\ ReadConfLine
  <2>1. ~Returning(DENY)
    BY <1>5 DEF ReadConfLine, Running, None, Returning
  <2> QED
    BY <1>5, <2>1, NoDeny DEF ReadConfLine
<1>6. CASE Active /\ ConfInclude
  <2>1. phase # "permit"
    BY <1>6, PopFacts DEF ConfInclude, Returned, Top, FramesInv, StateTypes
  <2> QED
    BY <1>6, <2>1 DEF ConfInclude, DenyInv, Active
<1>7. CASE Active /\ Loaded
  BY <1>7 DEF Loaded, DenyInv, history
<1>8. CASE Active /\ acl_check
  <2>1. ~Returning(DENY)
    BY <1>8 DEF acl_check, Returning
  <2> QED
    BY <1>8, <2>1, NoDeny DEF acl_check
<1>9. CASE Active /\ acl_check_deny
  <2>1. /\ stack # <<>> /\ Top.kind = "deny"
        /\ stack' = Pop /\ phase' = phase
    BY <1>9 DEF acl_check_deny, Returned
  <2>2. phase = "permit" /\ Denying(stack)
    BY <1>9, <2>1, PopFacts, PopDenying DEF Active, Top, FramesInv, StateTypes
  <2>3. ~denied
    BY <2>2 DEF DenyInv
  <2>4. denied' => DenyStatus(todo.status) = DENY /\ ~Denying(Pop)
    BY <1>9, <2>3, Zenon DEF acl_check_deny
  <2>5. todo'.op = "return" /\ todo'.status = DenyStatus(todo.status)
    BY <1>9 DEF acl_check_deny, Result, Return
  <2> QED
    BY <2>1, <2>2, <2>4, <2>5 DEF DenyInv, Returning
<1>10. CASE Active /\ ReadAclLine
  <2>1. ~Returning(DENY)
    BY <1>10 DEF ReadAclLine, Running, None, Returning
  <2> QED
    BY <1>10, <2>1, NoDeny DEF ReadAclLine
<1>11. CASE Active /\ AclResult
  <2>1. Returning(DENY) => todo.status # NOMATCH
    BY Statuses DEF Returning
  <2> QED
    BY <1>11, <2>1, ResultDeny, NoDeny DEF AclResult, AclDecides, Returned, Returning
<1>12. CASE Active /\ NextAcl
  <2>1. ~Returning(DENY)
    BY <1>12 DEF NextAcl, None, Returning
  <2> QED
    BY <1>12, <2>1, NoDeny DEF NextAcl, history
<1>13. CASE Active /\ AclPermit
  <2>1. CASE Returning(DENY)
    <3>1. Stops(todo.status) /\ todo.status # SUCCESS
      BY <2>1 DEF Returning, Stops, SUCCESS, DENY, NOMATCH
    <3>2. phase' = "done" /\ ~answer'
      BY <1>13, <3>1, Zenon DEF AclPermit
    <3> QED
      BY <3>2 DEF DenyInv
  <2>2. CASE ~Returning(DENY)
    BY <1>13, <2>2, NoDeny DEF AclPermit, history
  <2> QED
    BY <2>1, <2>2
<1>14. CASE Permit
  BY <1>14 DEF Permit, DenyInv, history
<1>15. CASE UNCHANGED vars
  BY <1>15 DEF vars, history, DenyInv, Returning
<1> QED
  BY <1>1, <1>2, <1>3, <1>4, <1>5, <1>6, <1>7, <1>8, <1>9, <1>10, <1>11,
     <1>12, <1>13, <1>14, <1>15 DEF Next, Step, Finished

\* Matches that directories keep, when a frame is removed, ...
LEMMA PopMatch ==
    ASSUME stack \in Seq(Frame), stack # <<>>
    PROVE  /\ HasMatch(Pop) => HasMatch(stack)
           /\ Top.kind = "dir" /\ Top.status = SUCCESS /\ ~Denying(Pop) =>
                 HasMatch(stack)
<1>1. /\ Len(stack) \in Nat \ {0} /\ Len(Pop) = Len(stack) - 1
      /\ \A k \in 1..(Len(stack) - 1) : Pop[k] = stack[k]
      /\ Pop \in Seq(Frame)
  BY PopFacts
<1>2. ASSUME HasMatch(Pop) PROVE HasMatch(stack)
  <2>1. PICK k \in 1..(Len(stack) - 1) : Matched(Pop, k)
    BY <1>1, <1>2 DEF HasMatch
  <2>2. \A j \in 1..k : j \in 1..(Len(stack) - 1)
    BY <1>1
  <2>3. \A j \in 1..k : Pop[j] = stack[j]
    BY <1>1, <2>2
  <2>4. k \in 1..k
    BY <1>1
  <2>5. Matched(stack, k)
    BY <2>1, <2>3, <2>4 DEF Matched
  <2> QED
    BY <1>1, <2>5 DEF HasMatch
<1>3. ASSUME Top.kind = "dir", Top.status = SUCCESS, ~Denying(Pop)
      PROVE  HasMatch(stack)
  <2>1. \A k \in 1..(Len(stack) - 1) : stack[k].kind # "deny"
    BY <1>1, <1>3, DenyingFrames
  <2>2. Matched(stack, Len(stack))
    BY <1>3, <2>1 DEF Matched, Top
  <2> QED
    BY <1>1, <2>2 DEF HasMatch
<1> QED
  BY <1>2, <1>3

\* ... when one goes on, ...
LEMMA SetMatch ==
    ASSUME stack \in Seq(Frame), stack # <<>>,
           NEW f \in Frame, f.kind = Top.kind, HasMatch(SetTop(f))
    PROVE  \/ HasMatch(stack)
           \/ /\ f.kind = "dir" /\ f.status = SUCCESS /\ f.status # Top.status
              /\ ~Denying(stack)
<1>1. Len(stack) \in Nat \ {0}
  BY PopFacts
<1>2. /\ Len(SetTop(f)) = Len(stack) /\ SetTop(f)[Len(stack)] = f
      /\ \A k \in 1..(Len(stack) - 1) : SetTop(f)[k] = stack[k]
  BY SetFacts
<1>3. PICK k \in 1..Len(stack) : Matched(SetTop(f), k)
  BY <1>2 DEF HasMatch
<1>4. \A j \in 1..(k - 1) : stack[j].kind # "deny"
  BY <1>1, <1>2, <1>3 DEF Matched
<1>5. CASE k < Len(stack)
  <2>1. Matched(stack, k)
    BY <1>1, <1>2, <1>3, <1>4, <1>5 DEF Matched
  <2> QED
    BY <2>1 DEF HasMatch
<1>6. CASE k = Len(stack)
  <2>1. f.kind = "dir" /\ f.status = SUCCESS
    BY <1>2, <1>3, <1>6 DEF Matched
  <2>2. CASE Top.status = SUCCESS
    <3>1. Matched(stack, k)
      BY <1>4, <1>6, <2>1, <2>2 DEF Matched, Top
    <3> QED
      BY <3>1 DEF HasMatch
  <2>3. ~Denying(stack)
    <3>1. Top.kind # "deny"
      BY <2>1
    <3>2. \A j \in 1..Len(stack) : stack[j].kind # "deny"
      BY <1>1, <1>4, <1>6, <3>1 DEF Top
    <3> QED
      BY <3>2, DenyingFrames
  <2> QED
    BY <2>1, <2>2, <2>3
<1> QED
  BY <1>1, <1>5, <1>6

\* ... and when one is added that has not seen a match.
LEMMA PushMatch ==
    ASSUME stack \in Seq(Frame), NEW f \in Frame, f.status # SUCCESS,
           HasMatch(Append(stack, f))
    PROVE  HasMatch(stack)
<1>1. Len(stack) \in Nat
  BY LenProperties
<1>2. /\ Len(Append(stack, f)) = Len(stack) + 1
      /\ Append(stack, f)[Len(stack) + 1] = f
      /\ \A k \in 1..Len(stack) : Append(stack, f)[k] = stack[k]
  BY PushFacts
<1>3. PICK k \in 1..(Len(stack) + 1) : Matched(Append(stack, f), k)
  BY <1>2 DEF HasMatch
<1>4. k \in 1..Len(stack)
  BY <1>1, <1>2, <1>3 DEF Matched
<1>5. Matched(stack, k)
  BY <1>1, <1>2, <1>3, <1>4 DEF Matched
<1> QED
  BY <1>4, <1>5 DEF HasMatch

\* What a step has to show.
LEMMA GrantFrom ==
    ASSUME GrantInv, Active, phase' \in {phase, "crashed"},
           granted => granted',
           phase' = "permit" /\ HasMatch(stack') =>
               HasMatch(stack) \/ granted',
           phase' = "permit" /\ Returning(SUCCESS)' /\ ~Denying(stack') =>
               granted'
    PROVE  GrantInv'
BY DEF GrantInv, Active

\* The frames stay and no success is returned.
LEMMA GrantSame ==
    ASSUME GrantInv, Active, UNCHANGED <<phase, stack, granted>>,
           ~Returning(SUCCESS)'
    PROVE  GrantInv'
BY GrantFrom

\* A frame is added that has not seen a match.
LEMMA GrantPush ==
    ASSUME StateTypes, GrantInv, Active, NEW f \in Frame, f.status = NOMATCH,
           Push(f), UNCHANGED granted, ~Returning(SUCCESS)'
    PROVE  GrantInv'
<1>1. CASE stack' = Append(stack, f) /\ UNCHANGED phase
  BY <1>1, PushMatch, Statuses, GrantFrom DEF StateTypes
<1>2. CASE phase' = "crashed"
  BY <1>2, GrantFrom
<1> QED
  BY <1>1, <1>2 DEF Push

\* A frame is removed and returns what it may.
LEMMA GrantPop ==
    ASSUME StateTypes, GrantInv, Active, stack # <<>>, stack' = Pop,
           UNCHANGED <<phase, granted>>, NEW s, Result(s),
           phase = "permit" /\ s = SUCCESS /\ ~Denying(Pop) => granted
    PROVE  GrantInv'
<1>1. todo'.op = "return" /\ todo'.status = s
  BY DEF Result, Return
<1> QED
  BY <1>1, PopMatch, GrantFrom DEF StateTypes, Returning

\* A file or a directory goes on to its next line or entry.
LEMMA SetPosMatch ==
    ASSUME StateTypes, stack # <<>>,
           HasMatch(SetTop([Top EXCEPT !.pos = Top.pos + 1]))
    PROVE  HasMatch(stack)
<1> DEFINE f == [Top EXCEPT !.pos = Top.pos + 1]
<1>1. f \in Frame /\ f.kind = Top.kind /\ f.status = Top.status
  BY RunningFrame, FrameFacts
<1> HIDE DEF f
<1>2. HasMatch(SetTop(f))
  BY DEF f
<1> QED
  BY <1>1, <1>2, SetMatch DEF StateTypes

\* Every step: a success that no deny surrounds comes from a match.
LEMMA GrantStep ==
    ASSUME StateTypes, FramesInv, GrantInv, [Next]_vars
    PROVE  GrantInv'
<1>1. CASE Active /\ handle_include
  <2>1. CASE UNCHANGED <<phase, stack>>
    <3>1. ~Returning(SUCCESS)'
      BY <1>1, <2>1, Statuses
      DEF handle_include, Push, Result, Return, Returning, Open, None
    <3> QED
      BY <1>1, <2>1, <3>1, GrantSame DEF handle_include
  <2> DEFINE f == [kind |-> "dir", name |-> todo.path, pos |-> 1,
                   status |-> NOMATCH]
  <2>2. CASE Push(f) /\ todo' = None /\ todo.path \in Names
    <3>1. f \in Frame /\ f.status = NOMATCH /\ ~Returning(SUCCESS)'
      BY <2>2 DEF Frame, ConfigStatus, Returning, None
    <3> HIDE DEF f
    <3> QED
      BY <1>1, <2>2, <3>1, GrantPush DEF handle_include
  <2>3. todo.path \notin Names => Lookup(todo.path).type = "missing"
    BY DEF Lookup, Missing
  <2> QED
    BY <1>1, <2>1, <2>2, <2>3 DEF handle_include, SanityCheck
<1>2. CASE Active /\ OpenFile
  <2>1. CASE UNCHANGED <<phase, stack>>
    <3>1. ~Returning(SUCCESS)'
      BY <1>2, <2>1, Statuses
      DEF OpenFile, Push, Result, Return, Returning, None
    <3> QED
      BY <1>2, <2>1, <3>1, GrantSame DEF OpenFile
  <2>2. CASE /\ Push(FileFrame(todo.path)) /\ todo' = None
             /\ todo.path \in Names
    <3>1. /\ FileFrame(todo.path) \in Frame
          /\ FileFrame(todo.path).status = NOMATCH
          /\ ~Returning(SUCCESS)'
      BY <2>2 DEF FileFrame, Frame, ConfigStatus, Returning, None
    <3> QED
      BY <1>2, <2>2, <3>1, GrantPush DEF OpenFile
  <2>3. todo.path \notin Names => Lookup(todo.path).type = "missing"
    BY DEF Lookup, Missing
  <2> QED
    BY <1>2, <2>1, <2>2, <2>3 DEF OpenFile
<1>3. CASE Active /\ ReadDir
  <2>1. stack # <<>> /\ Top.kind = "dir" /\ UNCHANGED <<phase, granted>>
    BY <1>3 DEF ReadDir, Running
  <2>2. CASE stack' = Pop /\ Result(Top.status)
    <3>1. phase = "permit" /\ Top.status = SUCCESS /\ ~Denying(Pop) => granted
      BY <2>1, PopMatch DEF GrantInv, StateTypes
    <3> QED
      BY <1>3, <2>1, <2>2, <3>1, GrantPop
  <2>3. CASE /\ stack' = SetTop([Top EXCEPT !.pos = Top.pos + 1])
             /\ todo'.op # "return"
    BY <1>3, <2>1, <2>3, SetPosMatch, GrantFrom DEF Returning
  <2> QED
    BY <1>3, <2>2, <2>3 DEF ReadDir, Open, None
<1>4. CASE Active /\ ReadDirResult
  <2>1. /\ stack # <<>> /\ Top.kind = "dir" /\ UNCHANGED <<phase, granted>>
        /\ todo.op = "return" /\ todo.status \in ConfigStatus
    BY <1>4 DEF ReadDirResult, Returned, StateTypes
  <2>2. CASE stack' = Pop /\ Result(todo.status) /\ DirStops(todo.status)
    <3>1. todo.status # SUCCESS
      BY <2>1, <2>2, StopFacts, Statuses
    <3> QED
      BY <1>4, <2>1, <2>2, <3>1, GrantPop
  <2> DEFINE s == IF todo.status > Top.status THEN todo.status ELSE Top.status
  <2>3. CASE stack' = SetTop([Top EXCEPT !.status = s]) /\ todo' = None
    <3>1. s \in ConfigStatus /\ s \in {todo.status, Top.status}
      BY <2>1, RunningFrame
    <3> HIDE DEF s
    <3> DEFINE f == [Top EXCEPT !.status = s]
    <3>2. f \in Frame /\ f.kind = Top.kind /\ f.status = s
      BY <2>1, <3>1, RunningFrame, FrameFacts
    <3> HIDE DEF f
    <3>3. ASSUME phase' = "permit", HasMatch(stack')
          PROVE  HasMatch(stack) \/ granted'
      <4>1. HasMatch(SetTop(f))
        BY <2>3, <3>3 DEF f
      <4>2. \/ HasMatch(stack)
            \/ s = SUCCESS /\ s # Top.status /\ ~Denying(stack)
        BY <2>1, <3>2, <4>1, SetMatch DEF StateTypes
      <4> QED
        BY <2>1, <3>1, <3>3, <4>2 DEF GrantInv, Returning
    <3>4. ~Returning(SUCCESS)'
      BY <2>3 DEF Returning, None
    <3> QED
      BY <1>4, <2>1, <3>3, <3>4, GrantFrom
  <2> QED
    BY <1>4, <2>2, <2>3 DEF ReadDirResult
<1>5. CASE Active /\ ReadConfLine
  <2>1. /\ stack # <<>> /\ Top.kind = "conf"
        /\ UNCHANGED <<phase, granted>>
    BY <1>5, Zenon DEF ReadConfLine, Running
  <2>2. phase = "load"
    BY <1>5, <2>1, PopFacts DEF Active, Top, FramesInv, StateTypes
  <2> QED
    BY <2>1, <2>2 DEF GrantInv
<1>6. CASE Active /\ ConfInclude
  <2>1. phase = "load" /\ UNCHANGED <<phase, granted>>
    BY <1>6, PopFacts
    DEF ConfInclude, Returned, Active, Top, FramesInv, StateTypes
  <2> QED
    BY <2>1 DEF GrantInv
<1>7. CASE Active /\ Loaded
  BY <1>7 DEF Loaded, GrantInv, history
<1>8. CASE Active /\ acl_check
  <2> DEFINE f == [kind |-> "deny", name |-> Null, pos |-> 1,
                   status |-> NOMATCH]
             scheme == Scheme(todo.entry, todo.def)
             data == Data(todo.entry)
  <2>1. CASE /\ UNCHANGED <<phase, stack, granted>>
             /\ todo' = Include(data[1], todo.file)
    BY <1>8, <2>1, GrantSame DEF Include, Returning
  <2>2. CASE /\ todo' = Check(data, "princ", todo.file) /\ Push(f)
             /\ UNCHANGED granted
    <3>1. f \in Frame /\ f.status = NOMATCH
      BY DEF Frame, ConfigStatus
    <3>2. ~Returning(SUCCESS)'
      BY <2>2 DEF Check, Returning
    <3> HIDE DEF f
    <3> QED
      BY <1>8, <2>2, <3>1, <3>2, GrantPush
  <2> HIDE DEF scheme, data
  <2>3. CASE /\ Result(LeafStatus(scheme, data))
             /\ granted' = (granted \/ (/\ LeafStatus(scheme, data) = SUCCESS
                                        /\ ~Denying(stack)))
             /\ UNCHANGED <<phase, stack>>
    <3>1. /\ granted => granted'
          /\ LeafStatus(scheme, data) = SUCCESS /\ ~Denying(stack) => granted'
      BY <2>3, Zenon
    <3>2. todo'.status = LeafStatus(scheme, data)
      BY <2>3 DEF Result, Return
    <3> QED
      BY <1>8, <2>3, <3>1, <3>2, GrantFrom DEF Returning
  <2> QED
    BY <1>8, <2>1, <2>2, <2>3, Zenon DEF acl_check, scheme, data
<1>9. CASE Active /\ acl_check_deny
  <2>1. stack # <<>> /\ todo.status \in ConfigStatus
    BY <1>9 DEF acl_check_deny, Returned, StateTypes
  <2>2. DenyStatus(todo.status) # SUCCESS
    BY <2>1, DenyStatusFacts
  <2> QED
    BY <1>9, <2>1, <2>2, GrantPop DEF acl_check_deny
<1>10. CASE Active /\ ReadAclLine
  <2>1. stack # <<>> /\ UNCHANGED <<phase, granted>>
    BY <1>10 DEF ReadAclLine, Running
  <2>2. CASE stack' = Pop /\ \E s \in {NOMATCH, ERROR} : Result(s)
    BY <1>10, <2>1, <2>2, Statuses, GrantPop
  <2>3. CASE /\ stack' = SetTop([Top EXCEPT !.pos = Top.pos + 1])
             /\ todo'.op # "return"
    BY <1>10, <2>1, <2>3, SetPosMatch, GrantFrom DEF Returning
  <2> QED
    BY <1>10, <2>2, <2>3 DEF ReadAclLine, Check, None
<1>11. CASE Active /\ AclResult
  <2>1. /\ stack # <<>> /\ Top.kind = "acl" /\ todo.op = "return"
        /\ UNCHANGED <<phase, granted>>
    BY <1>11 DEF AclResult, Returned
  <2>2. CASE stack' = Pop /\ Result(todo.status)
    <3>1. phase = "permit" /\ todo.status = SUCCESS /\ ~Denying(Pop) => granted
      BY <2>1, PopDenying DEF GrantInv, Returning, StateTypes
    <3> QED
      BY <1>11, <2>1, <2>2, <3>1, GrantPop
  <2>3. CASE todo' = None /\ UNCHANGED stack
    BY <1>11, <2>1, <2>3, GrantSame DEF None, Returning
  <2> QED
    BY <1>11, <2>2, <2>3 DEF AclResult
<1>12. CASE Active /\ NextAcl
  <2>1. CASE phase' = "done" /\ ~answer'
    BY <2>1 DEF GrantInv
  <2>2. CASE /\ UNCHANGED phase
             /\ todo' = Check(rule.acls[pos], "file", rule.file)
    BY <1>12, <2>2, GrantSame DEF NextAcl, Check, Returning, history
  <2> QED
    BY <1>12, <2>1, <2>2, Zenon DEF NextAcl
<1>13. CASE Active /\ AclPermit
  <2>1. CASE phase' = "done" /\ answer' = (todo.status = SUCCESS)
    <3>1. answer' => Returning(SUCCESS)
      BY <1>13, <2>1, Zenon DEF AclPermit, Returning
    <3>2. ~Denying(stack)
      BY <1>13 DEF AclPermit, Denying
    <3>3. answer' => granted'
      BY <1>13, <3>1, <3>2 DEF AclPermit, GrantInv, history
    <3> QED
      BY <2>1, <3>3 DEF GrantInv
  <2>2. CASE UNCHANGED phase
    BY <1>13, <2>2, GrantSame DEF AclPermit, None, Returning, history
  <2> QED
    BY <1>13, <2>1, <2>2 DEF AclPermit
<1>14. CASE Permit
  BY <1>14, Statuses
  DEF Permit, GrantInv, FramesInv, HasMatch, None, Returning, history
<1>15. CASE UNCHANGED vars
  BY <1>15 DEF vars, history, GrantInv, Returning
<1> QED
  BY <1>1, <1>2, <1>3, <1>4, <1>5, <1>6, <1>7, <1>8, <1>9, <1>10, <1>11,
     <1>12, <1>13, <1>14, <1>15 DEF Next, Step, Finished

-----------------------------------------------------------------------------
(* The theorems *)

\* server_config_load starts in a state of the invariant.
LEMMA InitInv == Init => IInv
<1> SUFFICES ASSUME Init PROVE IInv
  OBVIOUS
<1>1. FlagTypes
  BY Zenon DEF Init, FlagTypes
<1>2. StateTypes
  BY FileSystemsAssumption, ClientsAssumption, EmptySeq
  DEF Init, StateTypes, Open
<1>3. FramesInv
  BY EmptySeq DEF Init, FramesInv, Open
<1>4. ErrorInv /\ DenyInv /\ GrantInv
  BY DEF Init, ErrorInv, DenyInv, GrantInv
<1> QED
  BY <1>1, <1>2, <1>3, <1>4, TypeParts DEF IInv

\* Every step keeps it.
LEMMA StepInv == IInv /\ [Next]_vars => IInv'
<1> SUFFICES ASSUME IInv, [Next]_vars PROVE IInv'
  OBVIOUS
<1>1. FlagTypes /\ StateTypes
  BY TypeParts DEF IInv
<1>2. FlagTypes' /\ StateTypes'
  BY <1>1, FlagStep, StateStep DEF IInv
<1>3. TypeOK'
  BY <1>2, Zenon DEF TypeOK, FlagTypes, StateTypes
<1> QED
  BY <1>1, <1>3, FramesStep, ErrorStep, DenyStep, GrantStep DEF IInv

\* The invariant holds in every state that loading and checking reach.
LEMMA Invariance == Spec => []IInv
BY InitInv, StepInv, PTL DEF Spec

(* TypeOK for all files: every status that config.c passes from one        *)
(* function to another is one of the four, however deep the calls are.     *)
THEOREM TypeCorrect == Spec => []TypeOK
<1>1. IInv => TypeOK
  BY DEF IInv
<1> QED
  BY <1>1, Invariance, PTL

(* FailClosed for all files, directories, includes, denies and clients: if *)
(* a check has failed, server_config_acl_permit does not return true.      *)
THEOREM ErrorsRefuse == Spec => []FailClosed
<1>1. IInv => FailClosed
  BY DEF IInv, ErrorInv, FailClosed
<1> QED
  BY <1>1, Invariance, PTL

(* DenyIsFinal for all of them: a deny that matches and that no other deny *)
(* surrounds refuses access, whatever matched before it in a directory.    *)
THEOREM DenyRefuses == Spec => []DenyIsFinal
<1>1. IInv => DenyIsFinal
  BY DEF IInv, DenyInv, DenyIsFinal
<1> QED
  BY <1>1, Invariance, PTL

(* GrantedByMatch for all of them: access is granted only by an entry that *)
(* matches the client and that no deny surrounds.                          *)
THEOREM GrantNeedsMatch == Spec => []GrantedByMatch
<1>1. IInv => GrantedByMatch
  BY DEF IInv, GrantInv, GrantedByMatch
<1> QED
  BY <1>1, Invariance, PTL
=============================================================================
