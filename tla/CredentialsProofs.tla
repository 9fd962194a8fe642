------------------------- MODULE CredentialsProofs -------------------------
(***************************************************************************)
(* Machine-checked proofs about Credentials and, through it, HostConfig:   *)
(* for every number of clients, aliases and keys, every plan of commands   *)
(* and every configuration at the start.                                   *)
(***************************************************************************)
EXTENDS Credentials, TLAPS

\* What a client's place in its command says of its arguments and of the key it
\* has read: no key is installed, and no alias worked on, that is not there.
LabelInv(c) ==
    /\ Adds(c) /\ pc[c] \in {"managed", "rename", "include"} => Valid(saving[c], NewEntry(c))
    /\ pc[c] = "include" => Adds(c)
    /\ Working(c) => Target(c) \in Aliases
    /\ pc[c] \in {"public", "fill"} => key[c] \in Keys
    /\ pc[c] \in {"probe", "grep", "append"} => key[c] # None
    /\ pc[c] = "ask" /\ cmd(c).op # "use" => key[c] # None
    /\ pc[c] \in {"login", "truncate", "store", "check"} =>
           cmd(c).op \in {"setup", "use"} /\ kind[c] # "direct"
    /\ pc[c] = "drop" => cmd(c).op \in {"setup", "unset"} /\ kind[c] # "direct"
    /\ kind[c] = "bastion" /\ pc[c] \in {"truncate", "store", "check"} => cmd(c).given = "good"
    /\ kind[c] = "bastion" /\ pc[c] = "drop" => cmd(c).op = "unset"
    /\ pc[c] \in {"login", "truncate", "store", "check", "drop"} =>
           \/ kind[c] = "exec-hop" /\ secret[c] = Target(c)
           \/ kind[c] = "bastion" /\ secret[c] \in Bastions

Typed == TypeOK /\ \A c \in Clients : LabelInv(c)

----------------------------------------------------------------------------
(* Types.                                                                  *)

LEMMA PlanTypes ==
    ASSUME TypeOK, NEW c \in Clients
    PROVE  /\ cmd(c) \in Commands
           /\ Target(c) \in Aliases \cup {None}
           /\ cmd(c).op # "wizard" => Target(c) \in Aliases
<1>1. plan[c] \in Commands
  BY HostConfigAssumption DEF TypeOK, ConfigTypeOK
<1> QED
  BY <1>1 DEF Target, Commands, Entries, cmd

\* The file of an alias is the alias's own or that of its bastion.
LEMMA SecretTypes ==
    ASSUME TypeOK, NEW a \in Aliases
    PROVE  /\ KindOf(a) \in Kinds /\ SecretOf(a) \in Secrets
           /\ KindOf(a) = "bastion" => SecretOf(a) \in Bastions
           /\ KindOf(a) # "bastion" => SecretOf(a) = a
<1>1. managed[a] \in Entries \cup {None}
  BY DEF TypeOK, ConfigTypeOK
<1>2. CASE managed[a] = None
  BY <1>2 DEF KindOf, SecretOf, Kinds, Secrets
<1>3. CASE managed[a] \in Entries /\ managed[a] # None
  BY <1>3 DEF KindOf, SecretOf, Kinds, Secrets, Entries
<1> QED
  BY <1>1, <1>2, <1>3

Labels ==
    {"begin", "managed", "rename", "include", "pair", "private", "public", "fill", "text",
     "probe", "ask", "grep", "append", "verify", "truncate", "store", "check", "drop", "login",
     "filter", "move", "rmprivate", "rmpublic", "done", "dead"}

\* What follows a step on credentials.
After == Labels \ {"begin", "managed", "rename", "include", "dead"}

Outcomes == {"ok", "exists", "absent", "invalid", "incomplete", "refused", "unverified",
             "jump", "write"}

\* A step on credentials leaves the configuration alone.
LEMMA SameConfigType ==
    ASSUME TypeOK, SameConfig, NEW c \in Clients,
           \/ UNCHANGED outcome
           \/ \E r \in Outcomes : outcome' = [outcome EXCEPT ![c] = r]
    PROVE  ConfigTypeOK'
  BY DEF TypeOK, ConfigTypeOK, SameConfig, fileVars, Outcomes

\* The credential commands before they reach the host.
LEMMA LookingTypes ==
    ASSUME Typed, NEW c \in Clients,
           Begin(c) \/ Status(c) \/ CheckPair(c) \/ ReadPublic(c)
    PROVE  TypeOK'
<1> USE DEF Typed
<1>0. TypeOK /\ LabelInv(c) /\ Target(c) \in Aliases \cup {None}
  BY PlanTypes
<1>1. CASE Begin(c)
  <2>1. ConfigTypeOK'
    BY <1>0, <1>1, SameConfigType DEF Begin, Done, Goto, Outcomes, FirstStep, Touch, KindOf, Kinds
  <2> QED
    <3>1. KindOf(Target(c)) \in Kinds /\ SecretOf(Target(c)) \in Secrets /\ Target(c) \in Aliases
      BY <1>0, <1>1, PlanTypes, SecretTypes DEF Begin
    <3>2. FirstStep(c) \in {"pair", "text", "ask", "drop", "truncate", "login"}
      BY DEF FirstStep
    <3> QED
      BY <1>0, <1>1, <2>1, <3>1, <3>2 DEF TypeOK, Begin, Goto, Touch, pairVars, storeVars
<1>2. CASE Status(c)
  <2>1. ConfigTypeOK'
    BY <1>0, <1>2, SameConfigType DEF Status, Done, Goto, Outcomes
  <2> QED
    BY <1>0, <1>2, <2>1, PlanTypes DEF TypeOK, Status, Done, Goto, pairVars, storeVars,
      clientVars, judgeVars, credVars, LabelInv, Working, Keys, Texts, Empty, Commands
<1>3. CASE CheckPair(c)
  <2>1. ConfigTypeOK'
    BY <1>0, <1>3, SameConfigType DEF CheckPair, Done, Goto, Outcomes, Touch
  <2> QED
    BY <1>0, <1>3, <2>1, PlanTypes DEF TypeOK, CheckPair, Done, Goto, pairVars, storeVars,
      clientVars, judgeVars, credVars, LabelInv, Working, Keys, Texts, Empty, Commands, Touch
<1>4. CASE ReadPublic(c)
  <2>1. ConfigTypeOK'
    BY <1>0, <1>4, SameConfigType DEF ReadPublic, Done, Goto, Outcomes
  <2> QED
    BY <1>0, <1>4, <2>1 DEF TypeOK, ReadPublic, Unreadable, Done, Goto, pairVars, storeVars,
      judgeVars, LabelInv, Working
<1> QED
  BY <1>1, <1>2, <1>3, <1>4

\* A pair is made, installed and removed.
LEMMA KeyTypes ==
    ASSUME Typed, NEW c \in Clients,
           \/ CreatePrivate(c) \/ OpenPublic(c) \/ FillPublic(c)
           \/ Probe(c) \/ Ask(c) \/ Grep(c) \/ Append(c) \/ Verify(c)
           \/ Filter(c) \/ Move(c) \/ RemovePrivate(c) \/ RemovePublic(c)
    PROVE  TypeOK'
<1> USE DEF Typed
<1>0. TypeOK /\ LabelInv(c) /\ Target(c) \in Aliases \cup {None}
  BY PlanTypes
<1>1. CASE CreatePrivate(c)
  <2>1. ConfigTypeOK'
    BY <1>0, <1>1, SameConfigType DEF CreatePrivate, Done, Goto, Outcomes
  <2> QED
    <3>1. Target(c) \in Aliases
      BY <1>0, <1>1 DEF CreatePrivate, LabelInv, Working
    <3>2. CASE made < MaxKeys /\ made' = made + 1
      <4>1. made' \in 0 .. MaxKeys /\ made' \in Keys
        BY <1>0, <3>2, CredentialsAssumption DEF TypeOK, Keys
      <4> QED
        BY <1>0, <1>1, <2>1, <3>1, <4>1 DEF TypeOK, CreatePrivate, Done, Goto, storeVars
    <3>3. CASE ~(made < MaxKeys /\ made' = made + 1)
      BY <1>0, <1>1, <2>1, <3>3 DEF TypeOK, CreatePrivate, Done, storeVars
    <3> QED
      BY <3>2, <3>3
<1>2. CASE OpenPublic(c)
  <2>1. ConfigTypeOK'
    BY <1>0, <1>2, SameConfigType DEF OpenPublic, Done, Goto, Outcomes, PrivateAfterFailure
  <2> QED
    BY <1>0, <1>2, <2>1, PlanTypes DEF TypeOK, OpenPublic, Done, Goto, pairVars, storeVars,
      clientVars, judgeVars, credVars, LabelInv, Working, Keys, Texts, Empty, Commands, PrivateAfterFailure
<1>3. CASE FillPublic(c)
  <2>1. ConfigTypeOK'
    BY <1>0, <1>3, SameConfigType DEF FillPublic, Done, Goto, Outcomes, PrivateAfterFailure
  <2> QED
    BY <1>0, <1>3, <2>1, PlanTypes DEF TypeOK, FillPublic, Done, Goto, pairVars, storeVars,
      clientVars, judgeVars, credVars, LabelInv, Working, Keys, Texts, Empty, Commands, PrivateAfterFailure
<1>4. CASE Probe(c)
  <2>1. ConfigTypeOK'
    BY <1>0, <1>4, SameConfigType DEF Probe, Done, Goto, Outcomes, Ready
  <2> QED
    BY <1>0, <1>4, <2>1, PlanTypes DEF TypeOK, Probe, Done, Goto, pairVars, storeVars,
      clientVars, judgeVars, credVars, LabelInv, Working, Keys, Texts, Empty, Commands, Ready
<1>5. CASE Ask(c)
  <2>1. ConfigTypeOK'
    BY <1>0, <1>5, SameConfigType DEF Ask, Done, Goto, Outcomes
  <2> QED
    BY <1>0, <1>5, <2>1, PlanTypes DEF TypeOK, Ask, Done, Goto, pairVars, storeVars,
      clientVars, judgeVars, credVars, LabelInv, Working, Keys, Texts, Empty, Commands
<1>6. CASE Grep(c)
  <2>1. ConfigTypeOK'
    BY <1>0, <1>6, SameConfigType DEF Grep, Done, Goto, Outcomes
  <2> QED
    BY <1>0, <1>6, <2>1, PlanTypes DEF TypeOK, Grep, Done, Goto, pairVars, storeVars,
      clientVars, judgeVars, credVars, LabelInv, Working, Keys, Texts, Empty, Commands
<1>7. CASE Append(c)
  <2>1. ConfigTypeOK'
    BY <1>0, <1>7, SameConfigType DEF Append, Done, Goto, Outcomes, Appended
  <2> QED
    BY <1>0, <1>7, <2>1, PlanTypes DEF TypeOK, Append, Endanger, Done, Goto, pairVars, storeVars,
      clientVars, judgeVars, credVars, LabelInv, Working, Keys, Texts, Empty, Commands, Appended
<1>8. CASE Verify(c)
  <2>1. ConfigTypeOK'
    BY <1>0, <1>8, SameConfigType DEF Verify, Done, Goto, Outcomes, Ready
  <2> QED
    BY <1>0, <1>8, <2>1, PlanTypes DEF TypeOK, Verify, Done, Goto, pairVars, storeVars,
      clientVars, judgeVars, credVars, LabelInv, Working, Keys, Texts, Empty, Commands, Ready
<1>9. CASE Filter(c)
  <2>1. ConfigTypeOK'
    BY <1>0, <1>9, SameConfigType DEF Filter, Done, Goto, Outcomes
  <2> QED
    BY <1>0, <1>9, <2>1, PlanTypes DEF TypeOK, Filter, Done, Goto, pairVars, storeVars,
      clientVars, judgeVars, credVars, LabelInv, Working, Keys, Texts, Empty, Commands
<1>10. CASE Move(c)
  <2>1. ConfigTypeOK'
    BY <1>0, <1>10, SameConfigType DEF Move, Done, Goto, Outcomes
  <2> QED
    BY <1>0, <1>10, <2>1, PlanTypes DEF TypeOK, Move, Endanger, Done, Goto, pairVars, storeVars,
      clientVars, judgeVars, credVars, LabelInv, Working, Keys, Texts, Empty, Commands
<1>11. CASE RemovePrivate(c)
  <2>1. ConfigTypeOK'
    BY <1>0, <1>11, SameConfigType DEF RemovePrivate, Done, Goto, Outcomes
  <2> QED
    BY <1>0, <1>11, <2>1, PlanTypes DEF TypeOK, RemovePrivate, Done, Goto, pairVars, storeVars,
      clientVars, judgeVars, credVars, LabelInv, Working, Keys, Texts, Empty, Commands
<1>12. CASE RemovePublic(c)
  <2>1. ConfigTypeOK'
    BY <1>0, <1>12, SameConfigType DEF RemovePublic, Done, Goto, Outcomes
  <2> QED
    BY <1>0, <1>12, <2>1, PlanTypes DEF TypeOK, RemovePublic, Done, Goto, pairVars, storeVars,
      clientVars, judgeVars, credVars, LabelInv, Working, Keys, Texts, Empty, Commands
<1> QED
  BY <1>1, <1>2, <1>3, <1>4, <1>5, <1>6, <1>7, <1>8, <1>9, <1>10, <1>11, <1>12

\* A password is stored, tried and removed.
LEMMA PasswordTypes ==
    ASSUME Typed, NEW c \in Clients,
           Login(c) \/ Truncate(c) \/ Store(c) \/ Check(c) \/ Drop(c)
    PROVE  TypeOK'
<1> USE DEF Typed
<1>0. TypeOK /\ LabelInv(c) /\ Target(c) \in Aliases \cup {None}
  BY PlanTypes
<1>1. CASE Login(c)
  <2>1. ConfigTypeOK'
    BY <1>0, <1>1, SameConfigType DEF Login, Done, Goto, Outcomes
  <2> QED
    BY <1>0, <1>1, <2>1, PlanTypes DEF TypeOK, Login, Done, Goto, pairVars, storeVars,
      clientVars, judgeVars, credVars, LabelInv, Working, Keys, Texts, Empty, Commands
<1>2. CASE Truncate(c)
  <2>1. ConfigTypeOK'
    BY <1>0, <1>2, SameConfigType DEF Truncate, Done, Goto, Outcomes, SetPassword
  <2> QED
    BY <1>0, <1>2, <2>1, PlanTypes DEF TypeOK, Truncate, Done, Goto, pairVars, storeVars,
      clientVars, judgeVars, credVars, LabelInv, Working, Keys, Texts, Empty, Commands, SetPassword
<1>3. CASE Store(c)
  <2>1. ConfigTypeOK'
    BY <1>0, <1>3, SameConfigType DEF Store, Done, Goto, Outcomes, SetPassword, Ready
  <2> QED
    <3>1. Target(c) \in Aliases /\ cmd(c).given \in Texts
      BY <1>0, <1>3, PlanTypes DEF Store, LabelInv, Working, Commands, Texts
    <3>2. password' \in [Secrets -> Texts]
      BY <1>0, <1>3, <3>1 DEF TypeOK, Store, SetPassword
    <3>3. pc' \in [Clients -> Labels]
      BY <1>0, <1>3 DEF Labels, TypeOK, Store, Ready, Done, Goto
    <3>4. ready' \subseteq Aliases
      BY <1>0, <1>3, <3>1 DEF TypeOK, Store, Ready
    <3> QED
      BY <1>0, <1>3, <2>1, <3>2, <3>3, <3>4 DEF Labels, TypeOK, Store, pairVars, clientVars, judgeVars
<1>4. CASE Check(c)
  <2>1. ConfigTypeOK'
    BY <1>0, <1>4, SameConfigType DEF Check, Done, Goto, Outcomes, Ready, Refused
  <2> QED
    <3>1. Target(c) \in Aliases /\ JumpOpens(Target(c)) \in BOOLEAN
      BY <1>0, <1>4 DEF Check, LabelInv, Working, JumpOpens
    <3>2. entered' \in [Clients -> BOOLEAN]
      BY <1>0, <1>4, <3>1 DEF TypeOK, Check
    <3>3. pc' \in [Clients -> Labels]
      BY <1>0, <1>4 DEF Labels, TypeOK, Check, Ready, Refused, Done, Goto
    <3>4. ready' \subseteq Aliases
      BY <1>0, <1>4, <3>1 DEF TypeOK, Check, Ready
    <3> QED
      BY <1>0, <1>4, <2>1, <3>2, <3>3, <3>4 DEF Labels, TypeOK, Check, pairVars, storeVars, judgeVars
<1>5. CASE Drop(c)
  <2>1. ConfigTypeOK'
    BY <1>0, <1>5, SameConfigType DEF Drop, Done, Goto, Outcomes, SetPassword
  <2> QED
    BY <1>0, <1>5, <2>1, PlanTypes DEF TypeOK, Drop, Done, Goto, pairVars, storeVars,
      clientVars, judgeVars, credVars, LabelInv, Working, Keys, Texts, Empty, Commands, SetPassword
<1> QED
  BY <1>1, <1>2, <1>3, <1>4, <1>5

----------------------------------------------------------------------------
(* What every step on credentials leaves alone.                            *)

\* It moves its own client, and works on the files of one alias.
Frame(c) ==
    /\ SameConfig
    /\ \E l \in After : pc' = [pc EXCEPT ![c] = l]
    /\ \A d \in Clients \ {c} : key'[d] = key[d] /\ kind'[d] = kind[d] /\ secret'[d] = secret[d]
    /\ torn \subseteq torn'
    /\ \A a \in Aliases \ {Target(c)} :
        /\ private'[a] = private[a] /\ public'[a] = public[a]
        /\ password'[a] = password[a]

LEMMA StepFrame == ASSUME Typed, NEW c \in Clients, Step(c) PROVE Frame(c)
<1> USE DEF Typed, TypeOK, Frame, After, Labels, Goto, Done,
      pairVars, storeVars, clientVars, judgeVars, credVars
<1>1. CASE Begin(c)
  <2>1. FirstStep(c) \in After
    BY DEF FirstStep
  <2> QED
    BY <1>1, <2>1 DEF Begin, Touch
<1>2. CASE Status(c)
  BY <1>2 DEF Status, credVars
<1>3. CASE CheckPair(c)
  BY <1>3 DEF CheckPair, Touch
<1>4. CASE ReadPublic(c)
  BY <1>4 DEF ReadPublic
<1>5. CASE CreatePrivate(c)
  BY <1>5 DEF CreatePrivate
<1>6. CASE OpenPublic(c)
  BY <1>6 DEF OpenPublic, PrivateAfterFailure
<1>7. CASE FillPublic(c)
  BY <1>7 DEF FillPublic, PrivateAfterFailure
<1>8. CASE Probe(c)
  BY <1>8 DEF Probe, Ready
<1>9. CASE Ask(c)
  BY <1>9 DEF Ask
<1>10. CASE Grep(c)
  BY <1>10 DEF Grep
<1>11. CASE Append(c)
  BY <1>11 DEF Append
<1>12. CASE Verify(c)
  BY <1>12 DEF Verify, Ready
<1>13. CASE Filter(c)
  BY <1>13 DEF Filter
<1>14. CASE Move(c)
  BY <1>14 DEF Move
<1>15. CASE RemovePrivate(c)
  BY <1>15 DEF RemovePrivate
<1>16. CASE RemovePublic(c)
  BY <1>16 DEF RemovePublic
<1>17. CASE Login(c)
  BY <1>17 DEF Login
<1>s. pc[c] \in {"truncate", "store", "drop"} => secret[c] \notin Aliases \ {Target(c)}
  BY CredentialsAssumption DEF LabelInv
<1>18. CASE Truncate(c)
  BY <1>18, <1>s DEF Truncate, SetPassword, Secrets
<1>19. CASE Store(c)
  BY <1>19, <1>s DEF Store, SetPassword, Ready, Secrets
<1>20. CASE Check(c)
  BY <1>20 DEF Check, Ready, Refused
<1>21. CASE Drop(c)
  BY <1>21, <1>s DEF Drop, SetPassword, Secrets
<1> QED
  BY <1>1, <1>2, <1>3, <1>4, <1>5, <1>6, <1>7, <1>8, <1>9, <1>10, <1>11, <1>12, <1>13, <1>14, <1>15, <1>16, <1>17, <1>18, <1>19, <1>20, <1>21 DEF Step

\* The label facts of the other clients survive.
LEMMA OtherLabels ==
    ASSUME Typed, NEW c \in Clients, UNCHANGED <<plan, kind, secret, key>>,
           \A d \in Clients \ {c} : pc'[d] = pc[d] /\ saving'[d] = saving[d],
           LabelInv(c)'
    PROVE  \A d \in Clients : LabelInv(d)'
<1> SUFFICES ASSUME NEW d \in Clients \ {c} PROVE LabelInv(d)'
  OBVIOUS
<1> QED
  BY DEF Typed, LabelInv, Working, Target, Adds, cmd, NewEntry, IsExtra, Valid

\* A client that comes to a label has what that label asks for.
LEMMA StepLabels == ASSUME Typed, NEW c \in Clients, Step(c) PROVE \A d \in Clients : LabelInv(d)'
<1>1. Frame(c)
  BY StepFrame
<1>2. ASSUME NEW d \in Clients \ {c} PROVE LabelInv(d)'
  BY <1>1, <1>2 DEF Typed, TypeOK, LabelInv, Frame, SameConfig, Working, Target, Adds, cmd,
     NewEntry, IsExtra, Valid
<1>3. UNCHANGED plan /\ pc'[c] \in After
  BY <1>1 DEF Frame, SameConfig, Typed, TypeOK
<1>4. Target(c)' = Target(c) /\ cmd(c)' = cmd(c)
  BY <1>3 DEF Target, cmd
<1>5. LabelInv(c) /\ TypeOK /\ (Working(c) \/ Begin(c) => Target(c) \in Aliases)
  BY PlanTypes DEF Typed, Begin, LabelInv
<1>6. \A k \in Keys : k # None
  BY CredentialsAssumption DEF Keys
<1>7. LabelInv(c)'
  <2> USE <1>3, <1>4, <1>5 DEF LabelInv, Working, After, Labels, Goto, Done, clientVars,
      credVars, TypeOK
  <2>1. CASE Begin(c)
    <3>1. /\ kind'[c] = KindOf(Target(c)) /\ secret'[c] = SecretOf(Target(c))
          /\ pc'[c] = FirstStep(c) /\ Target(c) \in Aliases /\ cmd(c).op \in {"setup", "unset", "use"}
      BY <2>1 DEF Begin
    <3>2. /\ pc'[c] \in {"truncate", "drop"} => kind'[c] # "direct"
          /\ pc'[c] = "login" => kind'[c] \notin {"direct", "exec-hop"} /\ cmd(c).op # "unset"
          /\ pc'[c] = "truncate" => kind'[c] = "exec-hop" /\ cmd(c).op # "unset"
          /\ pc'[c] = "drop" => cmd(c).op = "unset"
          /\ pc'[c] = "ask" => cmd(c).op = "use"
          /\ pc'[c] \in {"pair", "text", "ask", "truncate", "drop", "login"}
      BY <3>1 DEF FirstStep
    <3>3. /\ kind'[c] \in Kinds
          /\ kind'[c] = "bastion" => secret'[c] \in Bastions
          /\ kind'[c] = "exec-hop" => secret'[c] = Target(c)
      BY <3>1, SecretTypes
    <3> QED
      BY <3>1, <3>2, <3>3 DEF Kinds
  <2>2. CASE Status(c)
    BY <2>2 DEF Status
  <2>3. CASE CheckPair(c)
    BY <2>3 DEF CheckPair
  <2>4. CASE ReadPublic(c)
    BY <2>4 DEF ReadPublic, Unreadable
  <2>5. CASE CreatePrivate(c)
    <3>1. key'[c] = made + 1 /\ made < MaxKeys => key'[c] \in Keys
      BY CredentialsAssumption DEF Keys
    <3> QED
      BY <2>5, <3>1 DEF CreatePrivate
  <2>6. CASE OpenPublic(c)
    BY <2>6, <1>6 DEF OpenPublic
  <2>7. CASE FillPublic(c)
    BY <2>7, <1>6 DEF FillPublic
  <2>8. CASE Probe(c)
    BY <2>8 DEF Probe, Ready
  <2>9. CASE Ask(c)
    BY <2>9 DEF Ask
  <2>10. CASE Grep(c)
    BY <2>10 DEF Grep
  <2>11. CASE Append(c)
    BY <2>11 DEF Append
  <2>12. CASE Verify(c)
    BY <2>12 DEF Verify, Ready
  <2>13. CASE Filter(c)
    BY <2>13 DEF Filter
  <2>14. CASE Move(c)
    BY <2>14 DEF Move
  <2>15. CASE RemovePrivate(c)
    BY <2>15 DEF RemovePrivate
  <2>16. CASE RemovePublic(c)
    BY <2>16 DEF RemovePublic
  <2>17. CASE Login(c)
    BY <2>17 DEF Login
  <2>18. CASE Truncate(c)
    BY <2>18 DEF Truncate
  <2>19. CASE Store(c)
    BY <2>19 DEF Store, Ready
  <2>20. CASE Check(c)
    BY <2>20 DEF Check, Ready, Refused
  <2>21. CASE Drop(c)
    BY <2>21 DEF Drop
  <2> QED
    BY <2>1, <2>2, <2>3, <2>4, <2>5, <2>6, <2>7, <2>8, <2>9, <2>10, <2>11, <2>12, <2>13, <2>14, <2>15, <2>16, <2>17, <2>18, <2>19, <2>20, <2>21 DEF Step
<1> QED
  BY <1>2, <1>7

----------------------------------------------------------------------------
(* The steps on the configuration, and the invariant of the types.         *)

LEMMA ConfigTypes ==
    ASSUME Typed, NEW c \in Clients, ConfigStep(c)
    PROVE  ConfigTypeOK' /\ pc' \in [Clients -> Labels]
<1>1. /\ cmd(c) \in Commands /\ NewEntry(c) \in Entries /\ cmd(c).name \in Aliases
      /\ saving[c] \in Aliases /\ pc \in [Clients -> Labels]
  BY PlanTypes, HostConfigAssumption
  DEF Typed, TypeOK, ConfigTypeOK, NewEntry, Plain, Commands, Entries, Kinds, Labels
<1> USE <1>1 DEF Typed, TypeOK, Done, fileVars
<1>2. CASE ReadMain(c)
  <2>1. sawMain' \in [Clients -> [aliases : SUBSET Aliases, include : BOOLEAN]]
    BY <1>2 DEF ReadMain, ConfigTypeOK
  <2>2. pc' \in [Clients -> Labels]
    BY <1>2 DEF ReadMain, Labels
  <2> QED
    BY <1>2, <2>1, <2>2 DEF ReadMain, ConfigTypeOK
<1>3. CASE ReadManaged(c)
  <2>1. sawManaged' \in [Clients -> [Aliases -> Entries \cup {None}]]
    BY <1>3 DEF ReadManaged, ConfigTypeOK
  <2>2. pc' \in [Clients -> Labels]
    BY <1>3 DEF ReadManaged, Labels
  <2> QED
    BY <1>3, <2>1, <2>2 DEF ReadManaged, ConfigTypeOK
<1>4. CASE Rename(c)
  <2>1. Rendered(c) \in [Aliases -> Entries \cup {None}]
    BY DEF Rendered, ConfigTypeOK
  <2> QED
    BY <1>4, <2>1 DEF Rename, ConfigTypeOK, Labels
<1>5. CASE EnsureInclude(c)
  <2>1. main' \in [aliases : SUBSET Aliases, include : BOOLEAN] /\ clobbered' \in BOOLEAN
    BY <1>5 DEF EnsureInclude, ConfigTypeOK
  <2>2. /\ pc' \in [Clients -> Labels]
        /\ saving' \in [Clients -> Aliases]
        /\ outcome' \in [Clients -> {None, "ok", "exists", "absent", "invalid", "incomplete",
                                     "refused", "unverified", "jump", "write"}]
    BY <1>5 DEF EnsureInclude, Saves, ConfigTypeOK, Labels
  <2>3. UNCHANGED <<plan, managed, edits, sawMain, sawManaged, meant, overlapped, mine>>
    BY <1>5 DEF EnsureInclude
  <2> QED
    BY <2>1, <2>2, <2>3 DEF ConfigTypeOK
<1>6. CASE ReadForRemove(c)
  <2>1. sawManaged' \in [Clients -> [Aliases -> Entries \cup {None}]]
    BY <1>6 DEF ReadForRemove, ConfigTypeOK
  <2>2. pc' \in [Clients -> Labels]
    BY <1>6 DEF ReadForRemove, Labels
  <2> QED
    BY <1>6, <2>1, <2>2 DEF ReadForRemove, ConfigTypeOK
<1> QED
  BY <1>2, <1>3, <1>4, <1>5, <1>6 DEF ConfigStep

\* It moves its own client, and only to the next part of its command.
LEMMA ConfigFrame ==
    ASSUME Typed, NEW c \in Clients, ConfigStep(c)
    PROVE  /\ UNCHANGED plan
           /\ \A d \in Clients \ {c} : pc'[d] = pc[d] /\ saving'[d] = saving[d]
           /\ pc[c] \in {"begin", "managed", "rename", "include"}
           /\ pc'[c] \in {"begin", "managed", "rename", "include", "pair", "done"}
           /\ pc'[c] = "pair" => Target(c) \in Aliases
<1> USE DEF Typed, TypeOK, ConfigTypeOK, Done, Labels
<1>1. CASE ReadMain(c)
  BY <1>1 DEF ReadMain
<1>2. CASE ReadManaged(c)
  BY <1>2 DEF ReadManaged
<1>3. CASE Rename(c)
  BY <1>3 DEF Rename
<1>4. CASE EnsureInclude(c)
  <2>1. pc'[c] = "pair" => Target(c) \in Aliases
    <3> SUFFICES ASSUME pc'[c] = "pair", cmd(c).op = "wizard", cmd(c).entry.kind = "exec-hop"
                 PROVE  cmd(c).entry.jump # None
      BY PlanTypes DEF Target, Commands
    <3>1. ~IsExtra(c) /\ Valid(saving[c], NewEntry(c))
      BY <1>4 DEF EnsureInclude, Saves, LabelInv, Adds
    <3> QED
      BY <3>1 DEF Valid, NewEntry
  <2> QED
    BY <1>4, <2>1 DEF EnsureInclude, Saves
<1>5. CASE ReadForRemove(c)
  BY <1>5 DEF ReadForRemove
<1> QED
  BY <1>1, <1>2, <1>3, <1>4, <1>5 DEF ConfigStep

LEMMA ConfigureTyped == ASSUME Typed, NEW c \in Clients, Configure(c) PROVE Typed'
<1>1. TypeOK'
  BY ConfigTypes DEF Configure, Typed, TypeOK, Labels, pairVars, storeVars, clientVars
<1>2. UNCHANGED <<plan, kind, secret, key>>
  BY ConfigFrame DEF Configure, clientVars
<1>3. \A d \in Clients \ {c} : pc'[d] = pc[d] /\ saving'[d] = saving[d]
  BY ConfigFrame DEF Configure
<1>4. LabelInv(c)'
  <2>1. Target(c)' = Target(c) /\ cmd(c)' = cmd(c) /\ (Adds(c)' <=> Adds(c))
    BY <1>2 DEF Target, cmd, Adds
  <2>2. Adds(c) /\ pc'[c] \in {"managed", "rename", "include"} => Valid(saving[c], NewEntry(c))'
    <3>1. CASE ReadMain(c)
      BY <1>2, <3>1 DEF ReadMain, Done, Typed, TypeOK, Valid, NewEntry, IsExtra, cmd, Labels
    <3>2. CASE ReadManaged(c) \/ Rename(c)
      BY <1>2, <3>2 DEF ReadManaged, Rename, Done, Typed, TypeOK, LabelInv, Valid, NewEntry,
         IsExtra, Adds, cmd, Labels
    <3>3. CASE EnsureInclude(c)
      BY <3>3 DEF EnsureInclude, Saves, Done, Typed, TypeOK, Labels
    <3>4. CASE ReadForRemove(c)
      BY <3>4 DEF ReadForRemove, Adds, cmd
    <3> QED
      BY <3>1, <3>2, <3>3, <3>4 DEF Configure, ConfigStep
  <2>3. pc'[c] \in {"begin", "managed", "rename", "include", "pair", "done"}
    BY ConfigFrame DEF Configure
  <2>4. Working(c)' => Target(c)' \in Aliases
    BY <2>1, <2>3, ConfigFrame DEF Configure, Working
  <2>5. pc'[c] = "include" => Adds(c)
    BY DEF Configure, ConfigStep, ReadMain, ReadManaged, Rename, EnsureInclude, Saves,
       ReadForRemove, Done, Typed, TypeOK, LabelInv
  <2> QED
    BY <2>1, <2>2, <2>3, <2>4, <2>5 DEF LabelInv
<1> QED
  BY <1>1, <1>2, <1>3, <1>4, OtherLabels DEF Typed

LEMMA DieTyped == ASSUME Typed, NEW c \in Clients, Die(c) PROVE Typed'
<1>1. pc[c] \in {"public", "fill", "rmpublic"} => Target(c) \in Aliases
  BY DEF Typed, LabelInv, Working
<1>2. TypeOK'
  BY <1>1 DEF Die, Typed, TypeOK, ConfigTypeOK, configVars, pairVars, storeVars, clientVars
<1>3. LabelInv(c)'
  BY DEF Die, Typed, TypeOK, LabelInv, Working
<1> QED
  BY <1>2, <1>3, OtherLabels DEF Die, Typed, TypeOK, configVars, clientVars

LEMMA EditTyped == ASSUME Typed, EditMain, UNCHANGED credVars PROVE Typed'
<1>1. TypeOK'
  <2>1. edits' \in 0 .. MaxEdits
    BY HostConfigAssumption DEF EditMain, Typed, TypeOK, ConfigTypeOK
  <2>2. main' \in [aliases : SUBSET Aliases, include : BOOLEAN] /\ mine' \subseteq Aliases
    <3>1. PICK t \in SUBSET Aliases : main' = [main EXCEPT !.aliases = t] /\ mine' = t
      BY DEF EditMain, Typed, TypeOK, ConfigTypeOK
    <3> QED
      BY <3>1 DEF Typed, TypeOK, ConfigTypeOK
  <2>3. clobbered' \in BOOLEAN
    BY DEF EditMain
  <2>4. ConfigTypeOK'
    BY <2>1, <2>2, <2>3 DEF EditMain, Typed, TypeOK, ConfigTypeOK
  <2> QED
    BY <2>4 DEF EditMain, Typed, TypeOK, credVars, pairVars, storeVars, clientVars, judgeVars
<1>2. \A d \in Clients : LabelInv(d)'
  BY DEF EditMain, Typed, LabelInv, Working, Target, Adds, cmd, NewEntry, IsExtra, Valid,
     credVars, clientVars
<1> QED
  BY <1>1, <1>2 DEF Typed

LEMMA TypedInit == Init => Typed
<1> SUFFICES ASSUME Init PROVE Typed
  OBVIOUS
<1>1. \A c \in Clients : cmd(c) \in Commands
  BY HostConfigAssumption DEF Init, ConfigInit, cmd
<1>2. ConfigTypeOK
  <2>1. \A c \in Clients : First(c) \in Aliases
    BY <1>1 DEF First, Commands
  <2>2. main \in [aliases : SUBSET Aliases, include : BOOLEAN] /\ edits \in 0 .. MaxEdits
    BY HostConfigAssumption DEF Init, ConfigInit
  <2> QED
    BY <2>1, <2>2, HostConfigAssumption DEF Init, ConfigInit, ConfigTypeOK
<1>3. TypeOK
  <2>1. made \in 0 .. MaxKeys
    BY CredentialsAssumption DEF Init
  <2> QED
    BY <1>2, <2>1, CredentialsAssumption DEF Init, ConfigInit, TypeOK, Kinds, Texts
<1>4. \A c \in Clients : LabelInv(c)
  BY DEF Init, ConfigInit, LabelInv, Working
<1> QED
  BY <1>3, <1>4 DEF Typed

LEMMA TypedStep == Typed /\ [Next]_vars => Typed'
<1> SUFFICES ASSUME Typed, [Next]_vars PROVE Typed'
  OBVIOUS
<1>1. ASSUME NEW c \in Clients, Step(c) PROVE Typed'
  BY <1>1, StepLabels, LookingTypes, KeyTypes, PasswordTypes DEF Step, Typed
<1>2. CASE UNCHANGED vars
  BY <1>2 DEF vars, configVars, credVars, pairVars, storeVars, clientVars, judgeVars,
     Typed, TypeOK, ConfigTypeOK, LabelInv, Working, Target, Adds, cmd, NewEntry, IsExtra, Valid
<1> QED
  BY <1>1, <1>2, ConfigureTyped, DieTyped, EditTyped DEF Next

LEMMA AlwaysTyped == Spec => []Typed
<1> QED
  BY TypedInit, TypedStep, PTL DEF Spec

\* Every variable keeps its type: an authorized line is a key or an empty text, never
\* something that was not read, and every alias worked on is one that exists.
THEOREM CredentialsTypeCorrect == Spec => []TypeOK
<1>1. Typed => TypeOK
  BY DEF Typed
<1> QED
  BY <1>1, AlwaysTyped, PTL

----------------------------------------------------------------------------
(* Lost updates of the configuration.                                      *)

\* What a client that is about to rename has read is out of date only where another
\* client changed the file under its eyes; the same for ~/.ssh/config and the user.
KeptInv ==
    /\ \A a \in Aliases : managed[a] # meant[a] => a \in overlapped
    /\ \A c \in Clients : pc[c] = "rename" =>
           \A a \in Aliases : sawManaged[c][a] # meant[a] => a \in overlapped
    /\ main.aliases # mine => clobbered
    /\ \A c \in Clients :
           Adds(c) /\ pc[c] \in {"managed", "rename", "include"} /\ ~sawMain[c].include =>
               clobbered \/ sawMain[c].aliases = mine

LEMMA KeptInit == Init => KeptInv
  BY DEF Init, ConfigInit, KeptInv

LEMMA KeptOther ==
    ASSUME KeptInv, UNCHANGED <<plan, managed, main, meant, overlapped, mine, clobbered, sawMain, sawManaged>>,
           \A c \in Clients : pc'[c] \in {"managed", "rename", "include"} => pc'[c] = pc[c]
    PROVE  KeptInv'
  BY DEF KeptInv, Adds, cmd

LEMMA KeptConfig == ASSUME Typed, KeptInv, NEW c \in Clients, ConfigStep(c) PROVE KeptInv'
<1>0. /\ managed \in [Aliases -> Entries \cup {None}] /\ meant \in [Aliases -> Entries \cup {None}]
      /\ sawManaged \in [Clients -> [Aliases -> Entries \cup {None}]]
      /\ sawMain \in [Clients -> [aliases : SUBSET Aliases, include : BOOLEAN]]
      /\ main \in [aliases : SUBSET Aliases, include : BOOLEAN]
      /\ pc \in [Clients -> Labels] /\ saving[c] \in Aliases
  BY DEF Typed, TypeOK, ConfigTypeOK, Labels
<1>1. \A d \in Clients : Adds(d)' <=> Adds(d)
  BY ConfigFrame DEF Adds, cmd
<1>2. CASE ReadMain(c)
  BY <1>0, <1>1, <1>2 DEF ReadMain, Done, KeptInv, fileVars, Labels
<1>3. CASE ReadManaged(c)
  BY <1>0, <1>1, <1>3 DEF ReadManaged, Done, KeptInv, fileVars, Labels
<1>4. CASE Rename(c)
  <2>1. \A a \in Aliases \ {saving[c]} : Rendered(c)[a] = sawManaged[c][a] /\ meant'[a] = meant[a]
    BY <1>0, <1>4 DEF Rename, Rendered
  <2>2. managed'[saving[c]] = meant'[saving[c]] /\ managed' = Rendered(c)
    BY <1>0, <1>4 DEF Rename
  <2>3. \A a \in Aliases : managed'[a] # meant'[a] => a \in overlapped'
    BY <1>4, <2>1, <2>2 DEF Rename, KeptInv
  <2>4. ASSUME NEW d \in Clients, pc'[d] = "rename", NEW a \in Aliases, sawManaged'[d][a] # meant'[a]
        PROVE  a \in overlapped'
    <3>1. d # c /\ pc[d] = "rename" /\ sawManaged' = sawManaged
      BY <1>0, <1>4, <2>4 DEF Rename, Done, Labels
    <3>2. overlapped' = overlapped \cup {saving[c]}
      BY <1>4, <3>1 DEF Rename
    <3> QED
      BY <2>1, <2>4, <3>1, <3>2 DEF KeptInv
  <2>5. \A d \in Clients : pc'[d] \in {"managed", "rename", "include"} =>
            pc[d] \in {"managed", "rename", "include"}
    BY <1>0, <1>4 DEF Rename, Done, Labels
  <2> QED
    BY <1>1, <1>4, <2>3, <2>4, <2>5 DEF Rename, KeptInv
<1>5. CASE EnsureInclude(c)
  <2>1. \A d \in Clients : pc'[d] \in {"managed", "rename", "include"} => d # c /\ pc'[d] = pc[d]
    BY <1>0, <1>5 DEF EnsureInclude, Saves, Done, Labels
  <2>2. main'.aliases # mine => clobbered
    <3>1. CASE sawMain[c].include
      BY <1>5, <3>1 DEF EnsureInclude, KeptInv
    <3>2. CASE ~sawMain[c].include
      <4>1. main'.aliases = sawMain[c].aliases
        BY <1>0, <1>5, <3>2 DEF EnsureInclude
      <4>2. CASE Adds(c)
        BY <1>5, <3>2, <4>1, <4>2 DEF EnsureInclude, KeptInv
      <4>3. CASE ~Adds(c)
        BY <1>5, <4>3 DEF Typed, LabelInv, EnsureInclude
      <4> QED
        BY <4>2, <4>3
    <3> QED
      BY <3>1, <3>2
  <2> QED
    BY <1>1, <1>5, <2>1, <2>2 DEF EnsureInclude, KeptInv
<1>6. CASE ReadForRemove(c)
  BY <1>0, <1>1, <1>6 DEF ReadForRemove, Done, KeptInv, fileVars, Labels, Adds
<1> QED
  BY <1>2, <1>3, <1>4, <1>5, <1>6 DEF ConfigStep

LEMMA KeptEdit == ASSUME Typed, KeptInv, EditMain PROVE KeptInv'
<1>1. main'.aliases = mine'
  BY DEF EditMain, Typed, TypeOK, ConfigTypeOK
<1>2. \A d \in Clients : Adds(d)' <=> Adds(d)
  BY DEF EditMain, Adds, cmd
<1>3. clobbered => clobbered'
  BY DEF EditMain
<1>4. ASSUME NEW d \in Clients, pc[d] \in {"managed", "rename", "include"}, ~sawMain[d].include
      PROVE  clobbered'
  BY <1>4 DEF EditMain
<1> QED
  BY <1>1, <1>2, <1>3, <1>4 DEF EditMain, KeptInv

LEMMA KeptStep == Typed /\ KeptInv /\ [Next]_vars => KeptInv'
<1> SUFFICES ASSUME Typed, KeptInv, [Next]_vars PROVE KeptInv'
  OBVIOUS
<1>1. ASSUME NEW c \in Clients, Step(c) PROVE KeptInv'
  <2>1. Frame(c)
    BY <1>1, StepFrame
  <2>2. \A d \in Clients : pc'[d] \in {"managed", "rename", "include"} => pc'[d] = pc[d]
    BY <2>1 DEF Frame, After, Labels, Typed, TypeOK
  <2> QED
    BY <2>1, <2>2, KeptOther DEF Frame, SameConfig, fileVars
<1>2. ASSUME NEW c \in Clients, Die(c) PROVE KeptInv'
  <2>1. \A d \in Clients : pc'[d] \in {"managed", "rename", "include"} => pc'[d] = pc[d]
    BY <1>2 DEF Die, Typed, TypeOK
  <2> QED
    BY <1>2, <2>1, KeptOther DEF Die, configVars
<1>3. CASE UNCHANGED vars
  BY <1>3, KeptOther DEF vars, configVars
<1> QED
  BY <1>1, <1>2, <1>3, KeptConfig, KeptEdit DEF Next, Configure

\* No command loses or revives a host unless the files changed while it was about to
\* rename, and none loses an edit of ~/.ssh/config unless it read it without the Include line.
THEOREM ChangesAlwaysKept == Spec => []ChangesAreKept
<1>1. Init => Typed /\ KeptInv
  BY TypedInit, KeptInit
<1>2. (Typed /\ KeptInv) /\ [Next]_vars => (Typed /\ KeptInv)'
  BY TypedStep, KeptStep
<1>3. KeptInv => ChangesAreKept
  BY DEF KeptInv, ChangesAreKept
<1> QED
  BY <1>1, <1>2, <1>3, PTL DEF Spec

----------------------------------------------------------------------------
(* Half pairs.                                                             *)

Busy(c) == Working(c) /\ pc[c] # "pair"

\* Two clients that work on one alias have met: the second saw the first.
Apart ==
    \A c, d \in Clients : c # d /\ Busy(c) /\ Busy(d) /\ Target(c) = Target(d) => Target(c) \in torn

\* The files of an alias that was neither torn nor shared are what the label of the
\* only client that works on it says, and whole when none does.
PairOf(a) ==
    /\ \A c \in Clients : Target(c) = a =>
        /\ pc[c] = "private" => private[a] = None /\ public[a] = None
        /\ pc[c] = "public" => private[a] = key[c] /\ public[a] = None
        /\ pc[c] = "fill" => private[a] = key[c]
        /\ pc[c] = "rmpublic" => private[a] = None
    /\ (\A c \in Clients : Target(c) = a => pc[c] \notin {"public", "fill", "rmpublic"}) =>
        public[a] = private[a]

PairInv == Apart /\ \A a \in Aliases \ torn : PairOf(a)

LEMMA PairInit == Init => PairInv
  BY DEF Init, ConfigInit, PairInv, Apart, PairOf, Busy, Working

LEMMA SameTargets ==
    ASSUME UNCHANGED plan
    PROVE  \A d \in Clients : Target(d)' = Target(d) /\ cmd(d)' = cmd(d)
  BY DEF Target, cmd

\* Whoever turns to an alias meets everybody who works on it.
LEMMA Meets ==
    ASSUME NEW c \in Clients, Touch(c), NEW d \in Clients \ {c}, Working(d), Target(d) = Target(c)
    PROVE  Target(c) \in torn'
<1>1. Involves(Target(d), Target(c))
  BY DEF Involves
<1> QED
  BY <1>1 DEF Touch

\* A step on an alias that stays untorn is made by the only client that works on it.
LEMMA OnlyOne ==
    ASSUME Typed, Apart, NEW c \in Clients, Step(c), ~Status(c), Target(c) \notin torn',
           NEW d \in Clients \ {c}, Target(d) = Target(c)
    PROVE  ~Busy(d)
<1>1. torn \subseteq torn'
  BY StepFrame DEF Frame
<1>2. CASE Begin(c) \/ CheckPair(c)
  BY <1>2, Meets DEF Begin, CheckPair, Busy
<1>3. CASE Busy(c)
  BY <1>1, <1>3 DEF Apart
<1>4. Begin(c) \/ CheckPair(c) \/ Busy(c)
  BY DEF Step, Busy, Working, ReadPublic, CreatePrivate, OpenPublic, FillPublic, Probe, Ask,
     Grep, Append, Verify, Filter, Move, RemovePrivate, RemovePublic, Login, Truncate, Store,
     Check, Drop
<1> QED
  BY <1>2, <1>3, <1>4

LEMMA ApartStep == ASSUME Typed, Apart, NEW c \in Clients, Step(c) PROVE Apart'
<1>1. Frame(c) /\ UNCHANGED plan
  BY StepFrame DEF Frame, SameConfig
<1>2. \A d \in Clients \ {c} : Busy(d)' <=> Busy(d)
  BY <1>1 DEF Frame, Busy, Working, Typed, TypeOK
<1>3. ASSUME NEW d \in Clients \ {c}, Busy(c)', Busy(d), Target(d) = Target(c)
      PROVE  Target(c) \in torn'
  <2>1. ~Status(c)
    BY <1>3 DEF Status, Done, Busy, Working, Typed, TypeOK
  <2> QED
    BY <1>3, <2>1, OnlyOne
<1> QED
  BY <1>1, <1>2, <1>3, SameTargets DEF Apart, Frame

\* What a step does to the pair of its own alias.
LEMMA PairStep ==
    ASSUME Typed, PairInv, NEW c \in Clients, Step(c), NEW t \in Aliases \ torn', t = Target(c)
    PROVE  PairOf(t)'
<1> DEFINE Middle == {"public", "fill", "rmpublic"}
<1>1. Frame(c) /\ UNCHANGED plan /\ Target(c)' = t /\ t \in Aliases \ torn
  BY StepFrame, SameTargets DEF Frame, SameConfig
<1>2. PairOf(t)
  BY <1>1 DEF PairInv
<1>3. CASE Status(c)
  BY <1>1, <1>2, <1>3, SameTargets DEF Status, Done, PairOf, credVars, pairVars, clientVars, Typed, TypeOK
<1>4. CASE ~Status(c)
  <2>1. \A d \in Clients \ {c} : Target(d) = t => pc[d] \notin Middle \cup {"private"} /\ pc'[d] = pc[d]
    BY <1>1, <1>4, OnlyOne DEF PairInv, Busy, Working, Frame, Typed, TypeOK
  <2>2. SUFFICES /\ pc'[c] = "private" => private'[t] = None /\ public'[t] = None
                 /\ pc'[c] = "public" => private'[t] = key'[c] /\ public'[t] = None
                 /\ pc'[c] = "fill" => private'[t] = key'[c]
                 /\ pc'[c] = "rmpublic" => private'[t] = None
                 /\ pc'[c] \notin Middle => public'[t] = private'[t]
    BY <1>1, <2>1, SameTargets DEF PairOf
  <2>3. /\ pc[c] = "private" => private[t] = None /\ public[t] = None
        /\ pc[c] = "public" => private[t] = key[c] /\ public[t] = None
        /\ pc[c] = "fill" => private[t] = key[c]
        /\ pc[c] = "rmpublic" => private[t] = None
        /\ pc[c] \notin Middle => public[t] = private[t]
    BY <1>2, <2>1 DEF PairOf
  <2> USE <1>1, <2>3 DEF Typed, TypeOK, Goto, Done, pairVars, clientVars, credVars
  <2>4. CASE Begin(c)
    <3>1. FirstStep(c) \in Labels \ (Middle \cup {"private"})
      BY DEF FirstStep, Labels
    <3> QED
      BY <2>4, <3>1 DEF Begin
  <2>5. CASE CheckPair(c)
    BY <2>5 DEF CheckPair
  <2>6. CASE ReadPublic(c)
    BY <2>6 DEF ReadPublic
  <2>7. CASE CreatePrivate(c)
    BY <2>7 DEF CreatePrivate
  <2>8. CASE OpenPublic(c)
    BY <2>8 DEF OpenPublic, PrivateAfterFailure
  <2>9. CASE FillPublic(c)
    BY <2>9 DEF FillPublic, PrivateAfterFailure
  <2>10. CASE Probe(c) \/ Ask(c) \/ Grep(c) \/ Append(c) \/ Verify(c)
    BY <2>10 DEF Probe, Ask, Grep, Append, Verify, Ready
  <2>11. CASE Filter(c) \/ Move(c)
    BY <2>11 DEF Filter, Move
  <2>12. CASE RemovePrivate(c) \/ RemovePublic(c)
    BY <2>12 DEF RemovePrivate, RemovePublic
  <2>13. CASE Login(c) \/ Truncate(c) \/ Store(c)
    BY <2>13 DEF Login, Truncate, Store, Ready
  <2>14. CASE Check(c) \/ Drop(c)
    BY <2>14 DEF Check, Drop, Ready, Refused
  <2> QED
    BY <1>4, <2>4, <2>5, <2>6, <2>7, <2>8, <2>9, <2>10, <2>11, <2>12, <2>13, <2>14 DEF Step
<1> QED
  BY <1>3, <1>4

LEMMA PairOther ==
    ASSUME Typed, PairInv, UNCHANGED <<plan, private, public, key>>, torn \subseteq torn',
           \A c \in Clients : /\ pc'[c] # pc[c] => ~Busy(c)'
                              /\ pc'[c] # pc[c] /\ pc[c] \in {"public", "fill", "rmpublic"} =>
                                     Target(c) \in torn'
    PROVE  PairInv'
<1>1. \A c \in Clients : Target(c)' = Target(c) /\ (Busy(c)' => Busy(c) /\ pc'[c] = pc[c])
  BY SameTargets DEF Busy, Working
<1>2. Apart'
  BY <1>1 DEF PairInv, Apart
<1>3. ASSUME NEW a \in Aliases \ torn' PROVE PairOf(a)'
  <2>1. PairOf(a)
    BY <1>3 DEF PairInv
  <2>2. \A c \in Clients : Target(c) = a =>
            /\ pc'[c] \in {"private", "public", "fill", "rmpublic"} => pc'[c] = pc[c]
            /\ pc[c] \in {"public", "fill", "rmpublic"} => pc'[c] = pc[c]
    BY <1>1, <1>3 DEF Busy, Working
  <2> QED
    BY <1>1, <2>1, <2>2 DEF PairOf
<1> QED
  BY <1>2, <1>3 DEF PairInv

LEMMA PairNext == Typed /\ PairInv /\ [Next]_vars => PairInv'
<1> SUFFICES ASSUME Typed, PairInv, [Next]_vars PROVE PairInv'
  OBVIOUS
<1>1. ASSUME NEW c \in Clients, Step(c) PROVE PairInv'
  <2>1. Frame(c) /\ UNCHANGED plan
    BY <1>1, StepFrame DEF Frame, SameConfig
  <2>2. Apart'
    BY <1>1, ApartStep DEF PairInv
  <2>3. ASSUME NEW a \in Aliases \ torn', a # Target(c) PROVE PairOf(a)'
    <3>1. PairOf(a) /\ private'[a] = private[a] /\ public'[a] = public[a]
      BY <2>1, <2>3 DEF PairInv, Frame
    <3>2. \A d \in Clients : Target(d) = a => pc'[d] = pc[d] /\ key'[d] = key[d]
      BY <2>1, <2>3 DEF Frame, Typed, TypeOK
    <3> QED
      BY <2>1, <3>1, <3>2, SameTargets DEF PairOf
  <2> QED
    BY <1>1, <2>2, <2>3, PairStep DEF PairInv
<1>2. ASSUME NEW c \in Clients, Configure(c) PROVE PairInv'
  BY <1>2, ConfigFrame, PairOther DEF Configure, pairVars, clientVars, Busy, Working
<1>3. ASSUME NEW c \in Clients, Die(c) PROVE PairInv'
  BY <1>3, PairOther DEF Die, configVars, pairVars, clientVars, Busy, Working, Typed, TypeOK
<1>4. CASE EditMain /\ UNCHANGED credVars
  BY <1>4, PairOther DEF EditMain, credVars, pairVars, clientVars, judgeVars
<1>5. CASE UNCHANGED vars
  BY <1>5, PairOther DEF vars, configVars, credVars, pairVars, clientVars, judgeVars
<1> QED
  BY <1>1, <1>2, <1>3, <1>4, <1>5 DEF Next

\* Whatever fails or is interrupted, no alias is left with half a pair, unless a client
\* died or could not write between its two files or two clients worked on it at once.
THEOREM PairsAlwaysWhole == Spec => []PairsAreWhole
<1>1. Init => Typed /\ PairInv
  BY TypedInit, PairInit
<1>2. (Typed /\ PairInv) /\ [Next]_vars => (Typed /\ PairInv)'
  BY TypedStep, PairNext
<1>3. PairInv => PairsAreWhole
  BY DEF PairInv, PairOf, PairsAreWhole
<1> QED
  BY <1>1, <1>2, <1>3, PTL DEF Spec

----------------------------------------------------------------------------
(* Stored passwords.                                                       *)

\* Who may have left a wrong password for the exec-hop host a.
Tried(c, a) ==
    /\ Target(c) = a /\ cmd(c).given = "bad"
    /\ \/ cmd(c).op = "use"
       \/ cmd(c).op = "setup" /\ kind[c] = "exec-hop" /\ pc[c] \in {"check", "drop", "dead"}

PasswordInv ==
    /\ \A b \in Bastions : password[b] # "bad"
    /\ \A a \in Aliases : password[a] = "bad" => \E c \in Clients : Tried(c, a)

LEMMA PasswordInit == Init => PasswordInv
<1>1. Init => \A s \in Aliases \cup Bastions : password[s] = None
  BY DEF Init, Secrets
<1> QED
  BY <1>1, NoPasswordAssumption DEF PasswordInv

LEMMA PasswordOther ==
    ASSUME PasswordInv, UNCHANGED <<plan, kind, password>>,
           \A c \in Clients : pc[c] \in {"check", "drop"} => pc'[c] \in {pc[c], "dead"},
           \A c \in Clients : pc[c] = "dead" => pc'[c] = "dead"
    PROVE  PasswordInv'
<1>1. \A c \in Clients, a \in Aliases : Tried(c, a) => Tried(c, a)'
  BY SameTargets DEF Tried
<1> QED
  BY <1>1 DEF PasswordInv

\* What a client does to the password of a bastion, for whichever alias behind it.
SavesFor(c, b) ==
    /\ secret[c] = b /\ kind[c] = "bastion" /\ UNCHANGED secret
    /\ \/ pc[c] = "truncate" /\ pc'[c] = "store" /\ password'[b] = ""
       \/ pc[c] = "store" /\ password'[b] = "good"
       \/ pc[c] = "drop" /\ cmd(c).op = "unset" /\ pc'[c] = "done" /\ password'[b] = None

LEMMA BastionFrame ==
    ASSUME Typed, NEW c \in Clients, Step(c), NEW b \in Bastions
    PROVE  password'[b] = password[b] \/ SavesFor(c, b)
<1>0. /\ LabelInv(c) /\ password \in [Secrets -> Texts] /\ b \in Secrets /\ b \notin Aliases
      /\ pc \in [Clients -> Labels] /\ (Working(c) => Target(c) \in Aliases)
  BY CredentialsAssumption DEF Typed, TypeOK, Labels, Secrets, LabelInv
<1>1. CASE secret[c] # b
  BY <1>0, <1>1 DEF Step, Begin, Status, CheckPair, ReadPublic, CreatePrivate, OpenPublic,
     FillPublic, Probe, Ask, Grep, Append, Verify, Filter, Move, RemovePrivate, RemovePublic,
     Login, Truncate, Store, Check, Drop, SetPassword, storeVars, credVars
<1>2. CASE secret[c] = b /\ (Truncate(c) \/ Store(c) \/ Drop(c))
  <2>1. pc[c] \in {"truncate", "store", "drop"} /\ Working(c)
    BY <1>2 DEF Truncate, Store, Drop, Working
  <2>2. kind[c] = "bastion"
    BY <1>0, <1>2, <2>1 DEF LabelInv
  <2> QED
    BY <1>0, <1>2, <2>1, <2>2
    DEF Truncate, Store, Drop, SetPassword, Goto, Done, SavesFor, LabelInv, clientVars
<1>3. CASE ~(Truncate(c) \/ Store(c) \/ Drop(c))
  BY <1>3 DEF Step, Begin, Status, CheckPair, ReadPublic, CreatePrivate, OpenPublic,
     FillPublic, Probe, Ask, Grep, Append, Verify, Filter, Move, RemovePrivate, RemovePublic,
     Login, Check, storeVars, credVars
<1> QED
  BY <1>1, <1>2, <1>3

\* A client stores what it was given, and blames no other alias.
LEMMA PasswordStep == ASSUME Typed, PasswordInv, NEW c \in Clients, Step(c) PROVE PasswordInv'
<1>1. Frame(c) /\ UNCHANGED plan
  BY StepFrame DEF Frame, SameConfig
<1>2. \A d \in Clients \ {c} : pc'[d] = pc[d] /\ kind'[d] = kind[d]
  BY <1>1 DEF Frame, Typed, TypeOK
<1>3. ASSUME NEW a \in Aliases, a # Target(c)
      PROVE  password'[a] = "bad" => \E d \in Clients : Tried(d, a)'
  <2>1. \A d \in Clients : Tried(d, a) => Tried(d, a)'
    BY <1>1, <1>2, <1>3, SameTargets DEF Tried
  <2> QED
    BY <1>1, <1>3, <2>1 DEF Frame, PasswordInv
<1>4. ASSUME NEW a \in Aliases, a = Target(c)
      PROVE  password'[a] = "bad" => \E d \in Clients : Tried(d, a)'
  <2>0. /\ LabelInv(c) /\ kind[c] \in Kinds /\ None # "bad" /\ PasswordInv
        /\ password \in [Secrets -> Texts] /\ a \in Secrets /\ a \notin Bastions
        /\ pc \in [Clients -> Labels]
    BY NoPasswordAssumption, CredentialsAssumption DEF Typed, TypeOK, Labels, Secrets
  <2>1. (Tried(c, a) => Tried(c, a)') => \A d \in Clients : Tried(d, a) => Tried(d, a)'
    BY <1>1, <1>2, SameTargets DEF Tried
  <2>2. CASE Truncate(c)
    <3>1. Tried(c, a) => Tried(c, a)'
      BY <1>1, <2>2, SameTargets DEF Truncate, Tried
    <3>2. kind[c] \in {"exec-hop", "bastion"}
      BY <2>0, <2>2 DEF Truncate, LabelInv, Kinds
    <3> QED
      BY <1>4, <2>0, <2>1, <2>2, <3>1, <3>2 DEF Truncate, SetPassword, PasswordInv
  <2>3. CASE Store(c)
    <3>1. Tried(c, a) => Tried(c, a)'
      BY <1>1, <2>3, SameTargets DEF Store, Tried
    <3>2. kind[c] \in {"exec-hop", "bastion"} /\ cmd(c).op \in {"setup", "use"}
      BY <2>0, <2>3 DEF Store, LabelInv, Kinds
    <3>3. CASE UNCHANGED password
      BY <1>4, <2>0, <2>1, <3>1, <3>3 DEF PasswordInv
    <3>4. CASE kind[c] = "bastion" /\ SetPassword(c, cmd(c).given)
      <4>1. secret[c] \in Bastions
        BY <2>0, <2>3, <3>4 DEF Store, LabelInv
      <4> QED
        BY <1>4, <2>0, <2>1, <3>1, <3>4, <4>1 DEF SetPassword, PasswordInv
    <3>5. CASE kind[c] = "exec-hop" /\ SetPassword(c, cmd(c).given)
      <4>2. secret[c] = a
        BY <1>4, <2>0, <2>3, <3>5 DEF Store, LabelInv
      <4>1. cmd(c).given = "bad" => Tried(c, a)' \/ UNCHANGED password
        BY <1>1, <1>4, <2>0, <2>3, <3>2, <3>5, SameTargets
        DEF Store, Goto, Tried, clientVars
      <4> QED
        BY <1>4, <2>0, <2>1, <3>1, <3>5, <4>1, <4>2 DEF SetPassword, PasswordInv
    <3> QED
      BY <2>3, <3>2, <3>3, <3>4, <3>5 DEF Store
  <2>4. CASE Check(c)
    <3>1. \/ Tried(c, a) => Tried(c, a)'
          \/ password[a] = "good"
      BY <1>1, <1>4, <2>0, <2>4, SameTargets DEF Check, Refused, Goto, Done, Tried
    <3>2. UNCHANGED password
      BY <2>4 DEF Check, storeVars
    <3> QED
      BY <1>4, <2>0, <2>1, <3>1, <3>2 DEF PasswordInv
  <2>5. CASE Drop(c)
    <3>1. kind[c] \in {"exec-hop", "bastion"}
      BY <2>0, <2>5 DEF Drop, LabelInv, Kinds
    <3>2. kind[c] = "bastion" => (Tried(c, a) => Tried(c, a)')
      BY <1>1, <2>5, SameTargets DEF Drop, Tried
    <3>3. kind[c] = "exec-hop" => secret[c] = a
      BY <1>4, <2>0, <2>5 DEF Drop, LabelInv
    <3>4. kind[c] = "bastion" => secret[c] # a
      BY <1>4, <2>0, <2>5 DEF Drop, LabelInv
    <3> QED
      BY <1>4, <2>0, <2>1, <2>5, <3>1, <3>2, <3>3, <3>4 DEF Drop, SetPassword, PasswordInv
  <2>6. CASE ~(Truncate(c) \/ Store(c) \/ Check(c) \/ Drop(c))
    <3>1. /\ UNCHANGED password /\ pc[c] \notin {"check", "drop", "dead"}
          /\ kind'[c] = kind[c] \/ pc[c] = "begin"
      BY <2>6 DEF Step, Begin, Status, CheckPair, ReadPublic, CreatePrivate, OpenPublic,
         FillPublic, Probe, Ask, Grep, Append, Verify, Filter, Move, RemovePrivate, RemovePublic,
         Login, storeVars, credVars, clientVars
    <3>2. Tried(c, a) => Tried(c, a)'
      BY <1>1, <3>1, SameTargets DEF Tried
    <3> QED
      BY <1>4, <2>0, <2>1, <3>1, <3>2 DEF PasswordInv
  <2> QED
    BY <2>2, <2>3, <2>4, <2>5, <2>6
<1>5. ASSUME NEW b \in Bastions PROVE password'[b] # "bad"
  <2>1. password[b] # "bad" /\ None # "bad"
    BY NoPasswordAssumption DEF PasswordInv
  <2>2. password'[b] = password[b] \/ SavesFor(c, b)
    BY BastionFrame
  <2> QED
    BY <2>1, <2>2 DEF SavesFor
<1> QED
  BY <1>3, <1>4, <1>5 DEF PasswordInv

LEMMA PasswordNext == Typed /\ PasswordInv /\ [Next]_vars => PasswordInv'
<1> SUFFICES ASSUME Typed, PasswordInv, [Next]_vars PROVE PasswordInv'
  OBVIOUS
<1>1. ASSUME NEW c \in Clients, Configure(c) PROVE PasswordInv'
  BY <1>1, ConfigFrame, PasswordOther DEF Configure, storeVars, clientVars
<1>2. ASSUME NEW c \in Clients, Die(c) PROVE PasswordInv'
  BY <1>2, PasswordOther DEF Die, configVars, storeVars, clientVars, Typed, TypeOK
<1>3. CASE EditMain /\ UNCHANGED credVars
  BY <1>3, PasswordOther DEF EditMain, credVars, storeVars, clientVars
<1>4. CASE UNCHANGED vars
  BY <1>4, PasswordOther DEF vars, configVars, credVars, storeVars, clientVars
<1> QED
  BY <1>1, <1>2, <1>3, <1>4, PasswordStep DEF Next

\* A wrong password is never stored for a bastion, and for an exec-hop host only by a setup
\* that still tries it or died with it, or by a command that stores what it is given untried.
THEOREM StoredPasswordsAlwaysWorked == Spec => []StoredPasswordsWorked
<1>1. Init => Typed /\ PasswordInv
  BY TypedInit, PasswordInit
<1>2. (Typed /\ PasswordInv) /\ [Next]_vars => (Typed /\ PasswordInv)'
  BY TypedStep, PasswordNext
<1>3. PasswordInv => StoredPasswordsWorked
  BY DEF PasswordInv, Tried, StoredPasswordsWorked
<1> QED
  BY <1>1, <1>2, <1>3, PTL DEF Spec

----------------------------------------------------------------------------
(* Jump hosts are saved before the hosts behind them.                      *)

\* Nobody but the wizard saves its host with the entry it saves.
OwnEntries ==
    \A p \in Plans : \A c, d \in Clients :
        c # d /\ p[c].extra # None /\ p[d].op \in {"add", "wizard"} /\ p[d].name = p[c].name =>
            p[d].entry # p[c].entry

\* Where the host was there at the start, so was its jump host.
KnownJumps ==
    \A p \in Plans, s \in Saved : \A c \in Clients :
        /\ p[c].extra # None /\ p[c].entry.jump = p[c].extra
        /\ s[p[c].name] = p[c].entry
        => s[p[c].extra] # None

\* The wizard of c saves j first, for a host behind it.
Behind(c, j) == j # None /\ cmd(c).extra = j /\ cmd(c).entry.jump = j

\* j is in the file and in whatever is about to replace it, or somebody else took it out.
There(j) ==
    \/ managed[j] # None /\ \A d \in Clients : pc[d] = "rename" => Rendered(d)[j] # None
    \/ j \in overlapped
    \/ \E d \in Clients : cmd(d).op = "remove" /\ cmd(d).name = j

\* The wizard has saved j, or its host is there or about to be.
Begun(c, j) ==
    \/ managed[cmd(c).name] = cmd(c).entry
    \/ cmd(c).name # j /\ (saving[c] = cmd(c).name \/ pc[c] = "include")
    \/ \E d \in Clients : pc[d] = "rename" /\ sawManaged[d][cmd(c).name] = cmd(c).entry

RouteInv == \A c \in Clients, j \in Aliases : Behind(c, j) /\ Begun(c, j) => There(j)

\* Who saves what.
SavingInv ==
    \A c \in Clients : /\ saving[c] \in {cmd(c).name, cmd(c).extra}
                       /\ ~Adds(c) => saving[c] = cmd(c).name
                       /\ pc[c] \in {"managed", "include"} => Adds(c)
                       /\ pc[c] = "rename" => Adds(c) \/ cmd(c).op = "remove"

LEMMA RouteInit == ASSUME KnownJumps PROVE Init => SavingInv /\ RouteInv
<1> SUFFICES ASSUME Init PROVE SavingInv /\ RouteInv
  OBVIOUS
<1>1. \A c \in Clients : cmd(c) \in Commands /\ plan \in Plans /\ cmd(c) = plan[c]
  BY HostConfigAssumption DEF Init, ConfigInit, cmd
<1>2. \A c \in Clients : saving[c] = First(c) /\ pc[c] = "begin"
  BY DEF Init, ConfigInit
<1>3. SavingInv
  BY <1>1, <1>2, HostConfigAssumption DEF SavingInv, First, Adds
<1>4. ASSUME NEW c \in Clients, NEW j \in Aliases, Behind(c, j), Begun(c, j) PROVE There(j)
  <2>1. managed[cmd(c).name] = cmd(c).entry
    BY <1>2, <1>4 DEF Begun, Behind, First
  <2>2. managed[j] # None
    BY <1>1, <1>4, <2>1 DEF KnownJumps, Behind, Init, ConfigInit
  <2> QED
    BY <1>2, <2>2 DEF There
<1> QED
  BY <1>3, <1>4 DEF RouteInv

LEMMA SavingStep == Typed /\ SavingInv /\ [Next]_vars => SavingInv'
<1> SUFFICES ASSUME Typed, SavingInv, [Next]_vars PROVE SavingInv'
  OBVIOUS
<1>1. ASSUME UNCHANGED <<plan, saving>>,
             \A c \in Clients : pc'[c] \in {"managed", "rename", "include"} => pc'[c] = pc[c]
      PROVE  SavingInv'
  BY <1>1 DEF SavingInv, Adds, cmd
<1>2. ASSUME NEW c \in Clients, Step(c) PROVE SavingInv'
  BY <1>1, <1>2, StepFrame DEF Frame, SameConfig, After, Labels, Typed, TypeOK
<1>3. ASSUME NEW c \in Clients, Die(c) PROVE SavingInv'
  BY <1>1, <1>3 DEF Die, configVars, Typed, TypeOK
<1>4. ASSUME NEW c \in Clients, ConfigStep(c) PROVE SavingInv'
  <2>1. \A d \in Clients : cmd(d)' = cmd(d) /\ (Adds(d)' <=> Adds(d))
    BY <1>4, ConfigFrame DEF cmd, Adds
  <2>2. /\ saving'[c] \in {saving[c], cmd(c).name}
        /\ pc'[c] \in {"managed", "include"} => Adds(c)
        /\ pc'[c] = "rename" => Adds(c) \/ cmd(c).op = "remove"
    BY <1>4 DEF ConfigStep, ReadMain, ReadManaged, Rename, EnsureInclude, Saves, ReadForRemove,
       Done, Typed, TypeOK, ConfigTypeOK, SavingInv
  <2> QED
    BY <1>4, <2>1, <2>2, ConfigFrame DEF SavingInv
<1>5. CASE EditMain \/ UNCHANGED vars
  BY <1>1, <1>5 DEF EditMain, vars, configVars
<1> QED
  BY <1>2, <1>3, <1>4, <1>5 DEF Next, Configure

LEMMA RouteOther ==
    ASSUME RouteInv, UNCHANGED <<plan, saving, managed, overlapped, sawManaged>>,
           \A c \in Clients : pc'[c] \in {"managed", "rename", "include"} => pc'[c] = pc[c]
    PROVE  RouteInv'
<1>1. \A c \in Clients : cmd(c)' = cmd(c) /\ Rendered(c)' = Rendered(c)
  BY DEF cmd, Rendered, Adds, NewEntry, IsExtra
<1>2. ASSUME NEW c \in Clients, NEW j \in Aliases, Behind(c, j)', Begun(c, j)' PROVE There(j)'
  <2>1. Behind(c, j) /\ Begun(c, j)
    BY <1>1, <1>2 DEF Behind, Begun
  <2> QED
    BY <1>1, <2>1 DEF RouteInv, There
<1> QED
  BY <1>2 DEF RouteInv

\* A host that is saved stays, in the file and in the files about to replace it.
LEMMA StaysThere ==
    ASSUME Typed, SavingInv, NEW c \in Clients, ConfigStep(c), NEW j \in Aliases, There(j)
    PROVE  There(j)'
<1>0. /\ managed \in [Aliases -> Entries \cup {None}]
      /\ sawManaged \in [Clients -> [Aliases -> Entries \cup {None}]]
      /\ pc \in [Clients -> Labels] /\ saving[c] \in Aliases /\ NewEntry(c) # None
  BY PlanTypes, HostConfigAssumption
  DEF Typed, TypeOK, ConfigTypeOK, Labels, NewEntry, Plain, Commands, Entries, Kinds
<1>1. \A d \in Clients : cmd(d)' = cmd(d)
  BY ConfigFrame DEF cmd
<1>2. overlapped \subseteq overlapped'
  BY DEF ConfigStep, ReadMain, ReadManaged, Rename, EnsureInclude, ReadForRemove, fileVars
<1> SUFFICES ASSUME managed[j] # None, \A d \in Clients : pc[d] = "rename" => Rendered(d)[j] # None,
                    ~\E d \in Clients : cmd(d).op = "remove" /\ cmd(d).name = j
             PROVE  managed'[j] # None /\ \A d \in Clients : pc'[d] = "rename" => Rendered(d)'[j] # None
  BY <1>1, <1>2 DEF There
<1>3. \A d \in Clients \ {c} : Rendered(d)' = Rendered(d) /\ pc'[d] = pc[d]
  <2>1. \A d \in Clients \ {c} : sawManaged'[d] = sawManaged[d]
    BY DEF ConfigStep, ReadMain, ReadManaged, Rename, EnsureInclude, ReadForRemove, Typed,
       TypeOK, ConfigTypeOK
  <2> QED
    BY <1>1, <2>1, ConfigFrame DEF Rendered, Adds, NewEntry, IsExtra
<1>4. CASE ReadMain(c)
  BY <1>0, <1>3, <1>4 DEF ReadMain, Done, fileVars, Labels
<1>5. CASE ReadManaged(c)
  <2>1. Adds(c)' /\ NewEntry(c)' = NewEntry(c) /\ saving' = saving
    BY <1>1, <1>5 DEF ReadManaged, SavingInv, Adds, NewEntry, IsExtra
  <2>2. pc'[c] = "rename" => Rendered(c)'[j] # None
    BY <1>0, <1>5, <2>1 DEF ReadManaged, Done, Rendered
  <2> QED
    BY <1>0, <1>3, <1>5, <2>2 DEF ReadManaged, fileVars
<1>6. CASE Rename(c)
  BY <1>0, <1>3, <1>6 DEF Rename, Done, Labels
<1>7. CASE EnsureInclude(c)
  BY <1>0, <1>3, <1>7 DEF EnsureInclude, Saves, Done, Labels
<1>8. CASE ReadForRemove(c)
  <2>1. ~Adds(c)' /\ saving' = saving /\ saving[c] # j
    BY <1>1, <1>8 DEF ReadForRemove, SavingInv, Adds
  <2>2. pc'[c] = "rename" => Rendered(c)'[j] # None
    BY <1>0, <1>8, <2>1 DEF ReadForRemove, Done, Rendered
  <2> QED
    BY <1>0, <1>3, <1>8, <2>2 DEF ReadForRemove, fileVars
<1> QED
  BY <1>4, <1>5, <1>6, <1>7, <1>8 DEF ConfigStep

\* Nothing but saving j brings the wizard, or anybody, to its host.
LEMMA RouteConfig ==
    ASSUME OwnEntries, Typed, SavingInv, RouteInv, NEW e \in Clients, ConfigStep(e)
    PROVE  RouteInv'
<1> SUFFICES ASSUME NEW c \in Clients, NEW j \in Aliases, Behind(c, j), Begun(c, j)', ~Begun(c, j)
             PROVE  There(j)'
  <2>1. \A c \in Clients : cmd(c)' = cmd(c)
    BY ConfigFrame DEF cmd
  <2> QED
    BY <2>1, StaysThere DEF RouteInv, Behind
<1> DEFINE name == cmd(c).name
           entry == cmd(c).entry
<1>0. /\ managed \in [Aliases -> Entries \cup {None}]
      /\ sawManaged \in [Clients -> [Aliases -> Entries \cup {None}]]
      /\ pc \in [Clients -> Labels] /\ saving \in [Clients -> Aliases]
      /\ name \in Aliases /\ entry \in Entries /\ entry # None /\ Adds(c)
  BY PlanTypes, HostConfigAssumption
  DEF Typed, TypeOK, ConfigTypeOK, Labels, Commands, Behind, Adds, cmd
<1>1. \A d \in Clients : cmd(d)' = cmd(d)
  BY ConfigFrame DEF cmd
<1>2. CASE ReadMain(e)
  BY <1>0, <1>1, <1>2 DEF ReadMain, Done, Begun, fileVars, Labels
<1>3. CASE ReadManaged(e) \/ ReadForRemove(e)
  BY <1>0, <1>1, <1>3 DEF ReadManaged, ReadForRemove, Done, Begun, fileVars, Labels
<1>4. CASE EnsureInclude(e)
  <2>1. e = c /\ pc[c] = "include" /\ name # j
    BY <1>0, <1>1, <1>4 DEF EnsureInclude, Saves, Done, Begun, Labels
  <2> QED
    BY <2>1 DEF Begun
<1>5. CASE Rename(e)
  <2>1. CASE e = c /\ saving[c] = j
    <3>1. j # name
      BY <1>0, <1>5, <2>1 DEF Rename, Behind, Typed, LabelInv, Valid, NewEntry, IsExtra
    <3>2. managed'[j] = Plain /\ Plain # None
      BY <1>0, <1>5, <2>1, <3>1, HostConfigAssumption
      DEF Rename, Rendered, NewEntry, IsExtra, Plain, Entries, Kinds
    <3>3. (\E d \in Clients \ {c} : pc[d] = "rename") => j \in overlapped'
      BY <1>5, <2>1 DEF Rename
    <3>4. \A d \in Clients : pc'[d] = "rename" => d # c /\ pc[d] = "rename"
      BY <1>0, <1>5, <2>1 DEF Rename, Done, Labels
    <3> QED
      BY <3>2, <3>3, <3>4 DEF There
  <2>2. CASE e = c /\ saving[c] # j
    <3>1. saving[c] = name /\ Valid(name, entry)
      BY <1>0, <1>5, <2>2 DEF Rename, Behind, SavingInv, Typed, LabelInv, NewEntry, IsExtra
    <3> QED
      BY <3>1 DEF Begun, Valid, Behind
  <2>3. CASE e # c
    <3>1. managed'[name] # entry
      <4>1. sawManaged[e][name] # entry
        BY <1>5 DEF Begun, Rename
      <4>2. CASE Adds(e) /\ saving[e] = name /\ IsExtra(e)
        <5>1. Plain # entry
          BY DEF Plain, Behind
        <5> QED
          BY <1>0, <1>5, <4>2, <5>1 DEF Rename, Rendered, NewEntry
      <4>3. CASE Adds(e) /\ saving[e] = name /\ ~IsExtra(e)
        <5>1. cmd(e).name = name
          BY <4>3 DEF IsExtra
        <5>2. cmd(e).entry # entry
          BY <2>3, <4>3, <5>1 DEF OwnEntries, Behind, Adds, cmd, Typed, TypeOK, ConfigTypeOK
        <5> QED
          BY <1>0, <1>5, <4>3, <5>2 DEF Rename, Rendered, NewEntry
      <4>4. CASE ~(Adds(e) /\ saving[e] = name)
        BY <1>0, <1>5, <4>1, <4>4 DEF Rename, Rendered
      <4> QED
        BY <4>2, <4>3, <4>4
    <3>2. /\ saving' = saving /\ sawManaged' = sawManaged
          /\ \A d \in Clients : pc'[d] = "rename" => pc[d] = "rename"
          /\ pc'[c] = pc[c]
      BY <1>0, <1>5, <2>3 DEF Rename, Done, Labels
    <3> QED
      BY <1>1, <3>1, <3>2 DEF Begun
  <2> QED
    BY <2>1, <2>2, <2>3
<1> QED
  BY <1>2, <1>3, <1>4, <1>5 DEF ConfigStep

LEMMA RouteStep ==
    ASSUME OwnEntries
    PROVE  Typed /\ SavingInv /\ RouteInv /\ [Next]_vars => RouteInv'
<1> SUFFICES ASSUME Typed, SavingInv, RouteInv, [Next]_vars PROVE RouteInv'
  OBVIOUS
<1>1. ASSUME NEW c \in Clients, Step(c) PROVE RouteInv'
  BY <1>1, StepFrame, RouteOther DEF Frame, SameConfig, fileVars, After, Labels, Typed, TypeOK
<1>2. ASSUME NEW c \in Clients, Die(c) PROVE RouteInv'
  BY <1>2, RouteOther DEF Die, configVars, Typed, TypeOK
<1>3. CASE EditMain \/ UNCHANGED vars
  BY <1>3, RouteOther DEF EditMain, vars, configVars
<1> QED
  BY <1>1, <1>2, <1>3, RouteConfig DEF Next, Configure

\* A wizard that stops or fails anywhere, whoever else works on the files, leaves no route
\* into nothing: where nobody else saves the same host with the same entry, and what
\* is saved at the start has none.
THEOREM JumpsAlwaysSavedFirst ==
    ASSUME OwnEntries, KnownJumps
    PROVE  Spec => []JumpsAreSavedFirst
<1> DEFINE I == Typed /\ SavingInv /\ RouteInv
<1>1. Init => I
  BY TypedInit, RouteInit
<1>2. I /\ [Next]_vars => I'
  BY TypedStep, SavingStep, RouteStep
<1>3. ASSUME I PROVE JumpsAreSavedFirst
  <2> SUFFICES ASSUME NEW c \in Clients, cmd(c).extra # None, managed[cmd(c).name] = cmd(c).entry,
                      cmd(c).entry.jump = cmd(c).extra
               PROVE  There(cmd(c).extra)
    BY DEF JumpsAreSavedFirst, There
  <2>1. cmd(c).extra \in Aliases /\ Behind(c, cmd(c).extra) /\ Begun(c, cmd(c).extra)
    BY <1>3, PlanTypes DEF Typed, Commands, Behind, Begun
  <2> QED
    BY <1>3, <2>1 DEF RouteInv
<1> QED
  BY <1>1, <1>2, <1>3, PTL DEF Spec

----------------------------------------------------------------------------
(* What clients that work side by side leave each other.                   *)

\* Of two clients at work, the one whose way the other works on knows of it.
CompanyInv ==
    \A c, d \in Clients :
        c # d /\ Busy(c) /\ Busy(d) /\ Involves(Target(d), Target(c)) => d \in disturbed

\* A key belongs to the alias it was made for.
Holds(x, k) ==
    private[x] = k \/ public[x] = k \/ \E c \in Clients : Target(c) = x /\ key[c] = k

\* A key somebody has, somewhere.
Issued(k) ==
    k \in authorized \/ (\E c \in Clients : k \in lines[c]) \/ \E x \in Aliases : Holds(x, k)

KeyInv ==
    /\ \A k \in Keys, x, y \in Aliases : Holds(x, k) /\ Holds(y, k) => x = y
    /\ \A k \in Keys : Issued(k) => k <= made

\* What a removal is about to take out of authorized_keys: its own key, and what came
\* into the file behind its back.
MoveInv ==
    \A c \in Clients : pc[c] = "move" =>
        \A x \in Aliases : private[x] \in authorized \ lines[c] =>
            private[x] = key[c] \/ x \in endangered

\* How far a setup that nobody disturbed has come.
Progress(c) ==
    LET a == Target(c) IN
    /\ pc[c] = "text" => private[a] # None /\ public[a] # None
    /\ pc[c] \in {"probe", "ask", "grep", "append", "verify"} => private[a] = key[c] /\ key[c] # None
    /\ pc[c] = "verify" => key[c] \in authorized
    /\ pc[c] = "check" /\ kind[c] = "exec-hop" => password[a] = cmd(c).given
    /\ pc[c] = "drop" /\ entered[c] => cmd(c).given # "good"
    /\ pc[c] \notin {"managed", "rename", "include"}
    /\ cmd(c).given = "good" => outcome[c] \in {None, "ok", "write", "jump"}

SetupInv ==
    \A c \in Clients : cmd(c).op = "setup" =>
        c \in disturbed \/ Target(c) \in torn \cup endangered \/ Progress(c)

\* The wizards' entry hosts are hosts that are logged in to with keys, whatever other
\* commands make of them: the wizard offers an exec-hop behind a host it has just
\* logged in to, and no file says otherwise.
EntriesAreDirect ==
    \A p \in Plans : \A c \in Clients :
        LET j == p[c].entry.jump IN
        p[c].op = "wizard" /\ p[c].entry.kind = "exec-hop" =>
            /\ \A s \in Saved : j # None /\ s[j] # None => s[j].kind = "direct"
            /\ \A d \in Clients : p[d].op \in {"add", "wizard"} /\ p[d].name = j =>
                   p[d].entry.kind = "direct"

\* It stays that way in the file and in whatever is about to replace it.
DirectInv ==
    \A c \in Clients : cmd(c).op = "wizard" /\ cmd(c).entry.kind = "exec-hop" /\ Target(c) # None =>
        /\ KindOf(Target(c)) = "direct"
        /\ \A d \in Clients : sawManaged[d][Target(c)] # None => sawManaged[d][Target(c)].kind = "direct"

ByKey == {"pair", "text", "private", "public", "fill", "probe", "ask", "grep", "append", "verify",
          "filter", "move", "rmprivate", "rmpublic"}

\* Where a wizard is sure of the alias it will set up.
HostSaved(c) ==
    pc[c] = "include" /\ cmd(c).op = "wizard" /\ ~IsExtra(c) /\ OffersKey(cmd(c).entry)

\* A client takes its alias for what it is.
Knows(c) ==
    /\ kind[c] = KindOf(Target(c))
    /\ kind[c] = "bastion" => secret[c] = SecretOf(Target(c))

\* So does one at work, unless it was disturbed.
KindInv ==
    \A c \in Clients :
        /\ cmd(c).op = "wizard" => kind[c] = "direct"
        /\ pc[c] \in ByKey => kind[c] = "direct"
        /\ Working(c) \/ HostSaved(c) => c \in disturbed \/ Knows(c)

\* Nobody works on what is ready, or on the way to it, and it can be used.
ReadyInv ==
    \A a \in ready :
        /\ \A c \in Clients : Busy(c) => ~Involves(a, Target(c))
        /\ Reachable(a) \/ TakenAway(a) \/ \E b \in endangered : Involves(a, b)

----------------------------------------------------------------------------
(* What steps add to the frame.                                            *)

\* What a step on credentials adds to what the frame says: the marks stay, the files of
\* the account change only at their labels, and nothing does before the client is at work.
Side(c) ==
    /\ UNCHANGED own
    /\ disturbed \subseteq disturbed' /\ endangered \subseteq endangered'
    /\ \A d \in Clients \ {c} :
           entered'[d] = entered[d] /\ lines'[d] = lines[d] /\ outcome'[d] = outcome[d]
    /\ UNCHANGED authorized \/ Append(c) \/ Move(c)
    /\ Busy(c) \/ (UNCHANGED <<pairVars, storeVars, key, lines>> /\ (Status(c) \/ Touch(c)))

LEMMA StepSide == ASSUME Typed, NEW c \in Clients, Step(c) PROVE Side(c)
<1> USE DEF Typed, TypeOK, ConfigTypeOK, Side, Goto, Done, pairVars, storeVars, clientVars,
      judgeVars, credVars, Busy, Working
<1>1. CASE Begin(c)
  BY <1>1 DEF Begin, Touch
<1>2. CASE Status(c)
  BY <1>2 DEF Status, credVars
<1>3. CASE CheckPair(c)
  BY <1>3 DEF CheckPair, Touch
<1>4. CASE ReadPublic(c)
  BY <1>4 DEF ReadPublic
<1>5. CASE CreatePrivate(c)
  BY <1>5 DEF CreatePrivate
<1>6. CASE OpenPublic(c)
  BY <1>6 DEF OpenPublic
<1>7. CASE FillPublic(c)
  BY <1>7 DEF FillPublic
<1>8. CASE Probe(c)
  BY <1>8 DEF Probe, Ready
<1>9. CASE Ask(c)
  BY <1>9 DEF Ask
<1>10. CASE Grep(c)
  BY <1>10 DEF Grep
<1>11. CASE Append(c)
  BY <1>11 DEF Append, Endanger
<1>12. CASE Verify(c)
  BY <1>12 DEF Verify, Ready
<1>13. CASE Filter(c)
  BY <1>13 DEF Filter
<1>14. CASE Move(c)
  BY <1>14 DEF Move, Endanger
<1>15. CASE RemovePrivate(c)
  BY <1>15 DEF RemovePrivate
<1>16. CASE RemovePublic(c)
  BY <1>16 DEF RemovePublic
<1>17. CASE Login(c)
  BY <1>17 DEF Login
<1>18. CASE Truncate(c)
  BY <1>18 DEF Truncate
<1>19. CASE Store(c)
  BY <1>19 DEF Store, Ready
<1>20. CASE Check(c)
  BY <1>20 DEF Check, Ready, Refused
<1>21. CASE Drop(c)
  BY <1>21 DEF Drop
<1> QED
  BY <1>1, <1>2, <1>3, <1>4, <1>5, <1>6, <1>7, <1>8, <1>9, <1>10, <1>11, <1>12, <1>13, <1>14, <1>15, <1>16, <1>17, <1>18, <1>19, <1>20, <1>21 DEF Step

\* The other steps touch neither keys nor passwords, and set nobody to work.
Quiet ==
    /\ UNCHANGED <<plan, pairVars, storeVars, clientVars, endangered>>
    /\ disturbed \subseteq disturbed' /\ torn \subseteq torn' /\ ready' \subseteq ready
    /\ \A d \in Clients : Busy(d)' => Busy(d) /\ pc'[d] = pc[d]
    /\ \A a \in ready' : \A b \in Aliases : Involves(a, b) => managed'[b] = managed[b]
    /\ \A d \in Clients : Busy(d)' /\ d \notin disturbed' => 
           \A b \in Aliases : Involves(Target(d), b) => managed'[b] = managed[b]

LEMMA QuietStep ==
    ASSUME Typed, [Next]_vars, \A c \in Clients : ~Step(c)
    PROVE  Quiet
<1> USE DEF Quiet, configVars, pairVars, storeVars, clientVars, judgeVars, credVars, Busy, Working
<1>1. ASSUME NEW c \in Clients, Configure(c) PROVE Quiet
  <2>1. UNCHANGED plan /\ \A d \in Clients : Busy(d)' => Busy(d) /\ pc'[d] = pc[d]
    BY <1>1, ConfigFrame DEF Configure
  <2>2. \A a \in ready' : \A b \in Aliases : Involves(a, b) => managed'[b] = managed[b]
    BY <1>1 DEF Configure, Typed, TypeOK
  <2>3. \A d \in Clients : Busy(d)' => d # c /\ Target(d) \in Aliases
    BY <1>1, <2>1, ConfigFrame DEF Configure, Typed, LabelInv
  <2>4. \A d \in Clients : Busy(d)' /\ d \notin disturbed' =>
            \A b \in Aliases : Involves(Target(d), b) => managed'[b] = managed[b]
    BY <1>1, <2>1, <2>3 DEF Configure
  <2> QED
    BY <1>1, <2>1, <2>2, <2>4 DEF Configure
<1>2. ASSUME NEW c \in Clients, Die(c) PROVE Quiet
  <2>1. \A d \in Clients : Busy(d)' => Busy(d) /\ pc'[d] = pc[d]
    BY <1>2 DEF Die, Typed, TypeOK
  <2> QED
    BY <1>2, <2>1 DEF Die
<1>3. CASE EditMain /\ UNCHANGED credVars
  BY <1>3 DEF EditMain
<1>4. CASE UNCHANGED vars
  BY <1>4 DEF vars
<1> QED
  BY <1>1, <1>2, <1>3, <1>4 DEF Next

----------------------------------------------------------------------------
(* Company.                                                                *)

LEMMA SameWays ==
    ASSUME UNCHANGED managed
    PROVE  \A a, b : (Involves(a, b)' <=> Involves(a, b))
  BY DEF Involves, Jump

LEMMA CompanyInit == Init => CompanyInv
  BY DEF Init, ConfigInit, CompanyInv, Busy, Working

\* Whoever sets to work sees who is at work on its way, and is seen.
LEMMA SetsToWork ==
    ASSUME Typed, NEW c \in Clients, Step(c), ~Busy(c), Busy(c)'
    PROVE  Touch(c)
  BY DEF Step, Begin, Status, CheckPair, Goto, Done, Busy, Working, Typed, TypeOK, ReadPublic,
     CreatePrivate, OpenPublic, FillPublic, Probe, Ask, Grep, Append, Verify, Filter, Move,
     RemovePrivate, RemovePublic, Login, Truncate, Store, Check, Drop

LEMMA CompanyStep == Typed /\ CompanyInv /\ [Next]_vars => CompanyInv'
<1> SUFFICES ASSUME Typed, CompanyInv, [Next]_vars PROVE CompanyInv'
  OBVIOUS
<1>1. ASSUME NEW c \in Clients, Step(c) PROVE CompanyInv'
  <2>1. Frame(c) /\ Side(c) /\ UNCHANGED <<plan, managed>>
    BY <1>1, StepFrame, StepSide DEF Frame, SameConfig, fileVars
  <2>2. \A d \in Clients \ {c} : Busy(d)' <=> Busy(d)
    BY <2>1 DEF Frame, Busy, Working, Typed, TypeOK
  <2>3. \A d, e \in Clients : Target(d)' = Target(d)
                               /\ (Involves(Target(d), Target(e))' <=> Involves(Target(d), Target(e)))
    BY <2>1, SameTargets, SameWays
  <2>4. ASSUME NEW d \in Clients \ {c}, Busy(d), Busy(c)'
        PROVE  /\ Involves(Target(d), Target(c)) => d \in disturbed'
               /\ Involves(Target(c), Target(d)) => c \in disturbed'
    <3>1. CASE Busy(c)
      BY <2>1, <2>4, <3>1 DEF CompanyInv, Side
    <3>2. CASE ~Busy(c)
      BY <1>1, <2>4, <3>2, SetsToWork DEF Touch, Busy
    <3> QED
      BY <3>1, <3>2
  <2> QED
    BY <2>1, <2>2, <2>3, <2>4 DEF CompanyInv, Side
<1>2. CASE \A c \in Clients : ~Step(c)
  <2>1. Quiet
    BY <1>2, QuietStep
  <2>2. ASSUME NEW c \in Clients, NEW d \in Clients, c # d, Busy(c)', Busy(d)',
               Involves(Target(d), Target(c))', d \notin disturbed'
        PROVE  FALSE
    <3>1. Busy(c) /\ Busy(d) /\ Target(c)' = Target(c) /\ Target(d)' = Target(d)
      BY <2>1, <2>2, SameTargets DEF Quiet
    <3>2. Target(d) \in Aliases /\ managed'[Target(d)] = managed[Target(d)]
      BY <2>1, <2>2, <3>1 DEF Quiet, Typed, LabelInv, Busy, Involves
    <3>3. Involves(Target(d), Target(c))
      BY <2>2, <3>1, <3>2 DEF Involves, Jump
    <3> QED
      BY <2>1, <2>2, <3>1, <3>3 DEF CompanyInv, Quiet
  <2> QED
    BY <2>2 DEF CompanyInv
<1> QED
  BY <1>1, <1>2

----------------------------------------------------------------------------
(* Whose key it is.                                                        *)

LEMMA KeyInit == Init => KeyInv
<1> SUFFICES ASSUME Init PROVE KeyInv
  OBVIOUS
<1>1. \A k \in Keys : k # None
  BY CredentialsAssumption DEF Keys
<1>2. \A k \in Keys, x \in Aliases : ~Holds(x, k)
  BY <1>1 DEF Init, Holds
<1> QED
  BY <1>2 DEF KeyInv, Issued, Init

\* Where the keys of an alias, of authorized_keys and of what a removal has read come from.
LEMMA KeySources ==
    ASSUME Typed, NEW c \in Clients, Step(c), Busy(c), NEW k \in Keys, NEW t, t = Target(c)
    PROVE  /\ private'[t] = k => private[t] = k \/ (k = made + 1 /\ made' = made + 1)
           /\ public'[t] = k => public[t] = k \/ key[c] = k
           /\ key'[c] = k => key[c] = k \/ public[t] = k \/ (k = made + 1 /\ made' = made + 1)
           /\ k \in authorized' => k \in authorized \/ key[c] = k \/ k \in lines[c]
           /\ k \in lines'[c] => k \in lines[c] \/ k \in authorized
           /\ made' = made \/ made' = made + 1
<1>0. t \in Aliases /\ k # None /\ k # Empty
  BY CredentialsAssumption DEF Typed, LabelInv, Busy, Keys, Empty
<1> USE <1>0 DEF Typed, TypeOK, Goto, Done, pairVars, storeVars, clientVars, judgeVars, credVars
<1>1. CASE CreatePrivate(c)
  BY <1>1 DEF CreatePrivate
<1>2. CASE OpenPublic(c) \/ FillPublic(c)
  BY <1>2 DEF OpenPublic, FillPublic, PrivateAfterFailure
<1>3. CASE ReadPublic(c)
  BY <1>3 DEF ReadPublic
<1>4. CASE Append(c)
  BY <1>4 DEF Append, Appended
<1>5. CASE Filter(c) \/ Move(c)
  BY <1>5 DEF Filter, Move
<1>6. CASE RemovePrivate(c) \/ RemovePublic(c)
  BY <1>6 DEF RemovePrivate, RemovePublic
<1>7. CASE Begin(c) \/ Status(c) \/ CheckPair(c)
  BY <1>7 DEF Begin, Status, CheckPair
<1>8. CASE Probe(c) \/ Ask(c) \/ Grep(c) \/ Verify(c) \/ Login(c)
  BY <1>8 DEF Probe, Ask, Grep, Verify, Login
<1>9. CASE Truncate(c) \/ Store(c) \/ Check(c) \/ Drop(c)
  BY <1>9 DEF Truncate, Store, Check, Drop
<1> QED
  BY <1>1, <1>2, <1>3, <1>4, <1>5, <1>6, <1>7, <1>8, <1>9 DEF Step

LEMMA KeyOther ==
    ASSUME KeyInv, UNCHANGED <<plan, private, public, made, authorized, key, lines>>
    PROVE  KeyInv'
<1>1. \A x, k : Holds(x, k)' <=> Holds(x, k)
  BY SameTargets DEF Holds
<1>2. \A k : Issued(k)' <=> Issued(k)
  BY <1>1 DEF Issued
<1> QED
  BY <1>1, <1>2 DEF KeyInv

LEMMA KeyStep == Typed /\ KeyInv /\ [Next]_vars => KeyInv'
<1> SUFFICES ASSUME Typed, KeyInv, [Next]_vars PROVE KeyInv'
  OBVIOUS
<1>1. ASSUME NEW c \in Clients, Step(c) PROVE KeyInv'
  <2>1. Frame(c) /\ Side(c) /\ UNCHANGED plan
    BY <1>1, StepFrame, StepSide DEF Frame, SameConfig
  <2>2. CASE ~Busy(c)
    BY <2>1, <2>2, KeyOther DEF Side, Frame, pairVars, storeVars
  <2>3. CASE Busy(c)
    <3> DEFINE t == Target(c)
               New(k) == k = made + 1 /\ made' = made + 1
    <3>1. t \in Aliases /\ \A d \in Clients : Target(d)' = Target(d)
      BY <2>1, <2>3, SameTargets DEF Typed, LabelInv, Busy
    <3>2. \A k \in Keys :
            /\ private'[t] = k => private[t] = k \/ New(k)
            /\ public'[t] = k => public[t] = k \/ key[c] = k
            /\ key'[c] = k => key[c] = k \/ public[t] = k \/ New(k)
            /\ k \in authorized' => k \in authorized \/ key[c] = k \/ k \in lines[c]
            /\ k \in lines'[c] => k \in lines[c] \/ k \in authorized
            /\ made' = made \/ made' = made + 1
      BY <1>1, <2>3, KeySources
    <3>3. ASSUME NEW k \in Keys, NEW x \in Aliases, Holds(x, k)'
          PROVE  Holds(x, k) \/ (x = t /\ New(k))
      <4>1. CASE x # t
        <5>1. private'[x] = private[x] /\ public'[x] = public[x]
          BY <2>1, <4>1 DEF Frame
        <5>2. \A d \in Clients : Target(d) = x => key'[d] = key[d]
          BY <2>1, <4>1 DEF Frame
        <5> QED
          BY <3>1, <3>3, <5>1, <5>2 DEF Holds
      <4>2. CASE x = t
        <5>1. \A d \in Clients \ {c} : key'[d] = key[d]
          BY <2>1 DEF Frame
        <5>2. CASE private'[x] = k
          BY <3>2, <4>2, <5>2 DEF Holds
        <5>3. CASE public'[x] = k
          BY <3>2, <4>2, <5>3 DEF Holds
        <5>4. ASSUME NEW d \in Clients, Target(d)' = x, key'[d] = k PROVE Holds(x, k) \/ New(k)
          BY <3>1, <3>2, <4>2, <5>1, <5>4 DEF Holds
        <5> QED
          BY <3>3, <4>2, <5>2, <5>3, <5>4 DEF Holds
      <4> QED
        BY <4>1, <4>2
    <3>4. \A k \in Keys : Issued(k)' => Issued(k) \/ New(k)
      <4> SUFFICES ASSUME NEW k \in Keys, Issued(k)' PROVE Issued(k) \/ New(k)
        OBVIOUS
      <4>1. CASE k \in authorized'
        <5>1. key[c] = k => Holds(t, k)
          BY DEF Holds
        <5> QED
          BY <3>1, <3>2, <4>1, <5>1 DEF Issued
      <4>2. ASSUME NEW d \in Clients, k \in lines'[d] PROVE Issued(k)
        BY <2>1, <3>2, <4>2 DEF Side, Issued
      <4>3. ASSUME NEW x \in Aliases, Holds(x, k)' PROVE Issued(k) \/ New(k)
        BY <3>3, <4>3 DEF Issued
      <4> QED
        BY <4>1, <4>2, <4>3 DEF Issued
    <3>5. \A k \in Keys : Issued(k)' => k <= made'
      <4> SUFFICES ASSUME NEW k \in Keys, Issued(k)' PROVE k <= made'
        OBVIOUS
      <4>1. Issued(k) => k <= made
        BY DEF KeyInv
      <4>2. made \in Nat /\ k \in Nat /\ (made' = made \/ made' = made + 1)
        BY <3>2, CredentialsAssumption DEF Typed, TypeOK, Keys
      <4> QED
        BY <3>4, <4>1, <4>2
    <3>6. ASSUME NEW k \in Keys, NEW x \in Aliases, NEW y \in Aliases, Holds(x, k)', Holds(y, k)'
          PROVE  x = y
      <4>1. New(k) => ~Issued(k)
        <5>1. made \in Nat /\ (Issued(k) => k <= made)
          BY CredentialsAssumption DEF KeyInv, Typed, TypeOK
        <5> QED
          BY <5>1
      <4>2. New(k) => x = t /\ y = t
        BY <3>3, <3>6, <4>1 DEF Issued
      <4> QED
        BY <3>3, <3>6, <4>2 DEF KeyInv
    <3> QED
      BY <3>5, <3>6 DEF KeyInv
  <2> QED
    BY <2>2, <2>3
<1>2. CASE \A c \in Clients : ~Step(c)
  BY <1>2, QuietStep, KeyOther DEF Quiet, pairVars, storeVars, clientVars
<1> QED
  BY <1>1, <1>2

----------------------------------------------------------------------------
(* Keys that are lost with a removal.                                      *)

LEMMA MoveInit == Init => MoveInv
  BY DEF Init, ConfigInit, MoveInv

\* Only the filter leads to the rename.
LEMMA MoveComesFromFilter ==
    ASSUME Typed, NEW c \in Clients, Step(c), pc'[c] = "move"
    PROVE  Filter(c)
<1>1. ~Begin(c)
  BY DEF Begin, FirstStep, Goto, Typed, TypeOK
<1> QED
  BY <1>1 DEF Step, Status, CheckPair, Goto, Done, Typed, TypeOK, ReadPublic, CreatePrivate,
     OpenPublic, FillPublic, Probe, Ask, Grep, Append, Verify, Move, RemovePrivate,
     RemovePublic, Login, Truncate, Store, Check, Drop, Ready, Refused

LEMMA MoveStep == Typed /\ KeyInv /\ MoveInv /\ [Next]_vars => MoveInv'
<1> SUFFICES ASSUME Typed, KeyInv, MoveInv, [Next]_vars PROVE MoveInv'
  OBVIOUS
<1>1. ASSUME NEW c \in Clients, Step(c) PROVE MoveInv'
  <2>1. Frame(c) /\ Side(c)
    BY <1>1, StepFrame, StepSide
  <2> SUFFICES ASSUME NEW m \in Clients, pc'[m] = "move", NEW x \in Aliases,
                      private'[x] \in authorized' \ lines'[m]
               PROVE  private'[x] = key'[m] \/ x \in endangered'
    BY DEF MoveInv
  <2>2. CASE m = c
    <3>1. Filter(c)
      BY <1>1, <2>2, MoveComesFromFilter
    <3> QED
      BY <2>2, <3>1 DEF Filter, pairVars, storeVars, Typed, TypeOK
  <2>3. CASE m # c
    <3> DEFINE k == private'[x]
               t == Target(c)
    <3>1. pc[m] = "move" /\ lines'[m] = lines[m] /\ key'[m] = key[m]
      BY <2>1, <2>3 DEF Frame, Side, Typed, TypeOK
    <3>2. k \in Keys
      BY <1>1, TypedStep, CredentialsAssumption DEF Typed, TypeOK, Next, Keys, Empty
    <3>3. CASE ~Busy(c)
      BY <2>1, <3>1, <3>3 DEF Side, MoveInv, pairVars, storeVars
    <3>4. CASE Busy(c)
      <4>1. /\ x # t => private'[x] = private[x]
            /\ x = t => private[x] = k \/ k = made + 1
            /\ k \in authorized' => k \in authorized \/ key[c] = k \/ k \in lines[c]
        BY <1>1, <2>1, <3>2, <3>4, KeySources DEF Frame
      <4>2. t \in Aliases /\ (key[c] = k => Holds(t, k))
        BY <3>4 DEF Typed, LabelInv, Busy, Holds
      <4>3. Issued(k)
        BY <4>1, <4>2 DEF Issued
      <4>4. private[x] = k
        <5>1. k <= made /\ made \in Nat
          BY <3>2, <4>3, CredentialsAssumption DEF KeyInv, Typed, TypeOK
        <5> QED
          BY <4>1, <5>1
      <4>5. CASE k \in authorized
        BY <2>1, <3>1, <4>4, <4>5 DEF MoveInv, Side
      <4>6. CASE k \notin authorized
        <5>1. CASE Append(c)
          <6>1. key[c] = k
            BY <4>6, <5>1 DEF Append, Appended
          <6>2. x = t
            BY <3>2, <4>2, <4>4, <6>1 DEF KeyInv, Holds
          <6> QED
            BY <2>3, <3>1, <5>1, <6>2 DEF Append, Endanger
        <5>2. CASE Move(c)
          BY <2>3, <3>1, <4>4, <4>6, <5>2 DEF Move, Endanger
        <5> QED
          BY <2>1, <4>6, <5>1, <5>2 DEF Side
      <4> QED
        BY <4>5, <4>6
    <3> QED
      BY <3>3, <3>4
  <2> QED
    BY <2>2, <2>3
<1>2. CASE \A c \in Clients : ~Step(c)
  <2>1. Quiet
    BY <1>2, QuietStep
  <2> QED
    BY <2>1 DEF Quiet, MoveInv, pairVars, storeVars, clientVars, Busy, Working
<1> QED
  BY <1>1, <1>2

----------------------------------------------------------------------------
(* Setups succeed.                                                         *)

LEMMA SetupInit == Init => SetupInv
  BY DEF Init, ConfigInit, SetupInv, Progress

\* What a step of another client leaves of an undisturbed setup.
LEMMA SetupOthers ==
    ASSUME Typed, CompanyInv, KeyInv, MoveInv, NEW c \in Clients, Step(c),
           NEW s \in Clients \ {c}, cmd(s).op = "setup", Progress(s),
           s \notin disturbed', Target(s) \notin endangered'
    PROVE  Progress(s)'
<1> DEFINE a == Target(s)
<1>1. Frame(c) /\ Side(c) /\ UNCHANGED plan
  BY StepFrame, StepSide DEF Frame, SameConfig
<1>2. /\ pc'[s] = pc[s] /\ key'[s] = key[s] /\ kind'[s] = kind[s]
      /\ entered'[s] = entered[s] /\ outcome'[s] = outcome[s]
      /\ Target(s)' = a /\ cmd(s)' = cmd(s)
  BY <1>1, SameTargets DEF Frame, Side, Typed, TypeOK
<1>3. CASE ~Busy(s)
  BY <1>2, <1>3 DEF Progress, Busy, Working
<1>4. CASE Busy(s)
  <2>1. a \in Aliases /\ (Busy(c) => Target(c) # a)
    BY <1>1, <1>4 DEF Typed, LabelInv, Busy, CompanyInv, Involves, Side
  <2>2. /\ private'[a] = private[a] /\ public'[a] = public[a]
        /\ password'[a] = password[a]
    <3>1. CASE Busy(c)
      BY <1>1, <2>1, <3>1 DEF Frame
    <3>2. CASE ~Busy(c)
      BY <1>1, <3>2 DEF Side, pairVars, storeVars
    <3> QED
      BY <3>1, <3>2
  <2>3. ASSUME pc[s] = "verify" PROVE key[s] \in authorized'
    <3>1. key[s] \in authorized /\ private[a] = key[s] /\ key[s] # None
      BY <2>3 DEF Progress
    <3>2. CASE Append(c)
      BY <3>1, <3>2 DEF Append, Appended
    <3>3. CASE Move(c)
      <4>1. pc[c] = "move" /\ Busy(c) /\ Target(c) \in Aliases /\ a \notin endangered
        BY <1>1, <3>3 DEF Move, Busy, Working, Side, Typed, LabelInv
      <4>2. key[s] \in Keys
        BY <2>1, <3>1 DEF Typed, TypeOK
      <4>3. key[s] # key[c]
        BY <2>1, <3>1, <4>1, <4>2 DEF KeyInv, Holds
      <4>4. key[s] \in lines[c]
        BY <2>1, <3>1, <4>1, <4>3 DEF MoveInv
      <4> QED
        BY <3>3, <4>4 DEF Move
    <3> QED
      BY <1>1, <3>1, <3>2, <3>3 DEF Side
  <2> QED
    BY <1>2, <2>2, <2>3 DEF Progress
<1> QED
  BY <1>3, <1>4

\* The setup itself gets on.
LEMMA SetupOwn ==
    ASSUME Typed, PairInv, NEW c \in Clients, Step(c), cmd(c).op = "setup", Progress(c),
           Target(c) \notin torn'
    PROVE  Progress(c)'
<1> DEFINE a == Target(c)
<1>1. Frame(c) /\ UNCHANGED plan /\ Target(c)' = a /\ cmd(c)' = cmd(c)
  BY StepFrame, SameTargets DEF Frame, SameConfig
<1>2. /\ a \in Aliases /\ PairOf(a) /\ ~Status(c)
      /\ \A d \in Clients \ {c} : Target(d) = a => ~Busy(d)
  <2>1. a \in Aliases
    BY PlanTypes DEF Typed
  <2>2. ~Status(c) /\ a \notin torn
    BY <1>1 DEF Status, Frame
  <2> QED
    BY <2>1, <2>2, OnlyOne DEF PairInv
<1>3. /\ pc[c] = "private" => private[a] = None
      /\ pc[c] = "fill" => private[a] = key[c]
      /\ pc[c] \in {"pair", "text"} => public[a] = private[a]
  BY <1>2 DEF PairOf, Busy, Working
<1>4. LabelInv(c) /\ \A k \in Keys : k # None
  BY CredentialsAssumption DEF Typed, Keys
<1> USE <1>1, <1>2, <1>3, <1>4 DEF Typed, TypeOK, ConfigTypeOK, Progress, Goto, Done, pairVars,
      storeVars, clientVars, judgeVars, credVars
<1>5. CASE Begin(c)
  <2>1. FirstStep(c) \in {"pair", "truncate", "login"}
    BY DEF FirstStep
  <2> QED
    BY <1>5, <2>1 DEF Begin
<1>6. CASE CheckPair(c)
  BY <1>6 DEF CheckPair
<1>7. CASE ReadPublic(c)
  BY <1>7 DEF ReadPublic, Unreadable
<1>8. CASE CreatePrivate(c)
  BY <1>8 DEF CreatePrivate
<1>9. CASE OpenPublic(c)
  BY <1>9 DEF OpenPublic
<1>10. CASE FillPublic(c)
  BY <1>10 DEF FillPublic, LabelInv
<1>11. CASE Probe(c)
  BY <1>11 DEF Probe, Ready
<1>12. CASE Ask(c)
  BY <1>12 DEF Ask
<1>13. CASE Grep(c)
  BY <1>13 DEF Grep
<1>14. CASE Append(c)
  BY <1>14 DEF Append, Appended
<1>15. CASE Verify(c)
  <2>1. KeyOpens(a)
    BY <1>15 DEF Verify, KeyOpens
  <2> QED
    BY <1>15, <2>1 DEF Verify, Ready, Opens
<1>16. CASE Filter(c) \/ Move(c) \/ RemovePrivate(c) \/ RemovePublic(c)
  BY <1>16 DEF Filter, Move, RemovePrivate, RemovePublic
<1>17. CASE Login(c)
  BY <1>17 DEF Login
<1>18. CASE Truncate(c)
  BY <1>18 DEF Truncate
<1>19. CASE Store(c)
  <2>1. kind[c] = "exec-hop" => secret[c] = a /\ a \in Secrets
    BY <1>19 DEF Store, LabelInv, Secrets
  <2> QED
    BY <1>19, <2>1 DEF Store, Ready, SetPassword
<1>20. CASE Check(c)
  BY <1>20 DEF Check, Ready, Refused
<1>21. CASE Drop(c)
  BY <1>21 DEF Drop
<1> QED
  BY <1>2, <1>5, <1>6, <1>7, <1>8, <1>9, <1>10, <1>11, <1>12, <1>13, <1>14, <1>15, <1>16, <1>17, <1>18, <1>19, <1>20, <1>21 DEF Step

\* No other step moves a setup, except to its end.
LEMMA SetupQuiet ==
    ASSUME Typed, [Next]_vars, \A c \in Clients : ~Step(c),
           NEW s \in Clients, cmd(s).op = "setup", Progress(s)
    PROVE  Progress(s)'
<1>1. Quiet
  BY QuietStep
<1>2. Target(s)' = Target(s) /\ cmd(s)' = cmd(s)
  BY <1>1, SameTargets DEF Quiet
<1>3. outcome'[s] = outcome[s] /\ pc'[s] \in {pc[s], "dead"}
  <2>1. ASSUME NEW c \in Clients, Configure(c) PROVE outcome'[s] = outcome[s] /\ pc'[s] = pc[s]
    <3>1. c # s
      BY <2>1 DEF Configure, ConfigStep, ReadMain, ReadManaged, Rename, EnsureInclude,
         ReadForRemove, Adds, Progress
    <3>2. outcome'[s] = outcome[s]
      BY <2>1, <3>1 DEF Configure, ConfigStep, ReadMain, ReadManaged, Rename, EnsureInclude,
         ReadForRemove, Saves, Done, Typed, TypeOK, ConfigTypeOK
    <3> QED
      BY <2>1, <3>1, <3>2, ConfigFrame DEF Configure
  <2>2. ASSUME NEW c \in Clients, Die(c) PROVE outcome'[s] = outcome[s] /\ pc'[s] \in {pc[s], "dead"}
    BY <2>2 DEF Die, configVars, Typed, TypeOK
  <2>3. CASE EditMain \/ UNCHANGED vars
    BY <2>3 DEF EditMain, vars, configVars
  <2> QED
    BY <2>1, <2>2, <2>3 DEF Next
<1> QED
  BY <1>1, <1>2, <1>3 DEF Progress, Quiet, pairVars, storeVars, clientVars

LEMMA SetupStep ==
    Typed /\ PairInv /\ CompanyInv /\ KeyInv /\ MoveInv /\ SetupInv /\ [Next]_vars => SetupInv'
<1> SUFFICES ASSUME Typed, PairInv, CompanyInv, KeyInv, MoveInv, SetupInv, [Next]_vars,
                    NEW s \in Clients, cmd(s)'.op = "setup",
                    s \notin disturbed', Target(s)' \notin torn', Target(s)' \notin endangered'
             PROVE  Progress(s)'
  BY DEF SetupInv
<1>1. CASE \E c \in Clients : Step(c)
  <2>1. PICK c \in Clients : Step(c)
    BY <1>1
  <2>2. Frame(c) /\ Side(c) /\ UNCHANGED plan
    BY <2>1, StepFrame, StepSide DEF Frame, SameConfig
  <2>3. cmd(s).op = "setup" /\ Target(s)' = Target(s)
    BY <2>2, SameTargets
  <2>4. Progress(s)
    BY <2>2, <2>3 DEF SetupInv, Frame, Side
  <2> QED
    BY <2>1, <2>3, <2>4, SetupOwn, SetupOthers
<1>2. CASE \A c \in Clients : ~Step(c)
  <2>1. Quiet
    BY <1>2, QuietStep
  <2>2. cmd(s).op = "setup" /\ Target(s)' = Target(s)
    BY <2>1, SameTargets DEF Quiet
  <2>3. Progress(s)
    BY <2>1, <2>2 DEF SetupInv, Quiet
  <2> QED
    BY <1>2, <2>2, <2>3, SetupQuiet
<1> QED
  BY <1>1, <1>2

\* A setup that was typed the right password ends well, whatever was interrupted or fails
\* before and beside it, with the exceptions that SetupsSucceed names.
THEOREM SetupsAlwaysSucceed == Spec => []SetupsSucceed
<1> DEFINE Inv == Typed /\ PairInv /\ CompanyInv /\ KeyInv /\ MoveInv /\ SetupInv
<1>1. Init => Inv
  BY TypedInit, PairInit, CompanyInit, KeyInit, MoveInit, SetupInit
<1>2. Inv /\ [Next]_vars => Inv'
  BY TypedStep, PairNext, CompanyStep, KeyStep, MoveStep, SetupStep
<1>3. Inv => SetupsSucceed
  BY DEF SetupInv, Progress, SetupsSucceed
<1> QED
  BY <1>1, <1>2, <1>3, PTL DEF Spec

----------------------------------------------------------------------------
(* What is ready can be used.                                              *)

LEMMA DirectInit == ASSUME EntriesAreDirect PROVE Init => DirectInv
<1> SUFFICES ASSUME Init PROVE DirectInv
  OBVIOUS
<1>1. managed \in Saved /\ \A d \in Clients : sawManaged[d] = managed
  BY DEF Init, ConfigInit
<1>2. ASSUME NEW c \in Clients, cmd(c).op = "wizard", cmd(c).entry.kind = "exec-hop",
             Target(c) # None, managed[Target(c)] # None
      PROVE  managed[Target(c)].kind = "direct"
  BY <1>1, <1>2 DEF EntriesAreDirect, Target, cmd, Init, ConfigInit
<1> QED
  BY <1>1, <1>2 DEF DirectInv, KindOf

LEMMA DirectOther ==
    ASSUME DirectInv, UNCHANGED <<plan, managed, sawManaged>>
    PROVE  DirectInv'
  BY SameTargets DEF DirectInv, KindOf

LEMMA DirectStep == ASSUME EntriesAreDirect PROVE Typed /\ DirectInv /\ [Next]_vars => DirectInv'
<1> SUFFICES ASSUME Typed, DirectInv, [Next]_vars PROVE DirectInv'
  OBVIOUS
<1>1. ASSUME NEW r \in Clients, ConfigStep(r) PROVE DirectInv'
  <2> USE DEF Typed, TypeOK, ConfigTypeOK
  <2>0. UNCHANGED plan
    BY <1>1, ConfigFrame
  <2> SUFFICES ASSUME NEW c \in Clients, cmd(c).op = "wizard", cmd(c).entry.kind = "exec-hop",
                      NEW j, j = Target(c), j # None
               PROVE  /\ managed'[j] # None => managed'[j].kind = "direct"
                      /\ \A d \in Clients : sawManaged'[d][j] # None => sawManaged'[d][j].kind = "direct"
    BY <2>0, SameTargets DEF DirectInv, KindOf
  <2>1. /\ managed[j] # None => managed[j].kind = "direct"
        /\ \A d \in Clients : sawManaged[d][j] # None => sawManaged[d][j].kind = "direct"
    BY DEF DirectInv, KindOf
  <2>2. j \in Aliases /\ j = cmd(c).entry.jump
    BY PlanTypes DEF Target
  <2>3. CASE ReadMain(r) \/ EnsureInclude(r)
    BY <2>1, <2>3 DEF ReadMain, EnsureInclude, fileVars
  <2>4. CASE ReadManaged(r) \/ ReadForRemove(r)
    <3>1. UNCHANGED managed /\ \A d \in Clients : sawManaged'[d] \in {sawManaged[d], managed}
      BY <2>4 DEF ReadManaged, ReadForRemove, fileVars
    <3> QED
      BY <2>1, <3>1
  <2>5. CASE Rename(r)
    <3>1. managed' = Rendered(r) /\ UNCHANGED sawManaged
      BY <2>5 DEF Rename
    <3>2. CASE saving[r] # j
      BY <2>1, <2>2, <3>1, <3>2 DEF Rendered
    <3>3. CASE saving[r] = j /\ ~Adds(r)
      BY <2>1, <2>2, <3>1, <3>3 DEF Rendered
    <3>4. CASE saving[r] = j /\ Adds(r)
      <4>1. Rendered(r)[j] = NewEntry(r)
        BY <2>2, <3>4 DEF Rendered
      <4>2. NewEntry(r).kind = "direct"
        BY <2>2, <3>4 DEF NewEntry, IsExtra, Plain, Adds, EntriesAreDirect, cmd
      <4> QED
        BY <2>1, <3>1, <4>1, <4>2
    <3> QED
      BY <3>2, <3>3, <3>4
  <2> QED
    BY <1>1, <2>3, <2>4, <2>5 DEF ConfigStep
<1>2. CASE \A c \in Clients : ~ConfigStep(c)
  <2>1. UNCHANGED <<plan, managed, sawManaged>>
    BY <1>2, StepFrame DEF Next, Configure, Die, EditMain, vars, configVars, Frame, SameConfig, fileVars
  <2> QED
    BY <2>1, DirectOther
<1> QED
  BY <1>1, <1>2

LEMMA KindInit == Init => KindInv
  BY DEF Init, ConfigInit, KindInv, HostSaved, Working, ByKey

LEMMA KindOwn ==
    ASSUME Typed, KindInv, NEW c \in Clients, Step(c)
    PROVE  /\ cmd(c).op = "wizard" => kind'[c] = "direct"
           /\ pc'[c] \in ByKey => kind'[c] = "direct"
           /\ Working(c)' => c \in disturbed' \/ Knows(c)'
<1>1. Frame(c) /\ Side(c)
  BY StepFrame, StepSide
<1>a. Target(c)' = Target(c) /\ KindOf(Target(c))' = KindOf(Target(c)) /\ SecretOf(Target(c))' = SecretOf(Target(c))
  <2>1. UNCHANGED <<plan, managed>>
    BY <1>1 DEF Frame, SameConfig, fileVars
  <2> QED
    BY <2>1, SameTargets DEF KindOf, SecretOf
<1>2. CASE Begin(c)
  <2>1. /\ kind'[c] = KindOf(Target(c)) /\ cmd(c).op # "wizard" /\ pc'[c] = FirstStep(c)
        /\ secret'[c] = SecretOf(Target(c))
    BY <1>2 DEF Begin, Goto, Typed, TypeOK
  <2>2. FirstStep(c) \in ByKey => kind'[c] = "direct"
    BY DEF FirstStep, ByKey
  <2> QED
    BY <1>a, <2>1, <2>2 DEF Knows
<1>3. CASE Status(c)
  BY <1>3 DEF Status, Done, credVars, clientVars, KindInv, Working, ByKey, Typed, TypeOK
<1>4. CASE ~Begin(c) /\ ~Status(c)
  <2> USE DEF Goto, Done, Typed, TypeOK, pairVars, storeVars, clientVars, judgeVars, credVars, ByKey,
        Working
  <2>1. kind'[c] = kind[c] /\ secret'[c] = secret[c] /\ Working(c)
    BY <1>4 DEF Step, CheckPair, ReadPublic, CreatePrivate, OpenPublic, FillPublic, Probe, Ask,
       Grep, Append, Verify, Filter, Move, RemovePrivate, RemovePublic, Login, Truncate, Store,
       Check, Drop
  <2>2. pc'[c] \in ByKey => pc[c] \in ByKey
    BY <1>4 DEF Step, CheckPair, ReadPublic, CreatePrivate, OpenPublic, FillPublic, Probe, Ask,
       Grep, Append, Verify, Filter, Move, RemovePrivate, RemovePublic, Login, Truncate, Store,
       Check, Drop, Ready, Refused
  <2> QED
    BY <1>1, <1>a, <2>1, <2>2 DEF KindInv, Side, Knows
<1> QED
  BY <1>2, <1>3, <1>4

\* A wizard that has saved its host takes the alias it will set up for what it is.
LEMMA KindConfig ==
    ASSUME Typed, DirectInv', KindInv, NEW c \in Clients, Configure(c)
    PROVE  /\ pc'[c] = "pair" => cmd(c).op = "wizard"
           /\ Working(c)' \/ HostSaved(c)' => c \in disturbed' \/ Knows(c)'
<1> USE DEF Typed, TypeOK, ConfigTypeOK
<1>1. UNCHANGED plan /\ disturbed \subseteq disturbed' /\ ConfigStep(c)
  BY ConfigFrame DEF Configure
<1>2. Target(c)' = Target(c) /\ cmd(c)' = cmd(c)
  BY <1>1, SameTargets
<1>k. UNCHANGED <<kind, secret>>
  BY DEF Configure, clientVars
<1>3. CASE EnsureInclude(c)
  <2>1. pc'[c] = "pair" => HostSaved(c)
    BY <1>3, HostConfigAssumption DEF EnsureInclude, Saves, Done, HostSaved, LabelInv, Adds, cmd
  <2>2. UNCHANGED managed /\ pc'[c] \in {"begin", "pair", "done"}
    BY <1>3 DEF EnsureInclude, Saves, Done
  <2>3. Knows(c) => Knows(c)'
    BY <1>2, <1>k, <2>2 DEF KindOf, SecretOf, Knows
  <2> QED
    BY <1>1, <2>1, <2>2, <2>3 DEF HostSaved, KindInv, Working
<1>4. CASE Rename(c)
  <2>1. pc'[c] \in {"include", "done"} /\ UNCHANGED saving
    BY <1>4 DEF Rename, Done
  <2>2. ASSUME HostSaved(c)' PROVE Knows(c)'
    <3>1. cmd(c).op = "wizard" /\ kind[c] = "direct" /\ saving[c] = cmd(c).name /\ OffersKey(cmd(c).entry)
      BY <1>2, <2>1, <2>2 DEF HostSaved, IsExtra, KindInv
    <3>2. CASE cmd(c).entry.kind = "exec-hop"
      <4>1. pc[c] = "rename" /\ Valid(saving[c], NewEntry(c))
        BY <1>4, <3>1 DEF Rename, LabelInv, Adds
      <4>2. Target(c) # None
        BY <3>1, <3>2, <4>1 DEF Valid, NewEntry, IsExtra, Target
      <4> QED
        BY <1>2, <1>k, <3>1, <3>2, <4>2 DEF DirectInv, Knows
    <3>3. CASE cmd(c).entry.kind # "exec-hop"
      <4>1. cmd(c).entry = Plain /\ Target(c) = saving[c]
        BY <3>1, <3>3 DEF OffersKey, Target
      <4>2. managed'[saving[c]] = Plain
        BY <1>4, <3>1, <4>1 DEF Rename, Rendered, Adds, NewEntry, IsExtra
      <4> QED
        BY <1>2, <1>k, <3>1, <4>1, <4>2 DEF KindOf, Plain, Knows
    <3> QED
      BY <3>2, <3>3
  <2> QED
    BY <2>1, <2>2 DEF Working
<1>5. CASE ReadMain(c) \/ ReadManaged(c) \/ ReadForRemove(c)
  BY <1>5 DEF ReadMain, ReadManaged, ReadForRemove, Done, Working, HostSaved
<1> QED
  BY <1>1, <1>3, <1>4, <1>5 DEF ConfigStep

LEMMA KindOther ==
    ASSUME Typed, KindInv, NEW c \in Clients, UNCHANGED <<plan, kind, secret>>, disturbed \subseteq disturbed',
           pc'[c] \in {pc[c], "dead"}, saving'[c] = saving[c],
           \/ managed' = managed
           \/ \A a \in Aliases : managed'[a] # managed[a] /\ Target(c) = a
                                  /\ pc[c] \notin {"begin", "done", "dead"} => c \in disturbed'
    PROVE  /\ cmd(c)'.op = "wizard" => kind'[c] = "direct"
           /\ pc'[c] \in ByKey => kind'[c] = "direct"
           /\ Working(c)' \/ HostSaved(c)' => c \in disturbed' \/ Knows(c)'
<1>1. Target(c)' = Target(c) /\ cmd(c)' = cmd(c)
  BY SameTargets
<1>2. ASSUME Working(c)' \/ HostSaved(c)', c \notin disturbed' PROVE Knows(c)'
  <2>1. Working(c) \/ HostSaved(c)
    BY <1>1, <1>2 DEF Working, HostSaved, IsExtra
  <2>2. Target(c) \in Aliases
    <3>1. CASE Working(c)
      BY <3>1 DEF Typed, LabelInv
    <3>2. CASE HostSaved(c)
      BY <3>2, PlanTypes DEF Typed, LabelInv, HostSaved, Adds, Valid, NewEntry, IsExtra, Target, Commands
    <3> QED
      BY <2>1, <3>1, <3>2
  <2>3. managed'[Target(c)] = managed[Target(c)]
    BY <1>2, <2>1, <2>2 DEF Working, HostSaved
  <2>4. Knows(c)
    BY <1>2, <2>1 DEF KindInv, HostSaved
  <2> QED
    BY <1>1, <2>3, <2>4 DEF KindOf, SecretOf, Knows
<1> QED
  BY <1>1, <1>2 DEF KindInv, ByKey

LEMMA KindStep ==
    Typed /\ DirectInv' /\ KindInv /\ [Next]_vars => KindInv'
<1> SUFFICES ASSUME Typed, DirectInv', KindInv, [Next]_vars, NEW c \in Clients
             PROVE  /\ cmd(c)'.op = "wizard" => kind'[c] = "direct"
                    /\ pc'[c] \in ByKey => kind'[c] = "direct"
                    /\ Working(c)' \/ HostSaved(c)' => c \in disturbed' \/ Knows(c)'
  BY DEF KindInv, HostSaved
<1>1. ASSUME NEW d \in Clients, Step(d), d # c
      PROVE  /\ cmd(c)'.op = "wizard" => kind'[c] = "direct"
             /\ pc'[c] \in ByKey => kind'[c] = "direct"
             /\ Working(c)' \/ HostSaved(c)' => c \in disturbed' \/ Knows(c)'
  <2>1. Frame(d) /\ Side(d)
    BY <1>1, StepFrame, StepSide
  <2>2. /\ pc'[c] = pc[c] /\ kind'[c] = kind[c] /\ secret'[c] = secret[c]
        /\ cmd(c)' = cmd(c) /\ Target(c)' = Target(c)
        /\ UNCHANGED <<managed, saving>>
    BY <1>1, <2>1, SameTargets DEF Frame, SameConfig, fileVars, Typed, TypeOK
  <2> QED
    BY <2>1, <2>2 DEF KindInv, Side, HostSaved, Working, KindOf, SecretOf, Knows, IsExtra
<1>2. CASE Step(c)
  <2>1. Frame(c) /\ cmd(c)' = cmd(c) /\ Target(c)' = Target(c)
    BY <1>2, StepFrame, SameTargets DEF Frame, SameConfig
  <2>2. UNCHANGED managed /\ pc'[c] # "include"
    BY <2>1 DEF Frame, SameConfig, fileVars, After, Labels, Typed, TypeOK
  <2> QED
    BY <1>2, <2>1, <2>2, KindOwn DEF HostSaved
<1>3. CASE Configure(c)
  <2>1. cmd(c)' = cmd(c) /\ kind' = kind /\ pc'[c] \in {"begin", "managed", "rename", "include", "pair", "done"}
    BY <1>3, ConfigFrame, SameTargets DEF Configure, clientVars
  <2> QED
    BY <1>3, <2>1, KindConfig DEF KindInv, ByKey
<1>4. ASSUME NEW d \in Clients \ {c}, Configure(d)
      PROVE  /\ cmd(c)'.op = "wizard" => kind'[c] = "direct"
             /\ pc'[c] \in ByKey => kind'[c] = "direct"
             /\ Working(c)' \/ HostSaved(c)' => c \in disturbed' \/ Knows(c)'
  <2>1. /\ UNCHANGED <<plan, kind, secret>> /\ disturbed \subseteq disturbed'
        /\ pc'[c] = pc[c] /\ saving'[c] = saving[c]
    BY <1>4, ConfigFrame DEF Configure, clientVars
  <2>2. \A a \in Aliases : managed'[a] # managed[a] /\ Target(c) = a
                            /\ pc[c] \notin {"begin", "done", "dead"} => c \in disturbed'
    BY <1>4 DEF Configure, Involves
  <2> QED
    BY <2>1, <2>2, KindOther
<1>5. ASSUME NEW d \in Clients, Die(d)
      PROVE  /\ cmd(c)'.op = "wizard" => kind'[c] = "direct"
             /\ pc'[c] \in ByKey => kind'[c] = "direct"
             /\ Working(c)' \/ HostSaved(c)' => c \in disturbed' \/ Knows(c)'
  BY <1>5, KindOther DEF Die, configVars, clientVars, Typed, TypeOK
<1>6. CASE EditMain /\ UNCHANGED credVars
  BY <1>6, KindOther DEF EditMain, credVars, clientVars, judgeVars
<1>7. CASE UNCHANGED vars
  BY <1>7, KindOther DEF vars, configVars, credVars, clientVars, judgeVars
<1> QED
  BY <1>1, <1>2, <1>3, <1>4, <1>5, <1>6, <1>7 DEF Next

LEMMA ReadyInit == Init => ReadyInv
  BY DEF Init, ReadyInv

LEMMA SameReach ==
    ASSUME UNCHANGED <<managed, own, private, authorized, password>>
    PROVE  \A a : (Reachable(a)' <=> Reachable(a)) /\ (Opens(a)' <=> Opens(a))
  BY DEF Reachable, Opens, JumpOpens, KeyOpens, Nested, KindOf, Jump, SecretOf

\* Who says ready was alone, and has just been let in.
LEMMA SaysReady ==
    ASSUME Typed, KindInv, NEW c \in Clients, Step(c), NEW a \in ready' \ ready
    PROVE  a = Target(c) /\ c \notin disturbed' /\ Busy(c) /\ pc'[c] = "done" /\ Reachable(a)'
<1> USE DEF Typed, TypeOK, ConfigTypeOK, Goto, Done, pairVars, storeVars, clientVars, judgeVars,
      credVars
<1>1. UNCHANGED managed
  BY StepFrame DEF Frame, SameConfig, fileVars
<1>2. CASE Probe(c) \/ Verify(c)
  <2>1. /\ a = Target(c) /\ c \notin disturbed /\ pc'[c] = "done" /\ Opens(a)
        /\ UNCHANGED <<disturbed, own, private, authorized, password>>
    BY <1>2 DEF Probe, Verify, Ready
  <2>2. Busy(c) /\ Working(c) /\ pc[c] \in ByKey
    BY <1>2 DEF Probe, Verify, Busy, Working, ByKey
  <2>3. KindOf(a) = "direct"
    BY <2>1, <2>2 DEF KindInv, Knows
  <2>4. Reachable(a)
    BY <2>1, <2>3 DEF Reachable
  <2> QED
    BY <1>1, <2>1, <2>2, <2>4, SameReach
<1>3. CASE Store(c)
  <2>1. /\ a = Target(c) /\ c \notin disturbed /\ pc'[c] = "done" /\ kind[c] = "bastion"
        /\ SetPassword(c, cmd(c).given) /\ UNCHANGED disturbed
    BY <1>3 DEF Store, Ready
  <2>2. Busy(c) /\ Working(c) /\ a \in Aliases /\ cmd(c).given = "good"
    BY <1>3, <2>1 DEF Store, Busy, Working, LabelInv
  <2>3. KindOf(a)' = "bastion" /\ SecretOf(a)' = secret[c]
    BY <1>1, <2>1, <2>2 DEF KindInv, Knows, KindOf, SecretOf
  <2>4. password'[SecretOf(a)'] = "good"
    <3>1. secret[c] \in Secrets
      BY <1>3, <2>1 DEF LabelInv, Store, Secrets
    <3> QED
      BY <2>1, <2>2, <2>3, <3>1 DEF SetPassword
  <2> QED
    BY <2>1, <2>2, <2>3, <2>4 DEF Reachable
<1>4. CASE Check(c)
  <2>1. /\ a = Target(c) /\ c \notin disturbed /\ pc'[c] = "done" /\ kind[c] = "exec-hop"
        /\ JumpOpens(a) /\ password[a] = "good"
        /\ UNCHANGED <<disturbed, own, private, authorized, password>>
    BY <1>4 DEF Check, Ready, Refused
  <2>2. Busy(c) /\ Working(c)
    BY <1>4 DEF Check, Busy, Working
  <2>3. KindOf(a) = "exec-hop"
    BY <2>1, <2>2 DEF KindInv, Knows
  <2>4. Reachable(a)
    BY <2>1, <2>3 DEF Reachable
  <2> QED
    BY <1>1, <2>1, <2>2, <2>4, SameReach
<1> QED
  BY <1>2, <1>3, <1>4 DEF Step, Begin, Status, CheckPair, Touch, ReadPublic, CreatePrivate,
     OpenPublic, FillPublic, Ask, Grep, Append, Filter, Move, RemovePrivate, RemovePublic,
     Login, Truncate, Drop

\* A key keeps opening the account while its alias is left alone, unless a removal that
\* had read before it came takes it out.
LEMMA KeyKept ==
    ASSUME Typed, KeyInv, MoveInv, NEW c \in Clients, Step(c), NEW x \in Aliases, x # Target(c),
           KeyOpens(x)
    PROVE  KeyOpens(x)' \/ x \in endangered'
<1>1. /\ UNCHANGED own /\ private'[x] = private[x] /\ endangered \subseteq endangered'
      /\ UNCHANGED authorized \/ Append(c) \/ Move(c)
  BY StepFrame, StepSide DEF Frame, Side
<1>2. CASE own
  BY <1>1, <1>2 DEF KeyOpens
<1>3. CASE private[x] # None /\ private[x] \in authorized
  <2>1. CASE Append(c)
    BY <1>1, <1>3, <2>1 DEF Append, Appended, KeyOpens
  <2>2. CASE Move(c)
    <3>1. pc[c] = "move" /\ Target(c) \in Aliases /\ private[x] \in Keys
      BY <1>3, <2>2 DEF Move, Typed, TypeOK, LabelInv, Working
    <3>2. private[x] # key[c]
      BY <3>1 DEF KeyInv, Holds
    <3> QED
      BY <1>1, <1>3, <2>2, <3>1, <3>2 DEF Move, MoveInv, KeyOpens
  <2> QED
    BY <1>1, <1>3, <2>1, <2>2 DEF KeyOpens
<1> QED
  BY <1>2, <1>3 DEF KeyOpens

\* The alias, its bastion and the file of the bastion stay what they are.
LEMMA SameBastion ==
    ASSUME NEW a, managed'[a] = managed[a]
    PROVE  KindOf(a)' = KindOf(a) /\ SecretOf(a)' = SecretOf(a)
  BY DEF KindOf, SecretOf

\* A password taken away stays so until somebody stores one that opens the bastion.
LEMMA TakenOn ==
    ASSUME Typed, NEW c \in Clients, Step(c), NEW a \in Aliases, TakenAway(a)
    PROVE  TakenAway(a)' \/ Reachable(a)'
<1>1. /\ Frame(c) /\ Side(c) /\ UNCHANGED <<plan, managed>>
      /\ KindOf(a)' = KindOf(a) /\ SecretOf(a)' = SecretOf(a) /\ KindOf(a) = "bastion"
      /\ SecretOf(a) \in Bastions /\ SecretOf(a) \in Secrets /\ SecretOf(a) \notin Aliases
  BY StepFrame, StepSide, SameBastion, SecretTypes, CredentialsAssumption
  DEF Frame, SameConfig, fileVars, TakenAway, Typed, Secrets
<1>2. PICK d \in Clients : /\ secret[d] = SecretOf(a) /\ Target(d) # a
                           /\ \/ pc[d] \in {"store", "dead"}
                              \/ pc[d] = "done" /\ (cmd(d).op = "unset" \/ outcome[d] = "write")
  BY DEF TakenAway
<1>3. Target(d)' = Target(d) /\ cmd(d)' = cmd(d)
  BY <1>1, SameTargets
<1>4. CASE d # c
  <2>1. pc'[d] = pc[d] /\ secret'[d] = secret[d] /\ outcome'[d] = outcome[d]
    BY <1>1, <1>4 DEF Frame, Side, Typed, TypeOK
  <2> QED
    BY <1>1, <1>2, <1>3, <2>1 DEF TakenAway
<1>5. CASE d = c
  <2>1. Store(c)
    BY <1>2, <1>5 DEF Step, Begin, Status, CheckPair, ReadPublic, CreatePrivate, OpenPublic,
       FillPublic, Probe, Ask, Grep, Append, Verify, Filter, Move, RemovePrivate, RemovePublic,
       Login, Truncate, Check, Drop
  <2>2. secret' = secret
    BY <2>1 DEF Store, clientVars
  <2>3. CASE Done(c, "write")
    <3>1. pc'[c] = "done" /\ outcome'[c] = "write"
      BY <2>3 DEF Done, Typed, TypeOK, ConfigTypeOK
    <3> QED
      BY <1>1, <1>2, <1>3, <1>5, <2>2, <3>1 DEF TakenAway
  <2>4. CASE SetPassword(c, cmd(c).given)
    <3>1. cmd(c).given = "good"
      <4>1. pc[c] = "store" /\ LabelInv(c) /\ Target(c) \in Aliases
        BY <2>1 DEF Store, Typed, LabelInv, Working
      <4> QED
        BY <1>1, <1>2, <1>5, <4>1 DEF LabelInv
    <3>2. password'[SecretOf(a)] = "good"
      BY <1>1, <1>2, <1>5, <2>4, <3>1 DEF SetPassword, Typed, TypeOK
    <3> QED
      BY <1>1, <3>2 DEF Reachable
  <2> QED
    BY <2>1, <2>3, <2>4 DEF Store
<1> QED
  BY <1>4, <1>5

\* No other step gives it back.
LEMMA TakenQuiet ==
    ASSUME Typed, [Next]_vars, \A c \in Clients : ~Step(c), NEW a \in Aliases,
           managed'[a] = managed[a], TakenAway(a)
    PROVE  TakenAway(a)'
<1>1. UNCHANGED <<plan, secret>> /\ KindOf(a)' = KindOf(a) /\ SecretOf(a)' = SecretOf(a)
  BY QuietStep, SameBastion DEF Quiet, clientVars
<1>2. PICK d \in Clients : /\ secret[d] = SecretOf(a) /\ Target(d) # a
                           /\ \/ pc[d] \in {"store", "dead"}
                              \/ pc[d] = "done" /\ (cmd(d).op = "unset" \/ outcome[d] = "write")
  BY DEF TakenAway
<1>3. Target(d)' = Target(d) /\ cmd(d)' = cmd(d)
  BY <1>1, SameTargets
<1>4. outcome'[d] = outcome[d] /\ (pc'[d] = pc[d] \/ (pc[d] = "store" /\ pc'[d] = "dead"))
  <2>1. ASSUME NEW c \in Clients, Configure(c) PROVE outcome'[d] = outcome[d] /\ pc'[d] = pc[d]
    <3>1. ConfigStep(c)
      BY <2>1 DEF Configure
    <3>2. c # d
      BY <1>2, <3>1 DEF ConfigStep, ReadMain, ReadManaged, Rename, EnsureInclude, ReadForRemove
    <3>3. outcome'[d] = outcome[d]
      BY <3>1, <3>2 DEF ConfigStep, ReadMain, ReadManaged, Rename, EnsureInclude,
         ReadForRemove, Saves, Done, Typed, TypeOK, ConfigTypeOK
    <3> QED
      BY <3>1, <3>2, <3>3, ConfigFrame
  <2>2. ASSUME NEW c \in Clients, Die(c)
        PROVE  outcome'[d] = outcome[d] /\ (pc'[d] = pc[d] \/ (pc[d] = "store" /\ pc'[d] = "dead"))
    BY <1>2, <2>2 DEF Die, configVars, Typed, TypeOK
  <2>3. CASE EditMain \/ UNCHANGED vars
    BY <2>3 DEF EditMain, vars, configVars
  <2> QED
    BY <2>1, <2>2, <2>3 DEF Next
<1>5. /\ secret'[d] = SecretOf(a)' /\ Target(d)' # a
      /\ \/ pc'[d] \in {"store", "dead"}
         \/ pc'[d] = "done" /\ (cmd(d)'.op = "unset" \/ outcome'[d] = "write")
  BY <1>1, <1>2, <1>3, <1>4
<1>6. KindOf(a)' = "bastion"
  BY <1>1 DEF TakenAway
<1> QED
  BY <1>5, <1>6 DEF TakenAway

\* What can be used stays so while nobody works on it.
LEMMA ReachKept ==
    ASSUME Typed, KeyInv, MoveInv, NEW c \in Clients, Step(c), NEW a \in Aliases,
           Reachable(a), Busy(c) => ~Involves(a, Target(c))
    PROVE  Reachable(a)' \/ TakenAway(a)' \/ \E b \in endangered' : Involves(a, b)'
<1>1. Frame(c) /\ Side(c) /\ UNCHANGED <<managed, own>>
  BY StepFrame, StepSide DEF Frame, SameConfig, fileVars, Side
<1>2. CASE ~Busy(c)
  BY <1>1, <1>2, SameReach DEF Side, pairVars, storeVars
<1>3. CASE Busy(c)
  <2> DEFINE j == Jump(a)
  <2>1. a # Target(c) /\ j # Target(c) /\ j \in Aliases \cup {None}
    BY <1>3 DEF Involves, Jump, Typed, TypeOK, ConfigTypeOK, Entries
  <2>2. password'[a] = password[a]
    BY <1>1, <2>1 DEF Frame
  <2>3. KindOf(a)' = KindOf(a) /\ j' = j /\ (Nested(a)' <=> Nested(a)) /\ Involves(a, a)' /\ Involves(a, j)'
    BY <1>1 DEF KindOf, Jump, Nested, Involves
  \* The password of its bastion changes for another alias behind it.
  <2>7. CASE KindOf(a) = "bastion"
    <3>1. SecretOf(a) \in Bastions /\ SecretOf(a)' = SecretOf(a) /\ password[SecretOf(a)] = "good"
      BY <1>1, <2>7, SecretTypes, SameBastion DEF Reachable, Typed
    <3>2. CASE password'[SecretOf(a)] = "good"
      BY <2>3, <2>7, <3>1, <3>2 DEF Reachable
    <3>3. CASE password'[SecretOf(a)] # "good"
      <4>1. SavesFor(c, SecretOf(a))
        BY <3>1, <3>3, BastionFrame
      <4>2. secret'[c] = SecretOf(a)' /\ Target(c)' # a /\ cmd(c)' = cmd(c)
        BY <1>1, <2>1, <3>1, <4>1, SameTargets DEF SavesFor, Frame, SameConfig
      <4>3. pc'[c] = "store" \/ (pc'[c] = "done" /\ cmd(c).op = "unset")
        BY <3>3, <4>1 DEF SavesFor
      <4> QED
        BY <2>3, <2>7, <4>2, <4>3 DEF TakenAway
    <3> QED
      BY <3>2, <3>3
  <2>4. ASSUME NEW x \in Aliases, x \in {a, j}, KeyOpens(x)
        PROVE  KeyOpens(x)' \/ \E b \in endangered' : Involves(a, b)'
    BY <2>1, <2>3, <2>4, KeyKept
  <2>5. JumpOpens(a) => JumpOpens(a)' \/ \E b \in endangered' : Involves(a, b)'
    <3>1. CASE j = None
      BY <2>3, <3>1 DEF JumpOpens
    <3>2. CASE j # None
      <4>1. PICK x \in Aliases : x = j
        BY <2>1, <3>2
      <4>2. KeyOpens(x) => KeyOpens(x)' \/ \E b \in endangered' : Involves(a, b)'
        BY <2>4, <4>1
      <4>3. Jump(a)' = x
        BY <2>3, <4>1
      <4> QED
        BY <2>3, <4>1, <4>2, <4>3 DEF JumpOpens, KeyOpens
    <3> QED
      BY <3>1, <3>2
  <2>6. KeyOpens(a) => KeyOpens(a)' \/ \E b \in endangered' : Involves(a, b)'
    BY <2>4
  <2>8. CASE KindOf(a) = "direct"
    BY <2>3, <2>5, <2>6, <2>8 DEF Reachable, Opens
  <2>9. CASE KindOf(a) = "exec-hop"
    BY <2>2, <2>3, <2>5, <2>9 DEF Reachable
  <2>10. KindOf(a) \in Kinds
    BY DEF KindOf, Typed, TypeOK, ConfigTypeOK, Entries, Kinds
  <2> QED
    BY <2>7, <2>8, <2>9, <2>10 DEF Kinds
<1> QED
  BY <1>2, <1>3

LEMMA ReadyStep ==
    Typed /\ CompanyInv /\ KeyInv /\ MoveInv /\ KindInv /\ ReadyInv /\ [Next]_vars => ReadyInv'
<1> SUFFICES ASSUME Typed, CompanyInv, KeyInv, MoveInv, KindInv, ReadyInv, [Next]_vars,
                    NEW a \in ready'
             PROVE  /\ \A d \in Clients : Busy(d)' => ~Involves(a, Target(d))'
                    /\ Reachable(a)' \/ TakenAway(a)' \/ \E b \in endangered' : Involves(a, b)'
  BY DEF ReadyInv
<1>1. ASSUME NEW c \in Clients, Step(c)
      PROVE  /\ \A d \in Clients : Busy(d)' => ~Involves(a, Target(d))'
             /\ Reachable(a)' \/ TakenAway(a)' \/ \E b \in endangered' : Involves(a, b)'
  <2>1. Frame(c) /\ Side(c) /\ UNCHANGED <<plan, managed>>
    BY <1>1, StepFrame, StepSide DEF Frame, SameConfig, fileVars
  <2>2. \A d \in Clients : Involves(a, Target(d))' <=> Involves(a, Target(d))
    BY <2>1, SameTargets, SameWays
  <2>3. \A d \in Clients \ {c} : Busy(d)' <=> Busy(d)
    BY <2>1 DEF Frame, Busy, Working, Typed, TypeOK
  <2>4. CASE a \in ready
    <3>1. /\ \A d \in Clients : Busy(d) => ~Involves(a, Target(d))
          /\ Reachable(a) \/ TakenAway(a) \/ \E b \in endangered : Involves(a, b)
      BY <2>4 DEF ReadyInv
    <3>2. Busy(c)' => ~Involves(a, Target(c))
      BY <1>1, <3>1, SetsToWork DEF Touch
    <3>3. Reachable(a) => Reachable(a)' \/ TakenAway(a)' \/ \E b \in endangered' : Involves(a, b)'
      BY <1>1, <2>4, <3>1, ReachKept DEF Typed, TypeOK
    <3>4. (\E b \in endangered : Involves(a, b)) => \E b \in endangered' : Involves(a, b)'
      BY <2>1, SameWays DEF Side
    <3>5. TakenAway(a) => TakenAway(a)' \/ Reachable(a)'
      BY <1>1, <2>4, TakenOn DEF Typed, TypeOK
    <3> QED
      BY <2>2, <2>3, <3>1, <3>2, <3>3, <3>4, <3>5
  <2>5. CASE a \notin ready
    <3>1. a = Target(c) /\ c \notin disturbed' /\ Busy(c) /\ pc'[c] = "done" /\ Reachable(a)'
      BY <1>1, <2>5, SaysReady
    <3>2. ~Busy(c)'
      BY <3>1 DEF Busy, Working
    <3>3. \A d \in Clients \ {c} : Busy(d) => ~Involves(a, Target(d))
      BY <2>1, <3>1 DEF CompanyInv, Side
    <3> QED
      BY <2>2, <2>3, <3>1, <3>2, <3>3
  <2> QED
    BY <2>4, <2>5
<1>2. CASE \A c \in Clients : ~Step(c)
  <2>1. Quiet
    BY <1>2, QuietStep
  <2>2. a \in ready /\ a \in Aliases /\ Jump(a) \in Aliases \cup {None}
    BY <2>1 DEF Quiet, Typed, TypeOK, ConfigTypeOK, Jump, Entries
  <2>3. /\ managed'[a] = managed[a]
        /\ Jump(a) # None => managed'[Jump(a)] = managed[Jump(a)]
    BY <2>1, <2>2 DEF Quiet, Involves
  <2>4. /\ \A b : Involves(a, b)' <=> Involves(a, b)
        /\ KindOf(a)' = KindOf(a) /\ Jump(a)' = Jump(a) /\ (Nested(a)' <=> Nested(a))
        /\ SecretOf(a)' = SecretOf(a)
    BY <2>3 DEF Involves, Jump, KindOf, SecretOf, Nested
  <2>5. Reachable(a)' <=> Reachable(a)
    <3>1. \A x : KeyOpens(x)' <=> KeyOpens(x)
      BY <2>1 DEF Quiet, KeyOpens, pairVars, storeVars
    <3>2. JumpOpens(a)' <=> JumpOpens(a)
      BY <2>4, <3>1 DEF JumpOpens, KeyOpens
    <3> QED
      BY <2>1, <2>4, <3>1, <3>2 DEF Quiet, Reachable, Opens, storeVars
  <2>6. \A d \in Clients : Target(d)' = Target(d) /\ (Busy(d)' => Busy(d))
    BY <2>1, SameTargets DEF Quiet
  <2>7. TakenAway(a) => TakenAway(a)'
    BY <1>2, <2>2, <2>3, TakenQuiet
  <2>8. Reachable(a) \/ TakenAway(a) \/ \E b \in endangered : Involves(a, b)
    BY <2>2 DEF ReadyInv
  <2>9. \A d \in Clients : Busy(d)' => ~Involves(a, Target(d))'
    BY <2>2, <2>4, <2>6 DEF ReadyInv
  <2> QED
    BY <2>1, <2>4, <2>5, <2>7, <2>8, <2>9 DEF Quiet
<1> QED
  BY <1>1, <1>2

\* A host of which ready was said can be used until somebody works on it or on the way to
\* it, whatever is done to the other aliases of its account, if the entry hosts of wizards
\* are logged in to with keys and but for a removal that renames a file it read too early,
\* and for the password of a bastion that is taken away for another alias behind it.
THEOREM ReadyAlwaysMeansReachable ==
    ASSUME EntriesAreDirect
    PROVE  Spec => []ReadyMeansReachable
<1> DEFINE Inv == Typed /\ CompanyInv /\ KeyInv /\ MoveInv /\ DirectInv /\ KindInv /\ ReadyInv
<1>1. Init => Inv
  BY TypedInit, CompanyInit, KeyInit, MoveInit, DirectInit, KindInit, ReadyInit
<1>2. Inv /\ [Next]_vars => Inv'
  BY TypedStep, CompanyStep, KeyStep, MoveStep, DirectStep, KindStep, ReadyStep
<1>3. Inv => ReadyMeansReachable
  BY DEF ReadyInv, ReadyMeansReachable
<1> QED
  BY <1>1, <1>2, <1>3, PTL DEF Spec
=============================================================================
