---------------------------- MODULE Credentials ----------------------------
(***************************************************************************)
(* Passwordless access: the key pair of each alias under keys/, the        *)
(* passwords under credentials/, and authorized_keys of the account the    *)
(* aliases lead to.  auth setup, auth remove, auth status, the wizard of   *)
(* host add and any command that is given a password work on them, in      *)
(* steps that other clients, failures and deaths may separate.             *)
(*                                                                         *)
(* All aliases lead to one remote account and all clients run on one       *)
(* machine, so that everything they share is shared; the password of a     *)
(* bastion serves every alias behind it.  A key is a number, 0 the empty   *)
(* text of a file that was only opened.                                    *)
(***************************************************************************)
EXTENDS HostConfig

CONSTANTS
    MaxKeys,    \* pairs that are generated
    OwnKeys,    \* whether the user's own identity may be authorized
    Faults      \* "dies", "write_fails"

Empty == 0

Keys == 1 .. MaxKeys

\* The files under credentials/: one for each exec-hop alias, one for each bastion.
Secrets == Aliases \cup Bastions

Texts == {None, "", "good", "bad"}

ASSUME CredentialsAssumption ==
    /\ MaxKeys \in Nat
    /\ OwnKeys \subseteq BOOLEAN
    /\ Faults \subseteq {"dies", "write_fails"}
    /\ None \notin Nat
    /\ Aliases \cap Bastions = {}

\* What is not there is not a password.
ASSUME NoPasswordAssumption == None \notin {"", "good", "bad"}

VARIABLES
    private,    \* the private key file of each alias: None or a key
    public,     \* the public one: None, Empty or a key
    made,       \* keys generated so far
    authorized, \* the lines of authorized_keys
    own,        \* whether the agent or ~/.ssh/id_* opens the account
    password,   \* the text of each of those files
    \* the clients
    kind,       \* how the alias was reached when the client looked it up
    secret,     \* which of the files is its own then
    entered,    \* whether the bastion, or the entry host, let the client in
    key,        \* the public key a client read or made
    lines,      \* what remove_key_command read
    \* for the properties
    ready,      \* aliases whose setup said so, and that nothing touched since
    torn,       \* aliases whose pair was left between its two files, or that two shared
    disturbed,  \* clients that worked on an alias together with another
    endangered  \* aliases whose key came into the file while a removal was about to rename

pairVars == <<private, public, made>>
storeVars == <<authorized, own, password>>
clientVars == <<kind, secret, entered, key, lines>>
judgeVars == <<torn, disturbed, endangered>>
credVars == <<pairVars, storeVars, clientVars, ready, judgeVars>>
vars == <<pc, configVars, credVars>>

TypeOK ==
    /\ ConfigTypeOK
    /\ pc \in [Clients -> {"begin", "managed", "rename", "include", "pair", "private",
                           "public", "fill", "text", "probe", "ask", "grep", "append", "verify",
                           "truncate", "store", "check", "drop", "login", "filter", "move",
                           "rmprivate", "rmpublic", "done", "dead"}]
    /\ private \in [Aliases -> Keys \cup {None}]
    /\ public \in [Aliases -> Keys \cup {None, Empty}]
    /\ made \in 0 .. MaxKeys
    /\ authorized \subseteq Keys \cup {Empty}
    /\ own \in BOOLEAN
    /\ password \in [Secrets -> Texts]
    /\ kind \in [Clients -> Kinds]
    /\ secret \in [Clients -> Secrets \cup {None}]
    /\ entered \in [Clients -> BOOLEAN]
    /\ key \in [Clients -> Keys \cup {None, Empty}]
    /\ lines \in [Clients -> SUBSET (Keys \cup {Empty})]
    /\ ready \subseteq Aliases
    /\ torn \subseteq Aliases
    /\ disturbed \subseteq Clients
    /\ endangered \subseteq Aliases

Init ==
    /\ ConfigInit
    /\ private = [a \in Aliases |-> None]
    /\ public = [a \in Aliases |-> None]
    /\ made = 0
    /\ authorized = {}
    /\ own \in OwnKeys
    /\ password = [s \in Secrets |-> None]
    /\ kind = [c \in Clients |-> "direct"]
    /\ secret = [c \in Clients |-> None]
    /\ entered = [c \in Clients |-> FALSE]
    /\ key = [c \in Clients |-> None]
    /\ lines = [c \in Clients |-> {}]
    /\ ready = {}
    /\ torn = {}
    /\ disturbed = {}
    /\ endangered = {}

\* The alias whose credential a client works on: a wizard that saved an exec-hop
\* host sets up its entry host.
Target(c) ==
    IF cmd(c).op = "wizard" /\ cmd(c).entry.kind = "exec-hop" THEN cmd(c).entry.jump
                                                              ELSE cmd(c).name

Working(c) == pc[c] \notin {"begin", "managed", "rename", "include", "done", "dead"}

Goto(c, label) == pc' = [pc EXCEPT ![c] = label] /\ UNCHANGED outcome

SameConfig == UNCHANGED <<plan, saving, fileVars, sawMain, sawManaged>>

\* The way to a, which may lead through its jump host, needs b.
Involves(a, b) == a = b \/ Jump(a) = b

\* A client turns to an alias, for the properties.
Touch(c) ==
    LET near == {d \in Clients \ {c} : Working(d)
                    /\ (Involves(Target(d), Target(c)) \/ Involves(Target(c), Target(d)))}
    IN  /\ ready' = {a \in ready : ~Involves(a, Target(c))}
        /\ disturbed' = IF near = {} THEN disturbed ELSE disturbed \cup near \cup {c}
        /\ torn' = IF \E d \in near : Target(d) = Target(c) THEN torn \cup {Target(c)} ELSE torn
        /\ UNCHANGED endangered

\* "ready" is printed, which counts if the client was alone with the alias.
Ready(c) ==
    /\ Done(c, "ok")
    /\ ready' = IF c \in disturbed THEN ready ELSE ready \cup {Target(c)}

\* A jump host behind another one is refused.
Nested(a) == Jump(a) # None /\ Jump(Jump(a)) # None

\* A connection without a password: every identity there is, and the agent; at
\* the jump host as well.
KeyOpens(a) == own \/ (private[a] # None /\ private[a] \in authorized)

JumpOpens(a) == Jump(a) # None => ~Nested(a) /\ KeyOpens(Jump(a))

Opens(a) == KeyOpens(a) /\ JumpOpens(a)

-----------------------------------------------------------------------------
\* Beginning of setup, remove, and of a command that is given a password

FirstStep(c) ==
    CASE kind'[c] = "direct" -> CASE cmd(c).op = "setup" -> "pair"
                                  [] cmd(c).op = "unset" -> "text"
                                  [] OTHER -> "ask"
      [] kind'[c] = "exec-hop" -> IF cmd(c).op = "unset" THEN "drop" ELSE "truncate"
      [] OTHER -> IF cmd(c).op = "unset" THEN "drop" ELSE "login"

\* bastion_credential_path names the address, the port and the user of the bastion,
\* route_credential_path the alias.
SecretOf(a) == IF KindOf(a) = "bastion" THEN managed[a].bastion ELSE a

Begin(c) ==
    /\ pc[c] = "begin"
    /\ cmd(c).op \in {"setup", "unset", "use"}
    /\ kind' = [kind EXCEPT ![c] = KindOf(Target(c))]
    /\ secret' = [secret EXCEPT ![c] = SecretOf(Target(c))]
    /\ Goto(c, FirstStep(c))
    /\ Touch(c)
    /\ SameConfig
    /\ UNCHANGED <<pairVars, storeVars, entered, key, lines>>

\* auth status only looks.
Status(c) ==
    /\ pc[c] = "begin"
    /\ cmd(c).op = "status"
    /\ LET a == Target(c)
           k == KindOf(a)
       IN  Done(c, IF k # "direct" THEN (IF password[SecretOf(a)] # None THEN "ok" ELSE "absent")
                   ELSE IF private[a] = None \/ public[a] = None THEN "absent"
                   ELSE IF Opens(a) THEN "ok" ELSE "refused")
    /\ SameConfig
    /\ UNCHANGED credVars

-----------------------------------------------------------------------------
\* The key pair: ensure_managed_key

CheckPair(c) ==
    /\ pc[c] = "pair"
    /\ LET a == Target(c) IN
       \/ /\ private[a] # None /\ public[a] # None
          /\ Goto(c, "text")
       \/ /\ (private[a] = None) # (public[a] = None)
          /\ Done(c, "incomplete")
       \/ /\ private[a] = None /\ public[a] = None
          /\ Goto(c, "private")
    /\ Touch(c)
    /\ SameConfig
    /\ UNCHANGED <<pairVars, storeVars, clientVars>>

\* auth remove looks for the private file as well.
Unreadable(c) ==
    \/ public[Target(c)] = None
    \/ cmd(c).op = "unset" /\ private[Target(c)] = None

ReadPublic(c) ==
    /\ pc[c] = "text"
    /\ \/ /\ Unreadable(c)
          /\ Done(c, "absent")
          /\ UNCHANGED key
       \/ /\ ~Unreadable(c)
          /\ key' = [key EXCEPT ![c] = public[Target(c)]]
          /\ Goto(c, IF cmd(c).op = "wizard" THEN "ask" ELSE "probe")
    /\ SameConfig
    /\ UNCHANGED <<pairVars, storeVars, kind, secret, entered, lines, ready, judgeVars>>

\* create_new; a write that fails leaves the file.
CreatePrivate(c) ==
    /\ pc[c] = "private"
    /\ LET a == Target(c) IN
       \/ /\ private[a] # None
          /\ Done(c, "exists")
          /\ UNCHANGED <<private, made, key, torn>>
       \/ /\ private[a] = None
          /\ made < MaxKeys
          /\ made' = made + 1
          /\ private' = [private EXCEPT ![a] = made']
          /\ key' = [key EXCEPT ![c] = made']
          /\ \/ Goto(c, "public") /\ UNCHANGED torn
             \/ /\ "write_fails" \in Faults
                /\ Done(c, "write")
                /\ torn' = torn \cup {a}
    /\ SameConfig
    /\ UNCHANGED <<public, storeVars, kind, secret, entered, lines, ready, disturbed, endangered>>

\* Wrong variant: the private key of a failed pair is emptied, not removed.
EmptiedPrivate(c) == [private EXCEPT ![Target(c)] = Empty]

\* What a public key that cannot be opened or written leaves of the private one.
PrivateAfterFailure(c) == [private EXCEPT ![Target(c)] = None]

OpenPublic(c) ==
    /\ pc[c] = "public"
    /\ \/ /\ public' = [public EXCEPT ![Target(c)] = Empty]
          /\ Goto(c, "fill")
          /\ UNCHANGED private
       \/ /\ "write_fails" \in Faults
          /\ private' = PrivateAfterFailure(c)
          /\ Done(c, "write")
          /\ UNCHANGED public
    /\ SameConfig
    /\ UNCHANGED <<made, storeVars, clientVars, ready, judgeVars>>

FillPublic(c) ==
    /\ pc[c] = "fill"
    /\ \/ /\ public' = [public EXCEPT ![Target(c)] = key[c]]
          /\ Goto(c, "ask")
          /\ UNCHANGED <<private, torn>>
       \/ /\ "write_fails" \in Faults
          /\ private' = PrivateAfterFailure(c)
          /\ torn' = torn \cup {Target(c)}
          /\ Done(c, "write")
          /\ UNCHANGED public
    /\ SameConfig
    /\ UNCHANGED <<made, storeVars, clientVars, ready, disturbed, endangered>>

-----------------------------------------------------------------------------
\* The key at the host

\* A pair that was there before is tried first; setup trusts any identity that
\* opens the account, and auth remove needs one.
Probe(c) ==
    /\ pc[c] = "probe"
    /\ \/ /\ Opens(Target(c))
          /\ \/ cmd(c).op = "setup" /\ Ready(c)
             \/ cmd(c).op = "unset" /\ Goto(c, "filter") /\ UNCHANGED ready
       \/ /\ ~Opens(Target(c))
          /\ \/ cmd(c).op = "setup" /\ Goto(c, "ask")
             \/ cmd(c).op = "unset" /\ Done(c, "refused")
          /\ UNCHANGED ready
    /\ SameConfig
    /\ UNCHANGED <<pairVars, storeVars, clientVars, judgeVars>>

\* The connection with the password that was typed, which a jump host gets too.
Ask(c) ==
    /\ pc[c] = "ask"
    /\ \/ Nested(Target(c)) /\ Done(c, "jump")
       \/ /\ ~Nested(Target(c))
          /\ \/ cmd(c).given # "good" /\ Done(c, "refused")
             \/ cmd(c).given = "good" /\ cmd(c).op = "use" /\ Done(c, "ok")
             \/ cmd(c).given = "good" /\ cmd(c).op # "use" /\ Goto(c, "grep")
    /\ SameConfig
    /\ UNCHANGED credVars

\* Wrong variant: the answer of grep is read the other way round.
GrepInverted(c) ==
    /\ pc[c] = "grep"
    /\ Goto(c, IF key[c] \in authorized THEN "append" ELSE "verify")
    /\ SameConfig
    /\ UNCHANGED credVars

\* install_key_command: grep -qxF, then >>.
Grep(c) ==
    /\ pc[c] = "grep"
    /\ Goto(c, IF key[c] \in authorized THEN "verify" ELSE "append")
    /\ SameConfig
    /\ UNCHANGED credVars

\* What a removal that is about to rename has not read is lost with it.
Endanger(c, named) ==
    endangered' = IF \E d \in Clients \ {c} : pc[d] = "move" THEN endangered \cup named
                                                          ELSE endangered

\* Wrong variant: > in place of >>.
Overwritten(c) == {key[c]}

Appended(c) == authorized \cup {key[c]}

Append(c) ==
    /\ pc[c] = "append"
    /\ authorized' = Appended(c)
    /\ Endanger(c, {Target(c)})
    /\ Goto(c, "verify")
    /\ SameConfig
    /\ UNCHANGED <<pairVars, own, password, clientVars, ready, torn, disturbed>>

Verify(c) ==
    /\ pc[c] = "verify"
    /\ \/ Opens(Target(c)) /\ Ready(c)
       \/ /\ ~Opens(Target(c))
          /\ Done(c, IF JumpOpens(Target(c)) THEN "unverified" ELSE "jump")
          /\ UNCHANGED ready
    /\ SameConfig
    /\ UNCHANGED <<pairVars, storeVars, clientVars, judgeVars>>

\* remove_key_command: grep -vxF into a temporary, then mv.
Filter(c) ==
    /\ pc[c] = "filter"
    /\ lines' = [lines EXCEPT ![c] = authorized \ {key[c]}]
    /\ Goto(c, "move")
    /\ SameConfig
    /\ UNCHANGED <<pairVars, storeVars, kind, secret, entered, key, ready, judgeVars>>

Move(c) ==
    /\ pc[c] = "move"
    /\ authorized' = lines[c]
    \* Another removal since may have taken out keys, which come back.
    /\ Endanger(c, {a \in Aliases : private[a] \in lines[c] \ authorized})
    /\ Goto(c, "rmprivate")
    /\ SameConfig
    /\ UNCHANGED <<pairVars, own, password, clientVars, ready, torn, disturbed>>

RemovePrivate(c) ==
    /\ pc[c] = "rmprivate"
    /\ private' = [private EXCEPT ![Target(c)] = None]
    /\ Goto(c, "rmpublic")
    /\ SameConfig
    /\ UNCHANGED <<public, made, storeVars, clientVars, ready, judgeVars>>

\* Wrong variant: only the private key is removed.
KeepPublic(c) ==
    /\ pc[c] = "rmpublic"
    /\ Done(c, "ok")
    /\ SameConfig
    /\ UNCHANGED credVars

RemovePublic(c) ==
    /\ pc[c] = "rmpublic"
    /\ public' = [public EXCEPT ![Target(c)] = None]
    /\ Done(c, "ok")
    /\ SameConfig
    /\ UNCHANGED <<private, made, storeVars, clientVars, ready, judgeVars>>

-----------------------------------------------------------------------------
\* Stored passwords

SetPassword(c, text) == password' = [password EXCEPT ![secret[c]] = text]

\* connect_bastion keeps a password only after it opened the bastion.
Login(c) ==
    /\ pc[c] = "login"
    /\ \/ cmd(c).given = "good" /\ Goto(c, "truncate")
       \/ cmd(c).given # "good" /\ Done(c, "refused")
    /\ SameConfig
    /\ UNCHANGED credVars

\* save_password_file: the file is truncated, then written.
Truncate(c) ==
    /\ pc[c] = "truncate"
    /\ SetPassword(c, "")
    /\ Goto(c, "store")
    /\ SameConfig
    /\ UNCHANGED <<pairVars, authorized, own, clientVars, ready, judgeVars>>

\* setup_bastion saves a second time after its command ran.
Store(c) ==
    /\ pc[c] = "store"
    /\ \/ /\ SetPassword(c, cmd(c).given)
          /\ \/ /\ kind[c] = "exec-hop" \/ (cmd(c).op = "setup" /\ ~entered[c])
                /\ Goto(c, "check")
                /\ UNCHANGED ready
             \/ /\ kind[c] = "bastion" /\ cmd(c).op = "setup" /\ entered[c]
                /\ Ready(c)
             \/ /\ kind[c] = "bastion" /\ cmd(c).op = "use"
                /\ Done(c, "ok")
                /\ UNCHANGED ready
       \/ /\ "write_fails" \in Faults
          /\ Done(c, "write")
          /\ UNCHANGED <<password, ready>>
    /\ SameConfig
    /\ UNCHANGED <<pairVars, authorized, own, clientVars, judgeVars>>

\* Wrong variant: a setup that fails leaves the password it tried.
Blamed(c) == Done(c, "unverified")

\* What a failed verification leads to: setup_exec_hop takes the password back,
\* any other command leaves it.
Refused(c) ==
    \/ cmd(c).op = "setup" /\ Goto(c, "drop")
    \/ cmd(c).op = "use" /\ Done(c, "refused")

\* The route is tried with the password that is in the store now.
Check(c) ==
    /\ pc[c] = "check"
    /\ \/ /\ kind[c] = "bastion"
          /\ entered' = [entered EXCEPT ![c] = TRUE]
          /\ Goto(c, "truncate")
          /\ UNCHANGED ready
       \/ /\ kind[c] = "exec-hop"
          /\ entered' = [entered EXCEPT ![c] = JumpOpens(Target(c))]
          /\ \/ /\ entered'[c] /\ password[Target(c)] = "good"
                /\ \/ cmd(c).op = "setup" /\ Ready(c)
                   \/ cmd(c).op = "use" /\ Done(c, "ok") /\ UNCHANGED ready
             \/ /\ ~(entered'[c] /\ password[Target(c)] = "good")
                /\ Refused(c)
                /\ UNCHANGED ready
    /\ SameConfig
    /\ UNCHANGED <<pairVars, storeVars, kind, secret, key, lines, judgeVars>>

Drop(c) ==
    /\ pc[c] = "drop"
    /\ SetPassword(c, None)
    /\ Done(c, IF cmd(c).op = "unset" THEN "ok" ELSE IF entered[c] THEN "unverified" ELSE "jump")
    /\ SameConfig
    /\ UNCHANGED <<pairVars, authorized, own, clientVars, ready, judgeVars>>

-----------------------------------------------------------------------------

Die(c) ==
    /\ "dies" \in Faults
    /\ pc[c] \notin {"begin", "done", "dead"}
    /\ pc' = [pc EXCEPT ![c] = "dead"]
    /\ torn' = IF pc[c] \in {"public", "fill", "rmpublic"} THEN torn \cup {Target(c)} ELSE torn
    /\ UNCHANGED <<configVars, pairVars, storeVars, clientVars, ready, disturbed, endangered>>

\* An entry that changes is another host: what was said of it is void, and who
\* works on it is disturbed.
Configure(c) ==
    /\ ConfigStep(c)
    /\ LET changed == {a \in Aliases : managed'[a] # managed[a]}
           void == {a \in Aliases : \E b \in changed : Involves(a, b)}
       IN  /\ ready' = ready \ void
           /\ disturbed' = disturbed \cup
                {d \in Clients \ {c} : Target(d) \in void
                                         /\ pc[d] \notin {"begin", "done", "dead"}}
    /\ UNCHANGED <<pairVars, storeVars, clientVars, torn, endangered>>

Step(c) ==
    \/ Begin(c) \/ Status(c)
    \/ CheckPair(c) \/ ReadPublic(c) \/ CreatePrivate(c) \/ OpenPublic(c) \/ FillPublic(c)
    \/ Probe(c) \/ Ask(c) \/ Grep(c) \/ Append(c) \/ Verify(c)
    \/ Filter(c) \/ Move(c) \/ RemovePrivate(c) \/ RemovePublic(c)
    \/ Login(c) \/ Truncate(c) \/ Store(c) \/ Check(c) \/ Drop(c)

Next ==
    \/ \E c \in Clients : Configure(c) \/ Step(c) \/ Die(c)
    \/ EditMain /\ UNCHANGED credVars

Spec == Init /\ [][Next]_vars

-----------------------------------------------------------------------------
\* Properties

Reachable(a) ==
    CASE KindOf(a) = "direct" -> Opens(a)
      [] KindOf(a) = "exec-hop" -> password[a] = "good" /\ JumpOpens(a)
      [] OTHER -> password[SecretOf(a)] = "good"

\* A client that works on another alias behind the same bastion has taken its
\* password from under a: auth remove did, or a save that truncated the file and
\* has not written it, or died or failed there.
TakenAway(a) ==
    /\ KindOf(a) = "bastion"
    /\ \E c \in Clients :
        /\ secret[c] = SecretOf(a)
        /\ Target(c) # a
        /\ \/ pc[c] \in {"store", "dead"}
           \/ pc[c] = "done" /\ (cmd(c).op = "unset" \/ outcome[c] = "write")

\* A host whose setup said ready can be used without a password until somebody
\* works on that alias or its jump host again, whatever happens to other aliases
\* of the same account; except that auth remove of one of them rewrites
\* authorized_keys from a read before the key was added, or brought back by
\* another such rewrite, and that aliases behind one bastion share its password,
\* which goes for all of them when it goes for one.
ReadyMeansReachable ==
    \A a \in ready :
        Reachable(a) \/ TakenAway(a) \/ \E b \in endangered : Involves(a, b)

\* The two files of a pair belong together unless a client died or failed
\* between them, or two clients worked on the alias at once.
PairsAreWhole ==
    \A a \in Aliases \ torn :
        \/ public[a] = private[a]
        \/ \E c \in Clients : Target(c) = a /\ pc[c] \in {"public", "fill", "rmpublic"}

\* A setup with the right password succeeds: whatever was interrupted before,
\* it heals, except a pair that was left between its two files, which it refuses
\* or cannot use; or it was disturbed, could not write, or the jump host has no
\* key yet (a setup of the host behind does not give it one) or one of its own.
SetupsSucceed ==
    \A c \in Clients :
        /\ cmd(c).op = "setup"
        /\ cmd(c).given = "good"
        /\ outcome[c] \notin {None, "ok", "write", "jump"}
        => c \in disturbed \/ Target(c) \in torn \cup endangered

\* A stored password has opened its host.  For a bastion always, whichever alias
\* behind it the password was given for; for an exec-hop unless a setup is still
\* trying it or died with it, or it was given to another command with --password,
\* which stores it untried (connect_host).
StoredPasswordsWorked ==
    /\ \A b \in Bastions : password[b] # "bad"
    /\ \A a \in Aliases :
          password[a] = "bad" =>
              \E c \in Clients :
                /\ Target(c) = a /\ cmd(c).given = "bad"
                /\ cmd(c).op = "use" \/ pc[c] \in {"check", "drop", "dead"}
=============================================================================
