----------------------------- MODULE HostConfig -----------------------------
(***************************************************************************)
(* The hosts binport manages: ~/.ssh/binport_config, the Include line in   *)
(* ~/.ssh/config, and the commands that change them.  Every command reads, *)
(* decides and renames a new file over the old one; nothing is locked, and *)
(* the user edits ~/.ssh/config as well.                                   *)
(*                                                                         *)
(* An alias stands for its whole entry: an entry says how the host is      *)
(* reached and through which other alias or which bastion, which may serve *)
(* many aliases.  The text of the files is left out: what render writes,   *)
(* parse reads back.                                                       *)
(*                                                                         *)
(* Credentials adds the keys and passwords, and composes the two.          *)
(***************************************************************************)
EXTENDS Naturals, FiniteSets

CONSTANTS
    Clients,    \* processes of binport, each running one command
    Aliases,    \* names of hosts
    Bastions,   \* bastions: each an address, a port and a user of its own
    Plans,      \* which command each client runs
    Saved,      \* what binport_config may hold at the start
    MaxEdits,   \* changes the user makes to ~/.ssh/config
    None

Kinds == {"direct", "exec-hop", "bastion"}

Entries ==
    {e \in [kind : Kinds, jump : Aliases \cup {None}, bastion : Bastions \cup {None}] :
        e.kind = "bastion" <=> e.bastion # None}

\* op: what the command does, name: to which alias.  "add" and "wizard" save
\* entry, replacing one if force; a wizard saves the alias extra first, unless
\* None, and its user may go on to set up a key.  given: the password typed.
Commands ==
    [op : {"add", "wizard", "remove", "setup", "unset", "status", "use"}, name : Aliases,
     entry : Entries, force : BOOLEAN, extra : Aliases \cup {None}, goOn : BOOLEAN,
     given : {"good", "bad", None}]

ASSUME HostConfigAssumption ==
    /\ Plans \subseteq [Clients -> Commands]
    /\ Saved \subseteq [Aliases -> Entries \cup {None}]
    /\ MaxEdits \in Nat
    /\ None \notin Aliases
    /\ None \notin Entries
    \* add_interactive alone saves two hosts, or goes on to a key.
    /\ \A p \in Plans : \A c \in Clients :
           p[c].op # "wizard" => p[c].extra = None /\ ~p[c].goOn

VARIABLES
    plan,       \* the chosen plan
    pc,         \* where each client is
    outcome,    \* its result, None while it runs
    saving,     \* the alias it is saving
    managed,    \* binport_config: the entry of each alias, or None
    main,       \* config: the aliases in it, and whether it has the Include line
    edits,
    sawMain,    \* what each client read of them
    sawManaged,
    \* for the properties
    meant,      \* the hosts, had every change been made to the newest file
    overlapped, \* aliases changed while another client was about to rename
    mine,       \* the aliases the user has in config
    clobbered   \* whether the user edited while a client was about to rename

cmd(c) == plan[c]

configVars == <<plan, outcome, saving, managed, main, edits, sawMain, sawManaged,
                meant, overlapped, mine, clobbered>>

Plain == [kind |-> "direct", jump |-> None, bastion |-> None]

ConfigTypeOK ==
    /\ plan \in Plans
    /\ outcome \in [Clients -> {None, "ok", "exists", "absent", "invalid", "incomplete",
                                "refused", "unverified", "jump", "write"}]
    /\ saving \in [Clients -> Aliases]
    /\ managed \in [Aliases -> Entries \cup {None}]
    /\ main \in [aliases : SUBSET Aliases, include : BOOLEAN]
    /\ edits \in 0 .. MaxEdits
    /\ sawMain \in [Clients -> [aliases : SUBSET Aliases, include : BOOLEAN]]
    /\ sawManaged \in [Clients -> [Aliases -> Entries \cup {None}]]
    /\ meant \in [Aliases -> Entries \cup {None}]
    /\ overlapped \subseteq Aliases
    /\ mine \subseteq Aliases
    /\ clobbered \in BOOLEAN

\* Wrong variant: the host is saved and its jump host forgotten.
FirstTheHost(c) == cmd(c).name

\* A wizard that is given the address of a new jump host saves that one first.
First(c) == IF cmd(c).extra # None THEN cmd(c).extra ELSE cmd(c).name

ConfigInit ==
    /\ plan \in Plans
    /\ pc = [c \in Clients |-> "begin"]
    /\ outcome = [c \in Clients |-> None]
    /\ saving = [c \in Clients |-> First(c)]
    /\ managed \in Saved
    /\ main = [aliases |-> {}, include |-> \E a \in Aliases : managed[a] # None]
    /\ edits = 0
    /\ sawMain = [c \in Clients |-> main]
    /\ sawManaged = [c \in Clients |-> managed]
    /\ meant = managed
    /\ overlapped = {}
    /\ mine = {}
    /\ clobbered = FALSE

\* How host::find and Destination::resolve say an alias is reached now; one that
\* is not managed is the name of a host.
KindOf(a) == IF managed[a] = None THEN "direct" ELSE managed[a].kind

Jump(a) == IF managed[a] = None THEN None ELSE managed[a].jump

\* The client is done, with this outcome.
Done(c, result) ==
    /\ pc' = [pc EXCEPT ![c] = "done"]
    /\ outcome' = [outcome EXCEPT ![c] = result]

fileVars == <<managed, main, edits, meant, overlapped, mine, clobbered>>

-----------------------------------------------------------------------------
\* host::add

Adds(c) == cmd(c).op \in {"add", "wizard"}

IsExtra(c) == saving[c] # cmd(c).name

\* The entry of the jump host is that of a plain host, and never forced.
NewEntry(c) == IF IsExtra(c) THEN Plain ELSE cmd(c).entry

Forced(c) == cmd(c).force /\ ~IsExtra(c)

\* validate_entry.
Valid(name, entry) ==
    /\ entry.jump # name
    /\ entry.kind = "exec-hop" => entry.jump # None
    /\ entry.kind = "bastion" => entry.jump = None

ReadMain(c) ==
    /\ pc[c] = "begin"
    /\ Adds(c)
    /\ \/ /\ ~Valid(saving[c], NewEntry(c))
          /\ Done(c, "invalid")
          /\ UNCHANGED sawMain
       \/ /\ Valid(saving[c], NewEntry(c))
          /\ saving[c] \in main.aliases
          /\ Done(c, "exists")
          /\ UNCHANGED sawMain
       \/ /\ Valid(saving[c], NewEntry(c))
          /\ saving[c] \notin main.aliases
          /\ sawMain' = [sawMain EXCEPT ![c] = main]
          /\ pc' = [pc EXCEPT ![c] = "managed"]
          /\ UNCHANGED outcome
    /\ UNCHANGED <<plan, saving, fileVars, sawManaged>>

ReadManaged(c) ==
    /\ pc[c] = "managed"
    /\ \/ /\ managed[saving[c]] # None /\ ~Forced(c)
          /\ Done(c, "exists")
          /\ UNCHANGED sawManaged
       \/ /\ managed[saving[c]] = None \/ Forced(c)
          /\ sawManaged' = [sawManaged EXCEPT ![c] = managed]
          /\ pc' = [pc EXCEPT ![c] = "rename"]
          /\ UNCHANGED outcome
    /\ UNCHANGED <<plan, saving, fileVars, sawMain>>

\* Wrong variant: only the new entry is rendered.
RenderedAlone(c) ==
    [a \in Aliases |-> IF a = saving[c] /\ Adds(c) THEN NewEntry(c) ELSE None]

\* The file a client is about to put in place: what it read, with its change.
Rendered(c) ==
    IF Adds(c) THEN [sawManaged[c] EXCEPT ![saving[c]] = NewEntry(c)]
               ELSE [sawManaged[c] EXCEPT ![saving[c]] = None]

\* write_atomic on binport_config.
Rename(c) ==
    /\ pc[c] = "rename"
    /\ managed' = Rendered(c)
    /\ meant' = [meant EXCEPT ![saving[c]] = Rendered(c)[saving[c]]]
    /\ overlapped' = IF \E d \in Clients \ {c} : pc[d] = "rename"
                     THEN overlapped \cup {saving[c]} ELSE overlapped
    /\ IF Adds(c)
       THEN /\ pc' = [pc EXCEPT ![c] = "include"]
            /\ UNCHANGED outcome
       ELSE Done(c, "ok")
    /\ UNCHANGED <<plan, saving, main, edits, sawMain, sawManaged, mine, clobbered>>

\* A wizard offers to set up a key for a direct host, and for an exec-hop host
\* one for its entry host.
OffersKey(entry) == entry.kind = "exec-hop" \/ entry = Plain

\* What follows a saved entry: the host itself after its jump host, and after
\* that the key, if the user of a wizard wants it.
Saves(c) ==
    \/ /\ IsExtra(c)
       /\ saving' = [saving EXCEPT ![c] = cmd(c).name]
       /\ pc' = [pc EXCEPT ![c] = "begin"]
       /\ UNCHANGED outcome
    \/ /\ ~IsExtra(c)
       /\ UNCHANGED saving
       /\ \/ /\ cmd(c).goOn /\ OffersKey(cmd(c).entry)
             /\ pc' = [pc EXCEPT ![c] = "pair"]
             /\ UNCHANGED outcome
          \/ /\ ~(cmd(c).goOn /\ OffersKey(cmd(c).entry))
             /\ Done(c, "ok")

\* ensure_include.
EnsureInclude(c) ==
    /\ pc[c] = "include"
    /\ main' = IF sawMain[c].include THEN main
               ELSE [sawMain[c] EXCEPT !.include = TRUE]
    /\ Saves(c)
    /\ UNCHANGED <<plan, managed, edits, sawMain, sawManaged, meant, overlapped, mine,
                   clobbered>>

-----------------------------------------------------------------------------
\* host::remove

ReadForRemove(c) ==
    /\ pc[c] = "begin"
    /\ cmd(c).op = "remove"
    /\ \/ /\ managed[saving[c]] = None
          /\ Done(c, "absent")
          /\ UNCHANGED sawManaged
       \/ /\ managed[saving[c]] # None
          /\ sawManaged' = [sawManaged EXCEPT ![c] = managed]
          /\ pc' = [pc EXCEPT ![c] = "rename"]
          /\ UNCHANGED outcome
    /\ UNCHANGED <<plan, saving, fileVars, sawMain>>

\* The user adds a host to ~/.ssh/config, or takes one out; only add reads that
\* file, so an edit counts while one is still to come.
EditMain ==
    /\ edits < MaxEdits
    /\ \E c \in Clients : Adds(c) /\ pc[c] \in {"begin", "managed", "rename", "include"}
    /\ edits' = edits + 1
    /\ \E a \in Aliases :
        LET toggled == IF a \in main.aliases THEN main.aliases \ {a} ELSE main.aliases \cup {a}
        IN  /\ main' = [main EXCEPT !.aliases = toggled]
            /\ mine' = toggled
    /\ clobbered' = (clobbered \/ \E c \in Clients :
                        pc[c] \in {"managed", "rename", "include"} /\ ~sawMain[c].include)
    /\ UNCHANGED <<plan, pc, outcome, saving, managed, sawMain, sawManaged, meant, overlapped>>

ConfigStep(c) ==
    \/ ReadMain(c) \/ ReadManaged(c) \/ Rename(c) \/ EnsureInclude(c) \/ ReadForRemove(c)

-----------------------------------------------------------------------------
\* Properties

\* No command loses a host another command saved, or brings one back, unless it
\* was about to rename when the other did; and none loses an edit of the user
\* unless it had read config without the Include line before (host.rs writes the
\* Include line into the source it read first).
ChangesAreKept ==
    /\ \A a \in Aliases : managed[a] # meant[a] => a \in overlapped
    /\ main.aliases # mine => clobbered

\* A jump host that the wizard saves is there before the host behind it, and
\* stays: a wizard that stops or fails anywhere leaves no route into nothing.
JumpsAreSavedFirst ==
    \A c \in Clients :
        LET j == cmd(c).extra IN
        /\ j # None
        /\ managed[cmd(c).name] = cmd(c).entry
        /\ cmd(c).entry.jump = j
        => \/ managed[j] # None
           \/ j \in overlapped
           \/ \E d \in Clients : cmd(d).op = "remove" /\ cmd(d).name = j
=============================================================================
