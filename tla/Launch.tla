------------------------------- MODULE Launch -------------------------------
(* The commands launch and reset (src/cli/index.ts) over the files of the    *)
(* node (src/identity/store.ts, src/config/store.ts) and the control plane   *)
(* that redeems its bootstrap token (src/enroll/client.ts). Every await is a *)
(* point where the process may be killed or another process may step;        *)
(* fs.writeFile opens and truncates the file and writes it later. A process  *)
(* runs one command at a time; a background launch is a launch of its own.   *)
(* The identity is represented by its key, config.json by whether it holds   *)
(* a bootstrap token.                                                        *)
EXTENDS Naturals

CONSTANTS
    Procs,       \* processes of the operator and the service manager
    MaxKeys,     \* bound: key pairs generated
    MaxCreds,    \* bound: credentials in use at a time
    MaxCrashes,  \* bound: commands killed before they end
    MaxResets,   \* bound: resets
    CrashTears,  \* TRUE if a kill may come between truncation and writing
    Missing,     \* no such file
    Empty,       \* a file that is truncated and not yet written
    NotRead      \* a file this launch has not read yet

ASSUME LaunchAssumption ==
    /\ {MaxKeys, MaxCreds, MaxCrashes, MaxResets} \subseteq Nat
    /\ CrashTears \in BOOLEAN

VARIABLES
    disk,       \* the content of each file
    pc,         \* the stage of each process, with the file it is about
    mem,        \* the locals of its handler
    todo,       \* what its reset has still to do
    keys,       \* key pairs generated
    approved,   \* keys of the nodes the control plane approves
    age,        \* "fresh", "near" (5 minutes left) or "expired"
    enrolled,   \* keys the control plane has seen a redemption from
    discarded,  \* keys a reset removed
    crashes, resets

worldVars == <<keys, approved, age, enrolled, discarded, crashes, resets>>
vars == <<disk, pc, mem, todo, worldVars>>

-----------------------------------------------------------------------------
Keys == 1..MaxKeys
Creds == 1..MaxCreds

\* NodeAgentState; 0 for null. A credential has its token and its expiry.
States == [node : Keys \cup {0}, approved : BOOLEAN,
           token : Creds \cup {0}, expires : Creds \cup {0}]

\* The markers are told from each other and from what a file may hold.
ASSUME MarkerAssumption ==
    /\ Missing # Empty /\ Missing # NotRead /\ Empty # NotRead
    /\ \A marker \in {Missing, Empty, NotRead} :
        marker \notin Keys /\ marker \notin BOOLEAN /\ marker \notin States
        /\ marker \notin Creds

DefaultState == [node |-> 0, approved |-> FALSE, token |-> 0, expires |-> 0]

Files == {"identity", "config", "state", "credential"}
Unread == [f \in Files \ {"identity"} |-> NotRead]
Blank == [key |-> 0, given |-> FALSE, read |-> Unread, state |-> DefaultState]

Idle == <<"idle", "">>
Redeeming == <<"redeem", "">>
Running == <<"running", "">>
Wiping == <<"wipe", "">>
Wiped == <<"wiped", "">>
Stages == {Idle, Redeeming, Running, Wiping, Wiped, <<"read", "identity">>,
           <<"read", "rest">>, <<"remove", "credential">>}
          \cup {"open", "fill"} \X Files

ResetStepsForgetful == {"identity", "state", "loadConfig"}

\* What handleReset starts at once.
ResetSteps == {"identity", "state", "credential", "loadConfig"}

Content(f) ==
    CASE f = "identity" -> Keys
      [] f = "config" -> BOOLEAN
      [] f = "state" -> {s \in States : s.token = 0}
      [] f = "credential" -> Creds

\* The types of the state; state.json never holds a token.
TypeOK ==
    /\ \A f \in Files : disk[f] \in Content(f) \cup {Missing, Empty}
    /\ pc \in [Procs -> Stages]
    /\ \A p \in Procs : mem[p].state \in States /\ mem[p].key \in Keys \cup {0}
    /\ todo \in [Procs -> SUBSET (ResetSteps \cup {"openConfig", "fillConfig"})]
    /\ keys \in 0..MaxKeys
    /\ approved \subseteq Keys /\ enrolled \subseteq Keys /\ discarded \subseteq Keys
    /\ age \in [Creds -> {"fresh", "near", "expired"}]
    /\ crashes \in 0..MaxCrashes /\ resets \in 0..MaxResets

Init ==
    /\ disk = [f \in Files |-> Missing]
    /\ pc = [p \in Procs |-> Idle]
    /\ mem = [p \in Procs |-> Blank]
    /\ todo = [p \in Procs |-> {}]
    /\ keys = 0
    /\ approved = {}
    /\ age = [c \in Creds |-> "expired"]
    /\ enrolled = {}
    /\ discarded = {}
    /\ crashes = 0
    /\ resets = 0

-----------------------------------------------------------------------------
(* Decisions of handleLaunch                                                 *)

MergedTokenOnly(state, credential) ==
    IF credential \in {Missing, Empty} THEN state
    ELSE [state EXCEPT !.token = credential]

\* loadState once both files are read; an empty credentials.json counts as
\* none.
Merged(state, credential) ==
    IF credential \in {Missing, Empty} THEN state
    ELSE [state EXCEPT !.token = credential, !.expires = credential]

LoadedState(read) ==
    IF read["state"] = Missing THEN DefaultState
    ELSE Merged(read["state"], read["credential"])

Valid(s) == s.token # 0 /\ s.expires # 0 /\ age[s.expires] # "expired"

ShouldRedeemMissing(s) == s.token = 0

ShouldRedeem(s) == ~Valid(s) \/ age[s.expires] = "near"

\* saveState keeps the token out of state.json.
Persisted(s) == [s EXCEPT !.token = 0]

Goto(p, stage) == pc' = [pc EXCEPT ![p] = stage]

\* The command returns or throws.
Exit(p) == Goto(p, Idle) /\ mem' = [mem EXCEPT ![p] = Blank]

\* What follows the last save: run the loop here or launch it in the
\* background, or stop without a valid approved credential.
Decide(p, s) ==
    \/ s.approved /\ Valid(s) /\ Goto(p, Running)
         /\ mem' = [mem EXCEPT ![p].state = s]
    \/ Exit(p)

\* bootstrapToken of the resolved configuration.
HasToken(p) == mem[p].given \/ mem[p].read["config"] = TRUE

-----------------------------------------------------------------------------
(* launch                                                                    *)

\* given: --token, or an answer to the prompt.
StartLaunch(p, given) ==
    /\ pc[p] \in {Idle, Wiped}
    /\ Goto(p, <<"read", "identity">>)
    /\ mem' = [mem EXCEPT ![p] = [Blank EXCEPT !.given = given]]
    /\ UNCHANGED <<disk, todo, worldVars>>

ReadIdentityUnsaved(p) ==
    /\ pc[p] = <<"read", "identity">>
    /\ disk["identity"] # Empty
    /\ keys < MaxKeys
    /\ keys' = IF disk["identity"] = Missing THEN keys + 1 ELSE keys
    /\ mem' = [mem EXCEPT ![p].key =
            IF disk["identity"] = Missing THEN keys + 1 ELSE disk["identity"]]
    /\ Goto(p, <<"read", "rest">>)
    /\ UNCHANGED <<disk, todo, approved, age, enrolled, discarded, crashes, resets>>

\* ensureIdentity: load it, or generate a key and save it.
ReadIdentity(p) ==
    /\ pc[p] = <<"read", "identity">>
    /\ \/ /\ disk["identity"] = Empty
          /\ Exit(p) /\ UNCHANGED keys
       \/ /\ disk["identity"] = Missing
          /\ keys < MaxKeys
          /\ keys' = keys + 1
          /\ mem' = [mem EXCEPT ![p].key = keys + 1]
          /\ Goto(p, <<"open", "identity">>)
       \/ /\ disk["identity"] \notin {Missing, Empty}
          /\ mem' = [mem EXCEPT ![p].key = disk["identity"]]
          /\ Goto(p, <<"read", "rest">>)
          /\ UNCHANGED keys
    /\ UNCHANGED <<disk, todo, approved, age, enrolled, discarded, crashes, resets>>

\* The reads of loadConfig and loadState, which run together. JSON.parse
\* throws on an empty config.json or state.json.
ReadRest(p) ==
    /\ pc[p] = <<"read", "rest">>
    /\ \E f \in DOMAIN Unread :
        /\ mem[p].read[f] = NotRead
        /\ LET read == [mem[p].read EXCEPT ![f] = disk[f]] IN
           IF f # "credential" /\ disk[f] = Empty THEN Exit(p)
           ELSE /\ mem' = [mem EXCEPT ![p].read = read]
                /\ Goto(p, IF \E g \in DOMAIN read : read[g] = NotRead
                           THEN <<"read", "rest">> ELSE <<"open", "config">>)
    /\ UNCHANGED <<disk, todo, worldVars>>

\* fs.writeFile opens the file.
OpenFile(p) ==
    /\ pc[p][1] = "open"
    /\ disk' = [disk EXCEPT ![pc[p][2]] = Empty]
    /\ Goto(p, <<"fill", pc[p][2]>>)
    /\ UNCHANGED <<mem, todo, worldVars>>

\* It writes the file it opened; if that was removed, nobody sees it. Of two
\* writers the later one wins.
Write(f, content) == disk' = [disk EXCEPT ![f] = IF @ = Missing THEN Missing ELSE content]

FillIdentity(p) ==
    /\ pc[p] = <<"fill", "identity">>
    /\ Write("identity", mem[p].key)
    /\ Goto(p, <<"read", "rest">>)
    /\ UNCHANGED <<mem, todo, worldVars>>

\* saveConfig, and the choice made after it.
FillConfig(p) ==
    /\ pc[p] = <<"fill", "config">>
    /\ Write("config", HasToken(p))
    /\ LET s == LoadedState(mem[p].read) IN
        IF ~HasToken(p) THEN Exit(p)
        ELSE IF ShouldRedeem(s) THEN Goto(p, Redeeming) /\ UNCHANGED mem
        ELSE Decide(p, s)
    /\ UNCHANGED <<todo, worldVars>>

\* Credentials that something still refers to.
InUse ==
    {disk["credential"]}
    \cup {mem[p].state.token : p \in Procs} \cup {mem[p].state.expires : p \in Procs}
    \cup {mem[p].read["credential"] : p \in Procs}
    \cup {c \in Creds : disk["state"] \notin {Missing, Empty} /\ disk["state"].expires = c}
    \cup {c \in Creds : \E p \in Procs : mem[p].read["state"] \notin {Missing, NotRead}
                                         /\ mem[p].read["state"].expires = c}

\* redeemBootstrapToken got an answer: approved_at and a credential for an
\* approved node, null for a pending one.
Redeem(p) ==
    /\ pc[p] = Redeeming
    /\ LET k == mem[p].key IN
        /\ enrolled' = enrolled \cup {k}
        /\ IF k \in approved
           THEN \E c \in Creds \ InUse :
                /\ \A d \in Creds \ InUse : c <= d
                /\ age' = [age EXCEPT ![c] = "fresh"]
                /\ mem' = [mem EXCEPT ![p].state =
                       [node |-> k, approved |-> TRUE, token |-> c, expires |-> c]]
           ELSE /\ mem' = [mem EXCEPT ![p].state = [DefaultState EXCEPT !.node = k]]
                /\ UNCHANGED age
    /\ Goto(p, <<"open", "state">>)
    /\ UNCHANGED <<disk, todo, keys, approved, discarded, crashes, resets>>

\* It did not, or not in time: the command exits with 1, though the control
\* plane may have seen the request.
RedeemFails(p) ==
    /\ pc[p] = Redeeming
    /\ enrolled' \in {enrolled, enrolled \cup {mem[p].key}}
    /\ Exit(p)
    /\ UNCHANGED <<disk, todo, keys, approved, age, discarded, crashes, resets>>

\* saveState, its first file.
FillState(p) ==
    /\ pc[p] = <<"fill", "state">>
    /\ Write("state", Persisted(mem[p].state))
    /\ Goto(p, IF mem[p].state.token = 0 THEN <<"remove", "credential">>
               ELSE <<"open", "credential">>)
    /\ UNCHANGED <<mem, todo, worldVars>>

RemoveCredential(p) ==
    /\ pc[p] = <<"remove", "credential">>
    /\ disk' = [disk EXCEPT !["credential"] = Missing]
    /\ Decide(p, mem[p].state)
    /\ UNCHANGED <<todo, worldVars>>

FillCredential(p) ==
    /\ pc[p] = <<"fill", "credential">>
    /\ Write("credential", mem[p].state.token)
    /\ Decide(p, mem[p].state)
    /\ UNCHANGED <<todo, worldVars>>

\* The loop ends with its process.
Stop(p) ==
    /\ pc[p] = Running
    /\ Exit(p)
    /\ UNCHANGED <<disk, todo, worldVars>>

-----------------------------------------------------------------------------
(* reset: removals and the rewriting of config.json, all at once             *)

StartReset(p) ==
    /\ pc[p] \in {Idle, Wiped}
    /\ resets < MaxResets
    /\ resets' = resets + 1
    /\ Goto(p, Wiping)
    /\ todo' = [todo EXCEPT ![p] = ResetSteps]
    /\ UNCHANGED <<disk, mem, keys, approved, age, enrolled, discarded, crashes>>

\* One of them ends, and more may follow it; with the last the command ends.
Done(p, step, more) ==
    LET left == (todo[p] \ {step}) \cup more IN
    /\ todo' = [todo EXCEPT ![p] = left]
    /\ Goto(p, IF left = {} THEN Wiped ELSE Wiping)

RemoveFile(p, f) ==
    /\ pc[p] = Wiping
    /\ f \in todo[p]
    /\ disk' = [disk EXCEPT ![f] = Missing]
    /\ discarded' = IF f = "identity" /\ disk[f] \in Keys
                    THEN discarded \cup {disk[f]} ELSE discarded
    /\ Done(p, f, {})
    /\ UNCHANGED <<mem, keys, approved, age, enrolled, crashes, resets>>

\* clearBootstrapToken. An empty config.json makes the command exit with 1,
\* with what it had not done yet left undone.
ClearToken(p) ==
    /\ pc[p] = Wiping
    /\ \/ /\ "loadConfig" \in todo[p]
          /\ UNCHANGED disk
          /\ IF disk["config"] = Empty
             THEN Goto(p, Idle) /\ todo' = [todo EXCEPT ![p] = {}]
             ELSE Done(p, "loadConfig",
                       IF disk["config"] = TRUE THEN {"openConfig"} ELSE {})
       \/ /\ "openConfig" \in todo[p]
          /\ disk' = [disk EXCEPT !["config"] = Empty]
          /\ Done(p, "openConfig", {"fillConfig"})
       \/ /\ "fillConfig" \in todo[p]
          /\ Write("config", FALSE)
          /\ Done(p, "fillConfig", {})
    /\ UNCHANGED <<mem, worldVars>>

-----------------------------------------------------------------------------
(* The world                                                                 *)

MidWrite(p) == pc[p][1] = "fill" \/ "fillConfig" \in todo[p]

Crash(p) ==
    /\ pc[p] \notin {Idle, Wiped, Running}
    /\ crashes < MaxCrashes
    /\ MidWrite(p) => CrashTears
    /\ crashes' = crashes + 1
    /\ Exit(p)
    /\ todo' = [todo EXCEPT ![p] = {}]
    /\ UNCHANGED <<disk, keys, approved, age, enrolled, discarded, resets>>

Approve(k) ==
    /\ k \in enrolled \ approved
    /\ approved' = approved \cup {k}
    /\ UNCHANGED <<disk, pc, mem, todo, keys, age, enrolled, discarded, crashes, resets>>

\* A credential outlives the launch that redeemed it.
Ages(c) ==
    /\ age[c] # "expired"
    /\ \A p \in Procs : mem[p].state.expires = c => pc[p] = Running
    /\ age' = [age EXCEPT ![c] = IF @ = "fresh" THEN "near" ELSE "expired"]
    /\ UNCHANGED <<disk, pc, mem, todo, keys, approved, enrolled, discarded, crashes, resets>>

-----------------------------------------------------------------------------
LaunchStep(p) ==
    \/ ReadIdentity(p) \/ ReadRest(p) \/ OpenFile(p)
    \/ FillIdentity(p) \/ FillConfig(p) \/ Redeem(p)
    \/ FillState(p) \/ RemoveCredential(p) \/ FillCredential(p)

ResetStep(p) == (\E f \in ResetSteps \cap Files : RemoveFile(p, f)) \/ ClearToken(p)

ProcStep(p) ==
    \/ \E given \in BOOLEAN : StartLaunch(p, given)
    \/ StartReset(p)
    \/ LaunchStep(p) \/ ResetStep(p)
    \/ RedeemFails(p) \/ Stop(p) \/ Crash(p)

Next ==
    \/ \E p \in Procs : ProcStep(p)
    \/ \E k \in Keys : Approve(k)
    \/ \E c \in Creds : Ages(c)

Spec == Init /\ [][Next]_vars

\* The operator or the service manager keeps launching, with a token time
\* and again, a command goes on until it is killed, the control plane answers
\* time and again, a ready launch is run time and again, and time passes.
FairSpec ==
    /\ Spec
    /\ \A p \in Procs :
        /\ SF_vars(StartLaunch(p, TRUE))
        /\ WF_vars(LaunchStep(p) \/ ResetStep(p))
        /\ SF_vars(Redeem(p))
        /\ SF_vars(LaunchStep(p) /\ pc'[p] = Running)
    /\ \A c \in Creds : WF_vars(Ages(c))

-----------------------------------------------------------------------------
(* Properties                                                                *)

\* The loop is started with the token and the expiry of one redemption,
\* whatever crash or expiry came between the two files they are kept in.
CredentialWhole ==
    \A p \in Procs : pc[p] = Running => mem[p].state.token = mem[p].state.expires

\* The identity stays stable unless it is reset: each key the control plane
\* has seen a redemption from is the one on disk, or a reset removed it.
EnrolledKeyKept ==
    \A k \in enrolled : disk["identity"] = k \/ k \in discarded

\* A reset that ran to its end leaves no identity, no state, no credential
\* and no bootstrap token, also after earlier commands were killed.
ResetCleans ==
    [][\A p \in Procs : pc[p] # Wiped /\ pc'[p] = Wiped =>
        /\ \A f \in {"identity", "state", "credential"} : disk'[f] = Missing
        /\ disk'["config"] \in {Missing, FALSE}]_vars

\* No kill left the file empty: config.json and state.json are parsed, and an
\* empty one makes every later launch fail; an empty credentials.json does not.
Torn(f) == disk[f] = Empty /\ \A p \in Procs : ~MidWrite(p)

\* A node that stays approved runs its loop again and again, whatever files
\* earlier launches, resets and kills left, short of an empty file that is
\* parsed.
ApprovedNodeConnects ==
    \A k \in Keys :
        <>[](disk["identity"] = k /\ k \in approved /\ ~Torn("config") /\ ~Torn("state"))
            => []<>(\E p \in Procs : pc[p] = Running)
=============================================================================
