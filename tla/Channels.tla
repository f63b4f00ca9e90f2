------------------------------ MODULE Channels ------------------------------
(***************************************************************************)
(* The channels of a kirk run: which one the SUT talks through, and that   *)
(* channel at work.  setup_channels() builds one instance per --com option *)
(* (crates/kirk-cli/src/session.rs), the SUT attaches a fresh copy of the  *)
(* instance it names (crates/kirk-sut/src/generic.rs).                     *)
(*                                                                         *)
(* An instance is [kind, name]: `kind` is the code behind it.  The         *)
(* channels share no state, so the others rest while the SUT's works.      *)
(***************************************************************************)
EXTENDS ShellChannel, SshChannel, QemuChannel, LtxChannel

CONSTANTS
    ComOptions,  \* the lists of --com options tried: sequences of [name, id]
    SutComs      \* the names the SUT option `com` may give

ASSUME ChannelsAssumption == \A configs \in ComOptions : configs \in Seq([name : STRING, id : STRING])

VARIABLES
    chConfigs,   \* the --com options of this run
    chCom,       \* the name the SUT asks for
    chKind       \* the kind of the channel attached, "none" before, "error"

chVars == <<chConfigs, chCom, chKind>>
vars == <<chVars, shVars, ssVars, qmVars, ltVars>>

Kinds == {"shell", "ssh", "qemu", "ltx"}
NoInstance == [kind |-> "error", name |-> "error"]

\* The first instance of a name, or no instance.
FindChannel(instances, name) ==
    IF \E k \in DOMAIN instances : instances[k].name = name
    THEN instances[CHOOSE k \in DOMAIN instances :
                     instances[k].name = name /\ \A j \in 1..(k - 1) : instances[j].name # name]
    ELSE NoInstance

builtin_template(name) ==
    IF name \in Kinds THEN [kind |-> name, name |-> name] ELSE NoInstance

\* An instance built before goes before the builtin channel of that name.
lookup_template(name, instances) ==
    IF FindChannel(instances, name) # NoInstance THEN FindChannel(instances, name)
    ELSE builtin_template(name)

\* One instance per option, the earlier ones being templates of the later ones.
Instances[configs \in UNION {ComOptions, {<<>>}}] ==
    LET built[n \in 0..Len(configs)] ==
            IF n = 0 THEN <<>>
            ELSE Append(built[n - 1],
                        [kind |-> lookup_template(configs[n].name, built[n - 1]).kind,
                         name |-> configs[n].id])
    IN  built[Len(configs)]

setup_channels(configs) ==
    IF configs = <<>> THEN <<builtin_template("shell")>> ELSE Instances[configs]

Init ==
    /\ chConfigs \in ComOptions /\ chCom \in SutComs /\ chKind = "none"
    /\ ShInit /\ SsInit /\ QmInit /\ LtInit

\* setup_channels() and setup_with_registry(): any unknown name is an error.
Attach ==
    /\ chKind = "none"
    /\ LET instances == setup_channels(chConfigs)
       IN  chKind' = IF \E k \in DOMAIN instances : instances[k].kind = "error" THEN "error"
                     ELSE FindChannel(instances, chCom).kind
    /\ UNCHANGED <<chConfigs, chCom, shVars, ssVars, qmVars, ltVars>>

ChannelNext ==
    /\ UNCHANGED chVars
    /\ \/ chKind = "shell" /\ ShNext /\ UNCHANGED <<ssVars, qmVars, ltVars>>
       \/ chKind = "ssh" /\ SsNext /\ UNCHANGED <<shVars, qmVars, ltVars>>
       \/ chKind = "qemu" /\ QmNext /\ UNCHANGED <<shVars, ssVars, ltVars>>
       \/ chKind = "ltx" /\ LtNext /\ UNCHANGED <<shVars, ssVars, qmVars>>

Next == Attach \/ ChannelNext

ChannelStep ==
    /\ UNCHANGED chVars
    /\ \/ chKind = "shell" /\ ShStep /\ UNCHANGED <<ssVars, qmVars, ltVars>>
       \/ chKind = "ssh" /\ SsStep /\ UNCHANGED <<shVars, qmVars, ltVars>>
       \/ chKind = "qemu" /\ QmStep /\ UNCHANGED <<shVars, ssVars, ltVars>>
       \/ chKind = "ltx" /\ LtStep /\ UNCHANGED <<shVars, ssVars, qmVars>>

\* Fairness: the runtime runs what is ready.
FairSpec == Init /\ [][Next]_vars /\ WF_vars(ChannelStep)

(***************************************************************************)
(* Properties.                                                             *)
(***************************************************************************)
\* Types of the four channels and of the selection.
TypeOK ==
    /\ chKind \in Kinds \union {"none", "error"}
    /\ ShTypeOK /\ SsTypeOK /\ QmTypeOK /\ LtTypeOK

\* Whatever the channel: a stop() returns, a call whose process or machine is
\* gone returns, and so does one whose connection is closed, by the peer or by
\* stop().  Excepted are the cases the channels' modules name: a failed QEMU
\* login, LTX slots that leaked or were taken late, an SSH stop() while its reset
\* command runs, and SSH calls on a connection that went silent until a stop()
\* disconnects it.
ChannelCallsEnd ==
    LET Stuck == ShStuck \/ SsStuck \/ QmStuck \/ LtStuck
    IN  Stuck ~> ~Stuck

=============================================================================
