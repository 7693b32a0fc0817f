--------------------------- MODULE Configuration ---------------------------
(***************************************************************************)
(* How a Client comes by its profile (config.rs, client.rs): the config    *)
(* file, the environment variables, which other threads may change while   *)
(* they are read one by one, the ClientParams, and the environment of an   *)
(* operation.  A value is a member of CfgValues or Empty, the empty        *)
(* string.  The fields server_url and image_builder_version have defaults. *)
(* The variables begin with cfg.                                           *)
(***************************************************************************)
EXTENDS Integers, Sequences

CONSTANTS CfgFiles,    \* config files: [readable, profiles], the profiles a function from names
          CfgNames,    \* values of MODAL_PROFILE besides Empty
          CfgValues,   \* values of variables and params
          CfgFields,   \* the fields that are followed, in the order of get_profile
          CfgChanges   \* bound: changes of the environment while a client connects

ASSUME ConfigurationAssumption ==
    CfgFields \in Seq({"server_url", "token_id", "environment"}) /\ CfgFields # <<>> /\ CfgChanges \in Nat

Empty == 0
Default == -1          \* the built-in server URL
NoFile == [readable |-> TRUE, profiles |-> << >>]

VARIABLES
    cfgFile,     \* the config file, NoFile if it is missing
    cfgEnv,      \* the environment variables; a field is its place in CfgFields
    cfgName,     \* MODAL_PROFILE
    cfgParams,   \* the ClientParams
    cfgPc,       \* what the client is at: "file", "fields", "params", "channel", "client";
                 \* "connected", "built" by a ClientBuilder, or "failed"
    cfgRaw,      \* the raw profile that was chosen
    cfgProfile,  \* the fields resolved so far
    cfgSeen,     \* history: the variables as they were read
    cfgChanged   \* changes of the environment so far

cfgVars == <<cfgFile, cfgEnv, cfgName, cfgParams, cfgPc, cfgRaw, cfgProfile, cfgSeen, cfgChanged>>
cfgInputs == <<cfgFile, cfgName, cfgParams>>

Fields == DOMAIN CfgFields
Nothing == [f \in Fields |-> Empty]
NoProfile == [fields |-> Nothing, active |-> FALSE]
\* from_config_with_overrides overrides credentials and the environment, not the URL.
Overrides == {f \in Fields : CfgFields[f] # "server_url"}
BuiltIn(f) == IF CfgFields[f] = "server_url" THEN Default ELSE Empty

ASSUME ConfigFilesAssumption ==
    \A file \in CfgFiles : \A n \in DOMAIN file.profiles :
        file.profiles[n].fields \in [Fields -> {Empty} \cup CfgValues]

CfgStart(file, env, name, params, pc) ==
    /\ cfgFile = file /\ cfgEnv = env /\ cfgName = name /\ cfgParams = params /\ cfgPc = pc
    /\ cfgRaw = NoProfile /\ cfgProfile = <<>> /\ cfgSeen = <<>> /\ cfgChanged = 0

CfgInit ==
    \E file \in CfgFiles, env, params \in [Fields -> {Empty} \cup CfgValues], name \in {Empty} \cup CfgNames :
        CfgStart(file, env, name, params, "file")

CfgIdle == CfgStart(NoFile, Nothing, Empty, Nothing, "failed")
-----------------------------------------------------------------------------
\* The profiles get_profile may take: the named one, or an active one in the order of a HashMap.
Candidates ==
    IF cfgName # Empty THEN {cfgName} \cap DOMAIN cfgFile.profiles
    ELSE {n \in DOMAIN cfgFile.profiles : cfgFile.profiles[n].active}

\* read_config_file and the first half of get_profile: an unknown name gives the default profile.
CfgRead ==
    /\ cfgPc = "file"
    /\ IF ~cfgFile.readable
         THEN cfgPc' = "failed" /\ UNCHANGED cfgRaw
         ELSE /\ cfgPc' = "fields"
              /\ cfgRaw' \in IF Candidates = {} THEN {NoProfile} ELSE {cfgFile.profiles[n] : n \in Candidates}
    /\ UNCHANGED <<cfgInputs, cfgEnv, cfgProfile, cfgSeen, cfgChanged>>

\* first_non_empty.
FirstNonEmpty(values) ==
    LET filled == {x \in DOMAIN values : values[x] # Empty}
    IN  IF filled = {} THEN Empty ELSE values[CHOOSE x \in filled : \A y \in filled : x <= y]

\* The sources of a field in the order of get_profile.
Sources(f, env) == <<env, cfgRaw.fields[f], BuiltIn(f)>>

\* The second half of get_profile reads one variable after the other.
CfgField ==
    /\ cfgPc = "fields"
    /\ LET f == Len(cfgSeen) + 1
       IN  /\ cfgSeen' = Append(cfgSeen, cfgEnv[f])
           /\ cfgProfile' = Append(cfgProfile, FirstNonEmpty(Sources(f, cfgEnv[f])))
           /\ cfgPc' = IF f = Len(CfgFields) THEN "params" ELSE "fields"
    /\ UNCHANGED <<cfgInputs, cfgEnv, cfgRaw, cfgChanged>>

\* from_config_with_overrides: params that are not empty replace what was resolved.
CfgOverride ==
    /\ cfgPc = "params"
    /\ cfgProfile' = [f \in Fields |->
          IF f \in Overrides THEN FirstNonEmpty(<<cfgParams[f], cfgProfile[f]>>) ELSE cfgProfile[f]]
    /\ cfgPc' = "channel"
    /\ UNCHANGED <<cfgInputs, cfgEnv, cfgRaw, cfgSeen, cfgChanged>>

\* create_channel: a bad URL, a TLS error, no connection; the credentials are not looked at yet.
CfgChannel ==
    /\ cfgPc = "channel"
    /\ cfgPc' \in {"client", "failed"}
    /\ UNCHANGED <<cfgInputs, cfgEnv, cfgRaw, cfgProfile, cfgSeen, cfgChanged>>

\* ModalInterceptor::new refuses empty credentials.
MissingCredentials(profile) == \E f \in Fields : CfgFields[f] = "token_id" /\ profile[f] = Empty

\* Every service gets the transport and a copy of the profile, if the headers can be made of it.
CfgConnect ==
    /\ cfgPc = "client"
    /\ cfgPc' \in IF MissingCredentials(cfgProfile) THEN {"failed"} ELSE {"connected", "failed"}
    /\ UNCHANGED <<cfgInputs, cfgEnv, cfgRaw, cfgProfile, cfgSeen, cfgChanged>>

\* The services of a Client, and those that a ClientBuilder cannot do without.
ClientServices ==
    {"apps", "cloud_bucket_mounts", "cls", "functions", "function_calls", "images", "proxies",
     "queues", "sandboxes", "secrets", "volumes"}
RequiredServices == ClientServices \ {"cloud_bucket_mounts"}

\* ClientBuilder::build, given all services or all but one: a client without a transport.
CfgBuild ==
    /\ cfgPc = "file"
    /\ \E omitted \in SUBSET ClientServices :
          /\ \A s, t \in omitted : s = t
          /\ cfgPc' = IF omitted \cap RequiredServices = {} THEN "built" ELSE "failed"
    /\ UNCHANGED <<cfgInputs, cfgEnv, cfgRaw, cfgProfile, cfgSeen, cfgChanged>>

\* Another part of the program sets or removes a variable.
CfgSetEnv(f, value) ==
    /\ cfgPc \in {"file", "fields", "params", "channel", "client", "connected"}
    /\ cfgChanged < CfgChanges /\ cfgEnv[f] # value
    /\ cfgEnv' = [cfgEnv EXCEPT ![f] = value]
    /\ cfgChanged' = cfgChanged + 1
    /\ UNCHANGED <<cfgInputs, cfgPc, cfgRaw, cfgProfile, cfgSeen>>

CfgNext ==
    \/ CfgRead \/ CfgField \/ CfgOverride \/ CfgChannel \/ CfgConnect \/ CfgBuild
    \/ \E f \in Fields, value \in {Empty} \cup CfgValues : CfgSetEnv(f, value)

CfgSpec == CfgInit /\ [][CfgNext]_cfgVars
-----------------------------------------------------------------------------
CfgTypeOK ==
    /\ cfgPc \in {"file", "fields", "params", "channel", "client", "connected", "built", "failed"}
    /\ DOMAIN cfgProfile = DOMAIN cfgSeen /\ DOMAIN cfgSeen \subseteq Fields
    /\ cfgPc \in {"params", "channel", "client", "connected"} => DOMAIN cfgProfile = Fields
    /\ cfgEnv \in [Fields -> {Empty} \cup CfgValues] /\ cfgChanged \in 0..CfgChanges

(* "Resolution order for each field: 1. Environment variables 2. Active    *)
(* profile from config file 3. Built-in defaults", with ClientParams       *)
(* before them: a connected client has, for each field, no value while a   *)
(* source before it had one, and a profile that is neither named nor       *)
(* active lends it nothing; and it has credentials, whatever changed while *)
(* they were read (config.rs:85-189, interceptors.rs:44-52).               *)
HighestRankWins ==
    cfgPc = "connected" => \A f \in Fields :
        LET files == {cfgFile.profiles[n].fields[f] : n \in Candidates}
            v == cfgProfile[f]
        IN  /\ CfgFields[f] = "token_id" => v # Empty
            /\ IF f \in Overrides /\ cfgParams[f] # Empty THEN v = cfgParams[f]
               ELSE IF cfgSeen[f] # Empty THEN v = cfgSeen[f]
               ELSE \/ v \in files \ {Empty}
                    \/ (files = {} \/ Empty \in files) /\ v = BuiltIn(f)
=============================================================================
