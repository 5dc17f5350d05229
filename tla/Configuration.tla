----------------------------- MODULE Configuration -----------------------------
(***************************************************************************)
(* The configuration manager (common/src/config.rs): the configuration     *)
(* behind a lock, a watch channel that announces it, and a file.  Callers  *)
(* are threads that call its methods; every method reads first, validates, *)
(* then stores under the lock and announces after it, so that calls may    *)
(* interleave between any two of these.  A crash takes the callers with it;*)
(* the program starts again from the file, if the file is in order.        *)
(*                                                                         *)
(* Parameters are identified by their paths, fractions are percentages and *)
(* texts are numbered; "other" stands for all that only a file or a whole  *)
(* new configuration can change.  The client and the server read their     *)
(* configuration once and use none of this.                                *)
(***************************************************************************)
EXTENDS Integers

CONSTANTS
    Callers,
    Configs,          \* configurations given to update, or written by an operator
    Values,           \* parameter values given to set_parameter
    Torn,             \* a file that is empty, cut short or a mixture
    NoCall

VARIABLES
    config,           \* behind the lock
    announced,        \* the value of the watch channel
    file,
    call,             \* of every caller: how far it is, and with which configuration
    running

configVars == <<config, announced, file, call, running>>

\* The parameters that get_parameter and set_parameter know, by type
Settable ==
    [Float |-> {"flow_classifier.single_link_threshold", "flow_classifier.multi_link_threshold",
                "chunk_aggregator.bdp_multiplier"},
     Uint |-> {"flow_classifier.monitor_duration_ms", "receiver.reorder_timeout_ms",
               "link_scheduler.sync_interval_ms"},
     Usize |-> {"chunk_aggregator.min_chunk_size", "chunk_aggregator.max_chunk_size"},
     String |-> {"announcer.enabled"},
     Bool |-> {}]

Path == (UNION {Settable[type] : type \in DOMAIN Settable}) \cup {"stats.ewma_alpha", "other"}

Config == [Path -> Int]

ParameterValue == [type : DOMAIN Settable, value : Int]

ASSUME ConfigurationAssumption ==
    /\ Configs \subseteq Config /\ Values \subseteq ParameterValue
    /\ Torn \notin Config

\* Config::validate
Valid(c) ==
    /\ c["flow_classifier.single_link_threshold"] \in 1 .. 99
    /\ c["flow_classifier.multi_link_threshold"] > c["flow_classifier.single_link_threshold"]
    /\ c["chunk_aggregator.min_chunk_size"] <= c["chunk_aggregator.max_chunk_size"]
    /\ c["stats.ewma_alpha"] \in 1 .. 99

\* The parameter is known and the value has its type.
Accepts(path, v) == path \in Settable[v.type]

\* Mutant of Loads: a file that does not parse is taken as it is.
LoadsTorn == IF file = Torn THEN TRUE ELSE Valid(file)

\* Config::load finds a file that parses and is valid.
Loads == file # Torn /\ Valid(file)

-----------------------------------------------------------------------------

\* The program starts from a file (from_file).
ConfigInit ==
    /\ file \in {c \in Configs : Valid(c)}
    /\ config = file /\ announced = file
    /\ call = [k \in Callers |-> NoCall]
    /\ running = TRUE

Enters(k, stage, c) ==
    /\ running /\ call[k] = NoCall
    /\ call' = [call EXCEPT ![k] = [stage |-> stage, config |-> c]]
    /\ UNCHANGED <<config, announced, file, running>>

\* The last step of a call, or the one that goes on to a stage with its configuration
Returns(k) == call' = [call EXCEPT ![k] = NoCall]
GoesOn(k, stage) == call' = [call EXCEPT ![k].stage = stage]
At(k, stage) == running /\ call[k] # NoCall /\ call[k].stage = stage

\* set_parameter: a copy of the configuration is changed and validated; with an error
\* the call is over and has changed nothing.
SetParameter(k, path, v) ==
    LET copy == [config EXCEPT ![path] = v.value]
    IN Accepts(path, v) /\ Valid(copy) /\ Enters(k, "store", copy)

\* update, with a configuration of the caller's
Update(k, c) == Valid(c) /\ Enters(k, "store", c)

\* reload: the file is read and validated.
Reload(k) == Loads /\ Enters(k, "store", file)

\* Mutant of Store: only what the copy changed is stored.
StoreChanges(k) ==
    /\ At(k, "store")
    /\ config' = [p \in Path |-> IF call[k].config[p] # announced[p] THEN call[k].config[p]
                                                                    ELSE config[p]]
    /\ GoesOn(k, "announce")
    /\ UNCHANGED <<announced, file, running>>

\* update stores the new configuration under the lock,
Store(k) ==
    /\ At(k, "store")
    /\ config' = call[k].config
    /\ GoesOn(k, "announce")
    /\ UNCHANGED <<announced, file, running>>

\* Mutant of Announce: it announces again what the subscribers have.
AnnounceOld(k) ==
    /\ At(k, "announce")
    /\ announced' = announced
    /\ Returns(k)
    /\ UNCHANGED <<config, file, running>>

\* and announces it when it has given up the lock.
Announce(k) ==
    /\ At(k, "announce")
    /\ announced' = call[k].config
    /\ Returns(k)
    /\ UNCHANGED <<config, file, running>>

\* save: the configuration is copied,
Save(k) == Enters(k, "truncate", config)

\* fs::write empties the file,
Truncate(k) ==
    /\ At(k, "truncate")
    /\ file' = Torn
    /\ GoesOn(k, "write")
    /\ UNCHANGED <<config, announced, running>>

\* and writes it.  Over what another call has written meanwhile it may leave a mixture.
Write(k) ==
    /\ At(k, "write")
    /\ \/ file' = call[k].config
       \/ file # Torn /\ file' = Torn
    /\ Returns(k)
    /\ UNCHANGED <<config, announced, running>>

-----------------------------------------------------------------------------
(* The environment *)

\* An operator writes a configuration of his own to the file.
Edit(c) ==
    /\ file' = c
    /\ UNCHANGED <<config, announced, call, running>>

Crash ==
    /\ running' = FALSE
    /\ call' = [k \in Callers |-> NoCall]
    /\ UNCHANGED <<config, announced, file>>

\* from_file: with a file that does not load the program does not start.
Start ==
    /\ ~running /\ Loads
    /\ config' = file /\ announced' = file
    /\ running' = TRUE
    /\ UNCHANGED <<file, call>>

ConfigNext ==
    \/ \E k \in Callers, path \in Path, v \in Values : SetParameter(k, path, v)
    \/ \E k \in Callers, c \in Configs : Update(k, c)
    \/ \E k \in Callers : Reload(k) \/ Store(k) \/ Announce(k)
    \/ \E k \in Callers : Save(k) \/ Truncate(k) \/ Write(k)
    \/ \E c \in Configs : Edit(c)
    \/ Crash \/ Start

ConfigSpec == ConfigInit /\ [][ConfigNext]_configVars

-----------------------------------------------------------------------------
(* Properties *)

Stages == {"store", "announce", "truncate", "write"}

ConfigTypeOK ==
    /\ config \in Config /\ announced \in Config
    /\ file \in Config \cup {Torn}
    /\ call \in [Callers -> [stage : Stages, config : Config] \cup {NoCall}]
    /\ running \in BOOLEAN

\* What is stored and what is announced is valid whatever calls run at once: two of
\* them may each change one of two parameters that must agree, and each is valid with
\* the value the other has replaced.
StoredAlwaysValid == Valid(config) /\ Valid(announced)
===============================================================================
