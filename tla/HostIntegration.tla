-------------------------- MODULE HostIntegration --------------------------
(***************************************************************************)
(* Installing the vault synchronisation on a host                          *)
(* (src/integrations/lifecycle.mjs).  An operator runs one command at a    *)
(* time on a reviewed plan.  A command writes and removes files one by one *)
(* in a FileTransaction, asks systemctl for the timer, and undoes what it  *)
(* did when something fails; a kill undoes nothing.                        *)
(***************************************************************************)
EXTENDS Naturals, Sequences

CONSTANTS
  Instances,       \* instances that are planned
  VaultOf,         \* the vault of each
  Legacy,          \* instances that an earlier layout already runs
  Operators,       \* who runs commands; the project assumes one
  MaxHostFaults,   \* bound: failing calls and killed commands
  MaxCommands      \* bound: commands

ASSUME HostAssumption ==
  /\ Legacy \subseteq Instances /\ DOMAIN VaultOf = Instances
  /\ {MaxHostFaults, MaxCommands} \subseteq Nat

VARIABLES
  files,      \* files that exist: <<instance, name>>
  timers,     \* instances whose timer is enabled and runs
  command,    \* what each operator runs
  unfinished, \* instances with a command that was killed or not undone
  commands, hostFaults

hostVars == <<files, timers, command, unfinished, commands, hostFaults>>

\* One wrapper serves every instance of the host.
File(i, name) == IF name = "wrapper" THEN <<"host", name>> ELSE <<i, name>>
Has(i, name) == File(i, name) \in files

Resting == [kind |-> "none", at |-> 0, undo |-> <<>>, failing |-> FALSE]

HostInit ==
  /\ files = UNION {{File(i, "wrapper"), File(i, "env"), File(i, "marker")} : i \in Legacy}
  /\ timers = Legacy
  /\ command = [o \in Operators |-> Resting]
  /\ unfinished = {} /\ commands = 0 /\ hostFaults = 0

W(name) == [do |-> "write", what |-> name]
R(name) == [do |-> "remove", what |-> name]
Systemctl(verb) == [do |-> "systemctl", what |-> verb]

\* The steps of a command; the client tree is moved away as a whole.
StepsOf(c) ==
  CASE c.kind = "install" ->
         <<W("wrapper"), W("env"), W("client"), W("service"), W("timer"), W("manifest"), Systemctl("reload")>>
    [] c.kind = "adopt" -> <<W("manifest")>>
    [] c.kind = "run" /\ c.had -> <<Systemctl("start")>>
    [] c.kind = "run" /\ ~c.had -> <<W("marker"), Systemctl("start"), R("marker")>>
    [] c.kind = "enable" -> <<W("marker"), Systemctl("enable")>>
    [] c.kind = "disable" -> <<Systemctl("disable"), R("marker")>>
    [] c.kind = "uninstall" /\ c.inst \in Legacy -> <<R("manifest")>>
    [] c.kind = "uninstall" /\ c.inst \notin Legacy ->
         <<Systemctl("disable"), R("marker"), R("env"), R("service"), R("timer"), R("manifest"),
           R("client"), Systemctl("reload")>>

(***************************************************************************)
(* Commands start                                                          *)
(***************************************************************************)

\* Mutant: only timers that are enabled count.
TimersOfEnabled(vault) == {k \in timers : VaultOf[k] = vault}

\* timersForVault: the configured instances of this vault.  A unit without its
\* environment file cannot be attributed.
TimersOf(vault) == {k \in Instances : Has(k, "env") /\ VaultOf[k] = vault}
Unattributed == \E k \in Instances : ~Has(k, "env") /\ (Has(k, "timer") \/ k \in timers)

\* legacyCandidates: the files of the earlier layout for this vault.
LegacyFound(i) == i \in Legacy /\ Has(i, "env") /\ Has(i, "wrapper")

MayStart(kind, i) ==
  CASE kind = "install" ->
         /\ ~Has(i, "manifest") /\ ~LegacyFound(i)
         /\ ~Unattributed /\ TimersOf(VaultOf[i]) = {}
    [] kind = "adopt" ->
         /\ ~Has(i, "manifest") /\ LegacyFound(i)
         /\ ~Unattributed /\ TimersOf(VaultOf[i]) = {i} /\ i \in timers
    [] OTHER -> Has(i, "manifest")

StartCommand(o, kind, i) ==
  /\ command[o] = Resting /\ commands < MaxCommands
  /\ commands' = commands + 1
  /\ MayStart(kind, i)
  /\ command' = [command EXCEPT ![o] =
       [kind |-> kind, inst |-> i, at |-> 1, undo |-> <<>>, failing |-> FALSE,
        had |-> Has(i, "marker"), previous |-> i \in timers, before |-> files]]
  /\ UNCHANGED <<files, timers, unfinished, hostFaults>>

(***************************************************************************)
(* Their steps                                                             *)
(***************************************************************************)

Doing(o, do) ==
  /\ command[o].kind # "none" /\ ~command[o].failing
  /\ StepsOf(command[o])[command[o].at].do = do
What(o) == StepsOf(command[o])[command[o].at].what
Subject(o) == File(command[o].inst, What(o))

\* The last step commits: nothing is undone any more.
Advance(o, undo) ==
  LET me == command[o] IN
  command' = [command EXCEPT ![o] =
    IF me.at = Len(StepsOf(me)) THEN Resting ELSE [me EXCEPT !.at = me.at + 1, !.undo = undo]]
Done(o) == unfinished' = IF command[o].at = Len(StepsOf(command[o])) /\ command[o].kind \in {"install", "uninstall"}
                           THEN unfinished \ {command[o].inst} ELSE unfinished

\* FileTransaction.write: nothing to do when these bytes are there.
WriteFile(o) ==
  /\ Doing(o, "write")
  /\ files' = files \cup {Subject(o)}
  /\ Advance(o, IF Subject(o) \in files THEN command[o].undo
                ELSE Append(command[o].undo, [made |-> TRUE, file |-> Subject(o)]))
  /\ Done(o)
  /\ UNCHANGED <<timers, commands, hostFaults>>

RemoveFile(o) ==
  /\ Doing(o, "remove")
  /\ files' = files \ {Subject(o)}
  /\ Advance(o, IF Subject(o) \notin files THEN command[o].undo
                ELSE Append(command[o].undo, [made |-> FALSE, file |-> Subject(o)]))
  /\ Done(o)
  /\ UNCHANGED <<timers, commands, hostFaults>>

\* What systemctl is asked about must exist, except to disable it.
UnitExists(o) ==
  LET i == command[o].inst IN
  CASE What(o) = "enable" -> i \in Legacy \/ Has(i, "timer")
    [] What(o) = "start" -> i \in Legacy \/ Has(i, "service")
    [] OTHER -> TRUE

CallSystemctl(o) ==
  LET i == command[o].inst IN
  /\ Doing(o, "systemctl") /\ UnitExists(o)
  /\ timers' = CASE What(o) = "enable" -> timers \cup {i}
                 [] What(o) = "disable" -> timers \ {i}
                 [] OTHER -> timers
  /\ Advance(o, command[o].undo) /\ Done(o)
  /\ UNCHANGED <<files, commands, hostFaults>>

UnitIsMissing(o) ==
  /\ Doing(o, "systemctl") /\ ~UnitExists(o)
  /\ command' = [command EXCEPT ![o].failing = TRUE]
  /\ UNCHANGED <<files, timers, unfinished, commands, hostFaults>>

HostFault == hostFaults < MaxHostFaults /\ hostFaults' = hostFaults + 1

\* systemctlOk(..., [0, 1]): a disable that exits with 1 counts as done, and a
\* call that was ended by its timeout is given that status.
DisableTolerated(o) ==
  /\ Doing(o, "systemctl") /\ What(o) = "disable" /\ HostFault
  /\ Advance(o, command[o].undo)
  /\ UNCHANGED <<files, timers, unfinished, commands>>

\* Any other step fails; before the transaction there is nothing to undo.
StepFails(o) ==
  /\ command[o].kind # "none" /\ ~command[o].failing /\ HostFault
  /\ command' = [command EXCEPT ![o].failing = TRUE]
  /\ UNCHANGED <<files, timers, unfinished, commands>>

(***************************************************************************)
(* Rollback and kill                                                       *)
(***************************************************************************)

Failing(o) == command[o].kind # "none" /\ command[o].failing

\* Mutant: what was removed stays removed.
UndoneForgets(change) == files \ {change.file}

\* A file that was made is removed, one that was removed is written again.
Undone(change) == IF change.made THEN files \ {change.file} ELSE files \cup {change.file}

\* In reverse order.  A file that cannot be restored is skipped, but the client
\* tree is moved back before the transaction, and if that fails nothing else is.
UndoStep(o) ==
  LET undo == command[o].undo
      last == undo[Len(undo)]
      rest == SubSeq(undo, 1, Len(undo) - 1)
  IN
  /\ Failing(o) /\ undo # <<>>
  /\ \/ /\ files' = Undone(last)
        /\ command' = [command EXCEPT ![o].undo = rest]
        /\ UNCHANGED <<unfinished, hostFaults>>
     \/ /\ HostFault /\ UNCHANGED files
        /\ unfinished' = unfinished \cup {command[o].inst}
        /\ command' = [command EXCEPT ![o] = IF last.file[2] = "client" /\ ~last.made
                                               THEN Resting ELSE [command[o] EXCEPT !.undo = rest]]
  /\ UNCHANGED <<timers, commands>>

\* restoreTimerState, by the commands that change the timer.
EndUndo(o) ==
  LET i == command[o].inst IN
  /\ Failing(o) /\ command[o].undo = <<>>
  /\ command' = [command EXCEPT ![o] = Resting]
  /\ \/ /\ timers' = IF command[o].kind \notin {"enable", "disable", "uninstall"} THEN timers
                     ELSE IF command[o].previous THEN timers \cup {i} ELSE timers \ {i}
        /\ UNCHANGED <<unfinished, hostFaults>>
     \/ /\ HostFault /\ UNCHANGED timers /\ unfinished' = unfinished \cup {i}
  /\ UNCHANGED <<files, commands>>

KillCommand(o) ==
  /\ command[o].kind # "none" /\ HostFault
  /\ command' = [command EXCEPT ![o] = Resting]
  /\ unfinished' = unfinished \cup {command[o].inst}
  /\ UNCHANGED <<files, timers, commands>>

HostNext ==
  \E o \in Operators :
    \/ \E kind \in {"install", "adopt", "run", "enable", "disable", "uninstall"}, i \in Instances :
         StartCommand(o, kind, i)
    \/ WriteFile(o) \/ RemoveFile(o) \/ CallSystemctl(o) \/ UnitIsMissing(o)
    \/ DisableTolerated(o)
    \/ StepFails(o) \/ UndoStep(o) \/ EndUndo(o) \/ KillCommand(o)

HostSpec == HostInit /\ [][HostNext]_hostVars

(***************************************************************************)
(* Properties                                                              *)
(***************************************************************************)

\* No vault is ever synchronised by two instances.
OneTimerPerVault ==
  \A i, k \in timers : VaultOf[i] = VaultOf[k] => i = k

\* A command that failed and was undone leaves files as it found them.
FailureRestores ==
  \A o \in Operators :
    Failing(o) /\ command'[o] = Resting /\ command[o].inst \notin unfinished'
      => files' = command[o].before

\* No sequence of commands, complete or undone, gives a vault two timers or loses files.
VaultsStayServed == [][OneTimerPerVault' /\ FailureRestores]_hostVars

=============================================================================
