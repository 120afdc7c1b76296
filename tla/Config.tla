------------------------------- MODULE Config -------------------------------
(***************************************************************************)
(* Hot configuration (config.h, config.cpp) in a process that daemon.cpp   *)
(* restarts when it crashes.                                               *)
(*                                                                         *)
(* Variables are created, and their listeners added, before main().  One   *)
(* thread calls LoadFromConfDir when it likes; any number of others call   *)
(* setValue, of the variables in Direct; somebody edits the file.  A crash *)
(* loses everything but the file.                                          *)
(*                                                                         *)
(* A variable has one listener, which keeps a copy, as in http_parser.cpp. *)
(* setValue compares and notifies in one step: the read lock lets other    *)
(* callers do the same at once, and keeps the value from being assigned.   *)
(* The assignment, under the write lock, is a step of its own.             *)
(*                                                                         *)
(* The file is the list of its scalars in the order of ListAllMember, or   *)
(* Broken.  Its texts are numbers, and BadText.                            *)
(***************************************************************************)
EXTENDS Integers, Sequences, FiniteSetsExt

CONSTANTS
    Vars,         \* names with a ConfigVar<uint64_t>
    Listed,       \* names that ListAllMember lets pass
    Default,      \* default_value of each variable
    Contents,     \* what the file may hold: sequences of <<name, text>>, or Broken
    Broken,       \* text that YAML::LoadFile throws on
    BadText,      \* text that lexical_cast throws on
    Direct,       \* variables that the program sets itself
    Callers,      \* the threads that do so
    Loader,       \* the thread in LoadFromConfDir
    NoCall,       \* no setValue under way
    Limit,        \* the values of a variable are 0..(Limit - 1)
    MaxEdits,     \* bound on edits of the file
    MaxRestarts   \* bound on crashes

Value   == 0..(Limit - 1)
Threads == Callers \cup {Loader}

ASSUME ConfigAssumption ==
    /\ Limit \in Nat \ {0}
    /\ Default \in [Vars -> Value]
    /\ Direct \subseteq Vars
    /\ Loader \notin Callers
    /\ NoCall \notin Vars \X Value
    /\ MaxEdits \in Nat
    /\ MaxRestarts \in Nat

\* ListAllMember, without the names it rejects.
ListAllMember(c) == SelectSeq(c, LAMBDA e : e[1] \in Listed)

\* What LoadFromYaml finds in a file it can read: names and texts, in an order.
ASSUME ContentsAssumption ==
    \A c \in {<<>>} \cup (Contents \ {Broken}) :
        ListAllMember(c) \in Seq(Listed \X (Int \cup {BadText}))

VARIABLES
    content, st_mtime,      \* the file; each edit falls into a second of its own
    parent, restart_count,  \* the supervising process
    child,                  \* "none", "up", "crashed" or "finished"
    m_val,                  \* of each ConfigVar
    copies,                 \* what the listener of each ConfigVar keeps
    setting,                \* of each thread: <<name, value>> it is about to assign
    mixed,                  \* variables whose last setValue overlapped another (history)
    s_file2modifytime,
    lpc, st, todo           \* LoadFromConfDir: where it is, its lstat, its all_nodes

fileVars   == <<content, st_mtime>>
daemonVars == <<parent, restart_count>>
loadVars   == <<s_file2modifytime, lpc, st, todo>>
valueVars  == <<m_val, copies, setting, mixed>>
vars == <<fileVars, daemonVars, child, valueVars, loadVars>>

\* lexical_cast<uint64_t> of a number that has a sign wraps around, and throws if
\* the number has too many digits.
Converts(text) == text # BadText /\ -Limit < text /\ text < Limit

\* Mutant: the sign is kept.
FromStrSigned(text) == text

FromStr(text) == text % Limit

Init ==
    /\ content = <<>>
    /\ st_mtime = 1
    /\ parent = "fork"
    /\ restart_count = 0
    /\ child = "none"
    /\ m_val = Default
    /\ copies = Default
    /\ setting = [t \in Threads |-> NoCall]
    /\ mixed = {}
    /\ s_file2modifytime = 0
    /\ lpc = "idle"
    /\ st = 0
    /\ todo = <<>>
-----------------------------------------------------------------------------
(* real_deamon.                                                            *)

\* The child process: Create gives each variable its default, the listeners copy it
\* and register.
fork ==
    /\ parent = "fork"
    /\ parent' = "waitpid"
    /\ child' = "up"
    /\ m_val' = Default
    /\ copies' = Default
    /\ setting' = [t \in Threads |-> NoCall]
    /\ mixed' = {}
    /\ s_file2modifytime' = 0
    /\ lpc' = "idle"
    /\ st' = 0
    /\ todo' = <<>>
    /\ UNCHANGED <<fileVars, restart_count>>

forkFails ==
    /\ parent = "fork"
    /\ parent' = "returned"
    /\ UNCHANGED <<fileVars, restart_count, child, valueVars, loadVars>>

waitpid ==
    /\ parent = "waitpid"
    /\ child \in {"crashed", "finished"}
    /\ child' = "none"
    /\ IF child = "finished"
       THEN parent' = "returned" /\ UNCHANGED restart_count
       ELSE parent' = "sleep" /\ restart_count' = restart_count + 1
    /\ UNCHANGED <<fileVars, valueVars, loadVars>>

sleep ==
    /\ parent = "sleep"
    /\ parent' = "fork"
    /\ UNCHANGED <<fileVars, restart_count, child, valueVars, loadVars>>

ChildEnds ==
    /\ child = "up"
    /\ child' \in {"crashed", "finished"}
    /\ child' = "crashed" => restart_count < MaxRestarts
    /\ UNCHANGED <<fileVars, daemonVars, valueVars, loadVars>>

Edit(c) ==
    /\ st_mtime <= MaxEdits
    /\ content' = c
    /\ st_mtime' = st_mtime + 1
    /\ UNCHANGED <<daemonVars, child, valueVars, loadVars>>
-----------------------------------------------------------------------------
(* LoadFromConfDir, for one file.                                          *)

lstat ==
    /\ child = "up"
    /\ lpc = "idle"
    /\ st' = st_mtime
    /\ lpc' = "check"
    /\ UNCHANGED <<fileVars, daemonVars, child, valueVars, s_file2modifytime, todo>>

\* An unchanged time stamp skips the file; another one is recorded before the file
\* is loaded, also if loading it fails.
checkModified ==
    /\ child = "up"
    /\ lpc = "check"
    /\ IF s_file2modifytime = st
       THEN lpc' = "idle" /\ UNCHANGED s_file2modifytime
       ELSE lpc' = "load" /\ s_file2modifytime' = st
    /\ UNCHANGED <<fileVars, daemonVars, child, valueVars, st, todo>>

\* YAML::LoadFile; an exception is caught and ends the file.
LoadFile ==
    /\ child = "up"
    /\ lpc = "load"
    /\ IF content = Broken
       THEN lpc' = "idle" /\ UNCHANGED todo
       ELSE lpc' = "apply" /\ todo' = ListAllMember(content)
    /\ UNCHANGED <<fileVars, daemonVars, child, valueVars, s_file2modifytime, st>>

\* Mutant: the time stamp is taken and recorded when the file has been loaded.
LoadDoneRecords ==
    /\ child = "up"
    /\ lpc = "apply"
    /\ todo = <<>>
    /\ lpc' = "idle"
    /\ s_file2modifytime' = st_mtime
    /\ UNCHANGED <<fileVars, daemonVars, child, valueVars, st, todo>>

\* LoadFromYaml at the end of its list.
LoadDone ==
    /\ child = "up"
    /\ lpc = "apply"
    /\ todo = <<>>
    /\ lpc' = "idle"
    /\ UNCHANGED <<fileVars, daemonVars, child, valueVars, s_file2modifytime, st, todo>>

\* An entry without a variable, with a text that fromString cannot convert, or with
\* the value the variable has, is passed over.
PassesOver(e) == e[1] \in Vars /\ Converts(e[2]) => FromStr(e[2]) = m_val[e[1]]

\* Mutant: the exception of a text that cannot be converted ends the load of the file.
SkipAbandons ==
    /\ child = "up"
    /\ lpc = "apply"
    /\ setting[Loader] = NoCall
    /\ todo # <<>>
    /\ PassesOver(Head(todo))
    /\ todo' = IF Converts(Head(todo)[2]) THEN Tail(todo) ELSE <<>>
    /\ UNCHANGED <<fileVars, daemonVars, child, valueVars, s_file2modifytime, lpc, st>>

Skip ==
    /\ child = "up"
    /\ lpc = "apply"
    /\ setting[Loader] = NoCall
    /\ todo # <<>>
    /\ PassesOver(Head(todo))
    /\ todo' = Tail(todo)
    /\ UNCHANGED <<fileVars, daemonVars, child, valueVars, s_file2modifytime, lpc, st>>
-----------------------------------------------------------------------------
(* setValue, by LoadFromYaml and by the program.                           *)

\* The threads between the callbacks and the assignment.
Pending(name) == {t \in Threads : setting[t] # NoCall /\ setting[t][1] = name}

\* Mutant: the listeners get the old value.
NotifyOld(name, v) == copies' = [copies EXCEPT ![name] = m_val[name]]

\* The callbacks of the variable's listeners.
Notify(name, v) == copies' = [copies EXCEPT ![name] = v]

\* Under the read lock: another value, and the listeners are told.
setValue(t, name, v) ==
    /\ child = "up"
    /\ setting[t] = NoCall
    /\ v # m_val[name]
    /\ Notify(name, v)
    /\ setting' = [setting EXCEPT ![t] = <<name, v>>]
    /\ mixed' = IF Pending(name) = {} THEN mixed \ {name} ELSE mixed \cup {name}
    /\ UNCHANGED <<fileVars, daemonVars, child, m_val, loadVars>>

\* The same, of the entry that is being loaded.
fromString ==
    /\ lpc = "apply"
    /\ todo # <<>>
    /\ LET e == Head(todo)
       IN  e[1] \in Vars /\ Converts(e[2]) /\ setValue(Loader, e[1], FromStr(e[2]))

\* Under the write lock; LoadFromYaml goes on to its next entry.
assign(t) ==
    /\ child = "up"
    /\ setting[t] # NoCall
    /\ m_val' = [m_val EXCEPT ![setting[t][1]] = setting[t][2]]
    /\ setting' = [setting EXCEPT ![t] = NoCall]
    /\ todo' = IF t = Loader THEN Tail(todo) ELSE todo
    /\ UNCHANGED <<fileVars, daemonVars, child, copies, mixed, s_file2modifytime, lpc, st>>
-----------------------------------------------------------------------------
Daemon == fork \/ forkFails \/ waitpid \/ sleep \/ ChildEnds

\* What a call of LoadFromConfDir does for the file once it has looked at it.
LoadOn == checkModified \/ LoadFile \/ LoadDone \/ Skip \/ fromString \/ assign(Loader)

Program ==
    \E t \in Callers : assign(t) \/ \E name \in Direct, v \in Value : setValue(t, name, v)

Next == Daemon \/ (\E c \in Contents : Edit(c)) \/ lstat \/ LoadOn \/ Program

(***************************************************************************)
(* A call of LoadFromConfDir comes to its end.  Nobody has to make one, to *)
(* edit the file or to set a variable, and no process has to end.          *)
(***************************************************************************)
Spec == Init /\ [][Next]_vars /\ WF_vars(LoadOn)
-----------------------------------------------------------------------------
(* Properties.                                                             *)

\* The entries of a file that reach a variable, and the value the last one leaves.
Effective(c, name) ==
    {i \in DOMAIN ListAllMember(c) :
        LET e == ListAllMember(c)[i] IN e[1] = name /\ Converts(e[2])}
Wanted(c, name) == FromStr(ListAllMember(c)[Max(Effective(c, name))][2])

\* Values and copies are numbers of the variable's type, and a process is there only
\* while its parent waits for it.
ConfigTypeOK ==
    /\ m_val \in [Vars -> Value]
    /\ copies \in [Vars -> Value]
    /\ setting \in [Threads -> {NoCall} \cup (Vars \X Value)]
    /\ s_file2modifytime \in 0..(MaxEdits + 1)
    /\ s_file2modifytime <= st_mtime
    /\ parent \in {"fork", "waitpid", "sleep", "returned"}
    /\ restart_count \in 0..MaxRestarts
    /\ child # "none" => parent = "waitpid"

\* setValue calls the listeners and assigns under different locks.  When no call is
\* under way, a listener's copy agrees with the variable unless the last call began
\* while another one had notified and not assigned; a call that overlaps no other
\* makes them agree again.
CopiesAgree ==
    \A name \in Vars :
        copies[name] # m_val[name] => Pending(name) # {} \/ name \in mixed

\* A time stamp that is recorded stands for a file that has been loaded: an edit
\* between lstat, the record and the read is not taken for the old file.  Of the
\* variables that only files set.
RecordedMeansLoaded ==
    child = "up" /\ lpc = "idle" /\ s_file2modifytime = st_mtime /\ content # Broken
    => \A name \in Vars \ Direct :
          Effective(content, name) # {} => m_val[name] = Wanted(content, name)

\* A call of LoadFromConfDir that has seen the file as it is ends with each variable
\* at the value the file gives it, whether or not the call reads the file again,
\* unless the file is edited or the process ends meanwhile.  Of the names that
\* ListAllMember lets pass, and of variables that only files set.
LoadTakesEffect ==
    \A c \in Contents \ {Broken} : \A name \in Vars \ Direct :
        Effective(c, name) # {} =>
            ((child = "up" /\ lpc = "check" /\ st = st_mtime /\ content = c)
             ~> \/ lpc = "idle" /\ m_val[name] = Wanted(c, name)
                \/ content # c
                \/ child # "up")
=============================================================================
