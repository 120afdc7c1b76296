---------------------------- MODULE ConfigProofs ----------------------------
(***************************************************************************)
(* ConfigTypeOK, CopiesAgree and RecordedMeansLoaded of Config, for any    *)
(* variables, any files, any threads that set variables and any numbers of *)
(* edits and restarts.                                                     *)
(*                                                                         *)
(* None is inductive.  setValue is two steps, so between them the value    *)
(* that is to be assigned must be the one the listeners were told, and     *)
(* nobody else may be between them if the calls did not overlap (Agreed);  *)
(* what LoadFromYaml assigns must be the entry it has come to, and the     *)
(* program's own threads leave the other variables alone (Calls).  A       *)
(* recorded time stamp says nothing until the list is empty: while it is   *)
(* applied, what is left of it must be the end of the file with that time  *)
(* stamp, and every variable whose last entry lies before that end must    *)
(* already hold it (Recorded).  The clock carries the argument: an edit    *)
(* makes st_mtime larger than every time stamp that lstat has returned.    *)
(***************************************************************************)
EXTENDS Config, WellFoundedInduction, TLAPS

Entry == Listed \X (Int \cup {BadText})

Shape ==
    /\ content \in {<<>>} \cup Contents
    /\ st_mtime \in 1..(MaxEdits + 1)
    /\ st \in 0..st_mtime
    /\ m_val \in [Vars -> Value]
    /\ copies \in [Vars -> Value]
    /\ s_file2modifytime \in 0..st_mtime
    /\ setting \in [Threads -> {NoCall} \cup (Vars \X Value)]
    /\ lpc \in {"idle", "check", "load", "apply"}
    /\ todo \in Seq(Entry)

Supervised ==
    /\ parent \in {"fork", "waitpid", "sleep", "returned"}
    /\ child \in {"none", "up", "crashed", "finished"}
    /\ child # "none" => parent = "waitpid"
    /\ restart_count \in 0..MaxRestarts
    /\ child = "crashed" => restart_count < MaxRestarts

\* Who is about to assign what.
Calls ==
    /\ \A t \in Callers : setting[t] # NoCall => setting[t][1] \in Direct
    /\ setting[Loader] # NoCall =>
          /\ lpc = "apply" /\ todo # <<>>
          /\ Head(todo)[1] \in Vars
          /\ Converts(Head(todo)[2])
          /\ setting[Loader] = <<Head(todo)[1], FromStr(Head(todo)[2])>>

\* A variable whose calls did not overlap has one call under way at most, and its
\* listener has the value of that call, or of the variable if there is none.
Agreed ==
    \A name \in Vars : name \notin mixed =>
        /\ \A t, u \in Pending(name) : t = u
        /\ \A t \in Pending(name) : copies[name] = setting[t][2]
        /\ Pending(name) = {} => copies[name] = m_val[name]

\* The list of the file.
File == ListAllMember(content)

\* The last of a file's entries that reach a variable.
Decides(i, name) ==
    /\ i \in Effective(content, name)
    /\ \A j \in Effective(content, name) : j <= i

\* The variables decided by the first n entries hold their values.
LoadedTo(n) ==
    \A name \in Vars \ Direct : \A i \in 1..n :
        Decides(i, name) => m_val[name] = FromStr(File[i][2])

\* The rest of the list is the end of the file.
EndOfFile ==
    /\ Len(todo) <= Len(File)
    /\ \A i \in 1..Len(todo) : todo[i] = File[Len(File) - Len(todo) + i]

Recorded ==
    s_file2modifytime = st_mtime /\ content # Broken =>
        /\ lpc \in {"idle", "check"} => LoadedTo(Len(File))
        /\ lpc = "apply" => EndOfFile /\ LoadedTo(Len(File) - Len(todo))

ConfigInv == Shape /\ Supervised /\ Calls /\ Agreed /\ Recorded
-----------------------------------------------------------------------------
(* Numbers and lists.                                                      *)

\* A set of natural numbers that is not empty has a least element.
LEMMA LeastNumber ==
    ASSUME NEW S, S \subseteq Nat, S # {}
    PROVE  \E n \in S : \A m \in S : n <= m
<1> DEFINE Less == {pair \in Nat \X Nat : pair[1] < pair[2]}
<1>1. IsWellFoundedOn(Less, Nat) BY NatLessThanWellFounded DEF OpToRel
<1>2. \A x, y \in Nat : <<y, x>> \in Less <=> y < x OBVIOUS
<1> HIDE DEF Less
<1>3. PICK n \in S : \A m \in S : <<m, n>> \notin Less BY <1>1, WFMin
<1>4. \A m \in S : ~(m < n) BY <1>2, <1>3
<1> QED BY <1>4

\* A set of positions has a last one, so Max is defined.
LEMMA LastPosition ==
    ASSUME NEW n \in Nat, NEW S, S \subseteq 1..n, S # {}
    PROVE  Max(S) \in S /\ \A j \in S : j <= Max(S)
<1> DEFINE Back == {n - i : i \in S}
<1>1. Back \subseteq Nat /\ Back # {}
  <2>1. \A i \in S : n - i \in Nat OBVIOUS
  <2>2. PICK i \in S : TRUE OBVIOUS
  <2>3. n - i \in Back OBVIOUS
  <2> QED BY <2>1, <2>3
<1>2. PICK b \in Back : \A m \in Back : b <= m BY <1>1, LeastNumber
<1>3. PICK i \in S : b = n - i OBVIOUS
<1>4. \A j \in S : i >= j
  <2> TAKE j \in S
  <2>1. b <= n - j BY <1>2
  <2> QED BY <1>3, <2>1
<1>5. Max(S) \in S /\ \A j \in S : Max(S) >= j BY <1>4 DEF Max
<1> QED BY <1>5

\* lexical_cast gives a value of the variable's type.
LEMMA FromStrType ==
    ASSUME NEW text \in Int \cup {BadText}, Converts(text)
    PROVE  FromStr(text) \in Value
<1>1. text \in Int BY DEF Converts
<1> QED BY <1>1, ConfigAssumption DEF FromStr, Value

\* A file that can be read is a list of entries.
LEMMA FileType ==
    ASSUME Shape, content # Broken
    PROVE  File \in Seq(Entry)
BY ContentsAssumption DEF Shape, File, Entry

\* The list without its head.
LEMMA TailType ==
    ASSUME NEW s \in Seq(Entry), s # <<>>
    PROVE  /\ Tail(s) \in Seq(Entry)
           /\ Len(s) \in Nat \ {0}
           /\ Len(Tail(s)) = Len(s) - 1
           /\ \A i \in 1..Len(Tail(s)) : Tail(s)[i] = s[i + 1]
           /\ Head(s) = s[1] /\ Head(s) \in Entry
OBVIOUS

\* A process starts with nothing loaded, nothing set and no file recorded.
LEMMA ConfigInit == Init => ConfigInv
<1> SUFFICES ASSUME Init PROVE ConfigInv OBVIOUS
<1>1. Shape BY ConfigAssumption DEF Init, Shape
<1>2. Supervised /\ Recorded BY ConfigAssumption DEF Init, Supervised, Recorded
<1>3. \A t \in Threads : setting[t] = NoCall BY DEF Init
<1>4. Calls BY <1>3 DEF Calls, Threads
<1>5. Agreed BY <1>3 DEF Init, Agreed, Pending
<1> QED BY <1>1, <1>2, <1>4, <1>5 DEF ConfigInv
-----------------------------------------------------------------------------
(* The process and its supervisor.                                         *)

\* The calls of setValue are the same if no variable changes.
LEMMA CallsFrame ==
    ASSUME Agreed, UNCHANGED valueVars
    PROVE  Agreed'
BY DEF Agreed, Pending, valueVars

\* What the load has done is the same if the file, the load and the variables that
\* only files set do not change.
LEMMA RecordedFrame ==
    ASSUME Recorded, UNCHANGED <<fileVars, loadVars>>,
           \A name \in Vars \ Direct : m_val'[name] = m_val[name]
    PROVE  Recorded'
BY DEF Recorded, LoadedTo, EndOfFile, Decides, File, fileVars, loadVars

\* All of it is the same if only the processes change.
LEMMA LoadFrame ==
    ASSUME Shape, Calls, Agreed, Recorded, UNCHANGED <<fileVars, valueVars, loadVars>>
    PROVE  Shape' /\ Calls' /\ Agreed' /\ Recorded'
<1>1. Shape' /\ Calls' BY DEF Shape, Calls, fileVars, valueVars, loadVars
<1>2. Recorded' BY RecordedFrame DEF valueVars
<1> QED BY <1>1, <1>2, CallsFrame

\* fork, waitpid and the rest of real_deamon keep the invariant.
LEMMA DaemonKeeps ==
    ASSUME ConfigInv, Daemon
    PROVE  ConfigInv'
<1> USE DEF ConfigInv
<1>1. CASE fork
  <2>1. Shape' BY <1>1, ConfigAssumption DEF fork, Shape, fileVars
  <2>2. Supervised' BY <1>1 DEF fork, Supervised
  <2>3. \A t \in Threads : setting'[t] = NoCall BY <1>1 DEF fork
  <2>4. Calls' BY <2>3 DEF Calls, Threads
  <2>5. Agreed' BY <1>1, <2>3 DEF fork, Agreed, Pending
  <2>6. s_file2modifytime' # st_mtime' BY <1>1 DEF fork, Shape, fileVars
  <2> QED BY <2>1, <2>2, <2>4, <2>5, <2>6 DEF Recorded
<1>2. CASE waitpid
  <2>1. Supervised' BY <1>2, ConfigAssumption DEF waitpid, Supervised
  <2> QED BY <1>2, <2>1, LoadFrame DEF waitpid
<1>3. CASE sleep \/ forkFails \/ ChildEnds
  <2>1. Supervised' BY <1>3 DEF sleep, forkFails, ChildEnds, daemonVars, Supervised
  <2> QED BY <1>3, <2>1, LoadFrame DEF sleep, forkFails, ChildEnds
<1> QED BY <1>1, <1>2, <1>3 DEF Daemon

\* An edit makes every time stamp taken so far an old one.
LEMMA EditKeeps ==
    ASSUME ConfigInv, NEW c \in Contents, Edit(c)
    PROVE  ConfigInv'
<1> USE DEF ConfigInv
<1>1. Shape' BY ConfigAssumption DEF Edit, Shape, valueVars, loadVars
<1>2. Supervised' BY DEF Edit, Supervised, daemonVars
<1>3. Calls' BY DEF Edit, Calls, valueVars, loadVars
<1>4. Agreed' BY CallsFrame DEF Edit
<1>5. s_file2modifytime' # st_mtime' BY DEF Edit, Shape, loadVars
<1> QED BY <1>1, <1>2, <1>3, <1>4, <1>5 DEF Recorded
-----------------------------------------------------------------------------
(* LoadFromConfDir.                                                        *)

\* Up to the read of the file, and after the last entry.
LEMMA OutsideKeeps ==
    ASSUME ConfigInv, lstat \/ checkModified \/ LoadFile \/ LoadDone
    PROVE  ConfigInv'
<1> USE DEF ConfigInv, fileVars, daemonVars, valueVars
<1>1. Supervised' BY DEF lstat, checkModified, LoadFile, LoadDone, Supervised
<1>2. Agreed' BY CallsFrame DEF lstat, checkModified, LoadFile, LoadDone
<1>3. Calls' BY DEF lstat, checkModified, LoadFile, LoadDone, Calls
<1>4. CASE lstat
  <2>1. Shape' BY <1>4 DEF lstat, Shape
  <2>2. Recorded'
    BY <1>4 DEF lstat, Recorded, LoadedTo, EndOfFile, Decides, File
  <2> QED BY <1>1, <1>2, <1>3, <2>1, <2>2
<1>5. CASE checkModified
  <2>1. Shape' BY <1>5 DEF checkModified, Shape
  <2>2. Recorded'
    BY <1>5 DEF checkModified, Recorded, LoadedTo, EndOfFile, Decides, File
  <2> QED BY <1>1, <1>2, <1>3, <2>1, <2>2
<1>6. CASE LoadFile
  <2>1. CASE content = Broken
    <3>1. Shape' BY <1>6, <2>1 DEF LoadFile, Shape
    <3>2. Recorded' BY <1>6, <2>1 DEF LoadFile, Recorded
    <3> QED BY <1>1, <1>2, <1>3, <3>1, <3>2
  <2>2. CASE content # Broken
    <3>1. File \in Seq(Entry) BY <2>2, FileType
    <3>2. todo' = File /\ lpc' = "apply" /\ File' = File
      BY <1>6, <2>2 DEF LoadFile, File
    <3>3. Shape' BY <1>6, <3>1, <3>2 DEF LoadFile, Shape
    <3>4. EndOfFile' BY <3>1, <3>2 DEF EndOfFile
    <3>5. LoadedTo(Len(File) - Len(todo))' BY <3>1, <3>2 DEF LoadedTo
    <3>6. Recorded' BY <3>2, <3>4, <3>5 DEF Recorded
    <3> QED BY <1>1, <1>2, <1>3, <3>3, <3>6
  <2> QED BY <2>1, <2>2
<1>7. CASE LoadDone
  <2>1. Shape' BY <1>7 DEF LoadDone, Shape
  <2>2. ASSUME s_file2modifytime = st_mtime, content # Broken
        PROVE  LoadedTo(Len(File))
    <3>1. LoadedTo(Len(File) - Len(todo)) BY <1>7, <2>2 DEF LoadDone, Recorded
    <3>2. Len(todo) = 0 /\ Len(File) \in Nat BY <1>7, <2>2, FileType DEF LoadDone
    <3> QED BY <3>1, <3>2
  <2>3. UNCHANGED <<content, st_mtime, s_file2modifytime, m_val>> /\ lpc' = "idle"
    BY <1>7 DEF LoadDone
  <2>4. Recorded' BY <2>2, <2>3 DEF Recorded, LoadedTo, Decides, File
  <2> QED BY <1>1, <1>2, <1>3, <2>1, <2>4
<1> QED BY <1>4, <1>5, <1>6, <1>7

\* An entry that is passed, or assigned, leaves the variables it decides with their
\* values: only an entry that reaches a variable changes it, and the deciding entry
\* is the last of those.
LEMMA EntryKeeps ==
    ASSUME Shape, Shape', content # Broken, EndOfFile, todo # <<>>,
           LoadedTo(Len(File) - Len(todo)),
           UNCHANGED content, todo' = Tail(todo),
           \A name \in Vars \ Direct :
               IF Head(todo)[1] = name /\ Converts(Head(todo)[2])
               THEN m_val'[name] = FromStr(Head(todo)[2])
               ELSE m_val'[name] = m_val[name]
    PROVE  EndOfFile' /\ LoadedTo(Len(File) - Len(todo))'
<1> DEFINE n == Len(File) - Len(todo)
<1>1. File \in Seq(Entry) /\ Len(File) \in Nat BY FileType
<1>2. /\ todo' \in Seq(Entry)
      /\ Len(todo) \in Nat \ {0}
      /\ Len(todo') = Len(todo) - 1
      /\ \A i \in 1..Len(todo') : todo'[i] = todo[i + 1]
      /\ Head(todo) = todo[1]
  BY TailType DEF Shape
<1>3. File' = File BY DEF File
<1>4. \A i, name : Decides(i, name)' <=> Decides(i, name) BY DEF Decides
<1>5. n \in Nat /\ Len(File') - Len(todo') = n + 1 BY <1>1, <1>2, <1>3 DEF EndOfFile
<1>6. EndOfFile' BY <1>1, <1>2, <1>3 DEF EndOfFile
<1>7. Head(todo) = File[n + 1]
  <2>1. 1 \in 1..Len(todo) BY <1>2
  <2> QED BY <1>2, <2>1 DEF EndOfFile
<1>8. n + 1 \in 1..Len(File) BY <1>1, <1>2, <1>5 DEF EndOfFile
<1>9. \A name : name = Head(todo)[1] /\ Converts(Head(todo)[2])
                <=> n + 1 \in Effective(content, name)
  BY <1>1, <1>7, <1>8 DEF Effective, File
<1> HIDE DEF n
<1>10. ASSUME NEW name \in Vars \ Direct, NEW i \in 1..(n + 1), Decides(i, name)
       PROVE  m_val'[name] = FromStr(File[i][2])
  <2>1. CASE i = n + 1
    <3>1. name = Head(todo)[1] /\ Converts(Head(todo)[2])
      BY <1>9, <1>10, <2>1 DEF Decides
    <3> QED BY <1>7, <2>1, <3>1
  <2>2. CASE i # n + 1
    <3>1. i \in 1..n /\ ~(n + 1 <= i) BY <1>5, <2>2
    <3>2. n + 1 \notin Effective(content, name) BY <1>10, <3>1 DEF Decides
    <3>3. m_val'[name] = m_val[name] BY <1>9, <3>2
    <3> QED BY <1>10, <3>1, <3>3 DEF LoadedTo, n
  <2> QED BY <2>1, <2>2
<1>11. LoadedTo(Len(File) - Len(todo))' BY <1>3, <1>4, <1>5, <1>10 DEF LoadedTo
<1> QED BY <1>6, <1>11

\* Passing over an entry keeps the invariant.
LEMMA SkipKeeps ==
    ASSUME ConfigInv, Skip
    PROVE  ConfigInv'
<1> USE DEF ConfigInv, fileVars, daemonVars, valueVars
<1>1. Supervised' BY DEF Skip, Supervised
<1>2. Tail(todo) \in Seq(Entry) BY TailType DEF Skip, Shape
<1>3. Shape' BY <1>2 DEF Skip, Shape
<1>4. Calls' BY DEF Skip, Calls
<1>5. Agreed' BY CallsFrame DEF Skip
<1>6. \A name \in Vars \ Direct :
         IF Head(todo)[1] = name /\ Converts(Head(todo)[2])
         THEN m_val'[name] = FromStr(Head(todo)[2])
         ELSE m_val'[name] = m_val[name]
  BY DEF Skip, PassesOver
<1>7. ASSUME s_file2modifytime = st_mtime, content # Broken
      PROVE  EndOfFile' /\ LoadedTo(Len(File) - Len(todo))'
  <2>1. EndOfFile /\ LoadedTo(Len(File) - Len(todo)) BY <1>7 DEF Skip, Recorded
  <2>2. UNCHANGED content /\ todo # <<>> /\ todo' = Tail(todo) BY DEF Skip
  <2> QED BY <1>3, <1>6, <1>7, <2>1, <2>2, EntryKeeps
<1>8. Recorded' BY <1>7 DEF Skip, Recorded
<1> QED BY <1>1, <1>3, <1>4, <1>5, <1>8
-----------------------------------------------------------------------------
(* setValue.                                                               *)

\* The callbacks of a call, from any thread.
LEMMA NotifyKeeps ==
    ASSUME ConfigInv, NEW t \in Threads, NEW name \in Vars, NEW v \in Value,
           setValue(t, name, v)
    PROVE  Shape' /\ Supervised' /\ Agreed' /\ Recorded'
<1> USE DEF ConfigInv
<1>1. /\ setting[t] = NoCall
      /\ copies' = [copies EXCEPT ![name] = v]
      /\ setting' = [setting EXCEPT ![t] = <<name, v>>]
      /\ mixed' = IF Pending(name) = {} THEN mixed \ {name} ELSE mixed \cup {name}
      /\ UNCHANGED <<fileVars, daemonVars, child, m_val, loadVars>>
  BY DEF setValue, Notify
<1>2. Shape' BY <1>1 DEF Shape, fileVars, loadVars
<1>3. Supervised' BY <1>1 DEF Supervised, daemonVars
<1>4. Recorded' BY <1>1, RecordedFrame
<1>5. <<name, v>> # NoCall BY ConfigAssumption
<1>6. /\ setting'[t] = <<name, v>>
      /\ \A u \in Threads : u # t => setting'[u] = setting[u]
      /\ copies'[name] = v
      /\ \A n \in Vars : n # name => copies'[n] = copies[n]
  BY <1>1 DEF Shape
<1>7. Pending(name)' = Pending(name) \cup {t} BY <1>1, <1>5, <1>6 DEF Pending
<1>8. \A n \in Vars : n # name => Pending(n)' = Pending(n) BY <1>1, <1>6 DEF Pending
<1>9. ASSUME NEW n \in Vars, n \notin mixed'
      PROVE  /\ \A u, w \in Pending(n)' : u = w
             /\ \A u \in Pending(n)' : copies'[n] = setting'[u][2]
             /\ Pending(n)' = {} => copies'[n] = m_val'[n]
  <2>1. CASE n = name
    <3>1. Pending(name) = {} BY <1>1, <1>9, <2>1
    <3>2. Pending(name)' = {t} BY <1>7, <3>1
    <3> QED BY <1>6, <2>1, <3>2
  <2>2. CASE n # name
    <3>1. n \notin mixed BY <1>1, <1>9, <2>2
    <3>2. Pending(n)' = Pending(n) /\ copies'[n] = copies[n] BY <1>6, <1>8, <2>2
    <3>3. \A u \in Pending(n) : u # t /\ u \in Threads BY <1>1 DEF Pending
    <3> QED BY <1>1, <1>6, <3>1, <3>2, <3>3 DEF Agreed
  <2> QED BY <2>1, <2>2
<1>10. Agreed' BY <1>9 DEF Agreed
<1> QED BY <1>2, <1>3, <1>4, <1>10

\* A call by LoadFromYaml, of the entry it has come to.
LEMMA LoaderNotifies ==
    ASSUME ConfigInv, fromString
    PROVE  ConfigInv'
<1> USE DEF ConfigInv
<1> DEFINE e == Head(todo)
<1>1. lpc = "apply" /\ todo # <<>> BY DEF fromString
<1>2. e \in Entry BY <1>1, TailType DEF Shape
<1>3. e[2] \in Int \cup {BadText} BY <1>2 DEF Entry
<1>4. e[1] \in Vars /\ Converts(e[2]) /\ setValue(Loader, e[1], FromStr(e[2]))
  BY DEF fromString
<1>5. FromStr(e[2]) \in Value BY <1>3, <1>4, FromStrType
<1>6. Loader \in Threads BY DEF Threads
<1>7. Shape' /\ Supervised' /\ Agreed' /\ Recorded' BY <1>4, <1>5, <1>6, NotifyKeeps
<1> HIDE DEF e
<1>8. /\ setting' = [setting EXCEPT ![Loader] = <<e[1], FromStr(e[2])>>]
      /\ UNCHANGED <<lpc, todo>>
  BY <1>4 DEF setValue, loadVars
<1>9. \A t \in Callers : setting'[t] = setting[t]
  BY <1>8, ConfigAssumption DEF Shape, Threads
<1>10. setting'[Loader] = <<e[1], FromStr(e[2])>> BY <1>6, <1>8 DEF Shape
<1>11. Calls' BY <1>1, <1>4, <1>8, <1>9, <1>10 DEF Calls, e
<1> QED BY <1>7, <1>11

\* A call by the program, of a variable it sets itself.
LEMMA CallerNotifies ==
    ASSUME ConfigInv, NEW t \in Callers, NEW name \in Direct, NEW v \in Value,
           setValue(t, name, v)
    PROVE  ConfigInv'
<1> USE DEF ConfigInv
<1>1. t \in Threads /\ name \in Vars /\ t # Loader BY ConfigAssumption DEF Threads
<1>2. Shape' /\ Supervised' /\ Agreed' /\ Recorded' BY <1>1, NotifyKeeps
<1>3. /\ setting' = [setting EXCEPT ![t] = <<name, v>>]
      /\ UNCHANGED <<lpc, todo>>
  BY DEF setValue, loadVars
<1>4. /\ setting'[Loader] = setting[Loader]
      /\ setting'[t] = <<name, v>>
      /\ \A u \in Callers : u # t => setting'[u] = setting[u]
  BY <1>1, <1>3 DEF Shape, Threads
<1>5. Calls' BY <1>3, <1>4 DEF Calls
<1> QED BY <1>2, <1>5

\* The assignment keeps what is known of the listeners.
LEMMA AssignKeepsAgreed ==
    ASSUME ConfigInv, NEW t \in Threads, assign(t)
    PROVE  /\ Agreed'
           /\ setting[t] \in Vars \X Value
           /\ m_val' = [m_val EXCEPT ![setting[t][1]] = setting[t][2]]
           /\ m_val' \in [Vars -> Value]
           /\ setting' \in [Threads -> {NoCall} \cup (Vars \X Value)]
           /\ setting'[t] = NoCall
           /\ \A u \in Threads : u # t => setting'[u] = setting[u]
<1> USE DEF ConfigInv
<1>1. /\ setting[t] # NoCall
      /\ m_val' = [m_val EXCEPT ![setting[t][1]] = setting[t][2]]
      /\ setting' = [setting EXCEPT ![t] = NoCall]
      /\ UNCHANGED <<copies, mixed>>
  BY DEF assign
<1>2. setting[t] \in Vars \X Value BY <1>1 DEF Shape
<1>3. PICK name \in Vars, v \in Value : setting[t] = <<name, v>> BY <1>2
<1>4. /\ m_val'[name] = v
      /\ \A n \in Vars : n # name => m_val'[n] = m_val[n]
      /\ m_val' \in [Vars -> Value]
  BY <1>1, <1>3 DEF Shape
<1>5. /\ setting'[t] = NoCall
      /\ \A u \in Threads : u # t => setting'[u] = setting[u]
      /\ setting' \in [Threads -> {NoCall} \cup (Vars \X Value)]
  BY <1>1 DEF Shape
<1>6. t \in Pending(name) BY <1>1, <1>3 DEF Pending
<1>7. Pending(name)' = Pending(name) \ {t} BY <1>5 DEF Pending
<1>8. \A n \in Vars : n # name => Pending(n)' = Pending(n) BY <1>3, <1>5 DEF Pending
<1>9. ASSUME NEW n \in Vars, n \notin mixed
      PROVE  /\ \A u, w \in Pending(n)' : u = w
             /\ \A u \in Pending(n)' : copies[n] = setting'[u][2]
             /\ Pending(n)' = {} => copies[n] = m_val'[n]
  <2>1. CASE n = name
    <3>1. copies[name] = v BY <1>3, <1>6, <1>9, <2>1 DEF Agreed
    <3>2. Pending(name)' = {} BY <1>6, <1>7, <1>9, <2>1 DEF Agreed
    <3> QED BY <1>4, <2>1, <3>1, <3>2
  <2>2. CASE n # name
    <3>1. Pending(n)' = Pending(n) /\ m_val'[n] = m_val[n] BY <1>4, <1>8, <2>2
    <3>2. \A u \in Pending(n) : u # t /\ u \in Threads BY <1>3, <2>2 DEF Pending
    <3> QED BY <1>5, <1>9, <3>1, <3>2 DEF Agreed
  <2> QED BY <2>1, <2>2
<1>10. Agreed' BY <1>1, <1>9 DEF Agreed
<1> QED BY <1>1, <1>2, <1>4, <1>5, <1>10

\* The assignment of an entry: LoadFromYaml goes on.
LEMMA LoaderAssigns ==
    ASSUME ConfigInv, assign(Loader)
    PROVE  ConfigInv'
<1> USE DEF ConfigInv
<1> DEFINE e == Head(todo)
<1>1. Loader \in Threads BY DEF Threads
<1>2. /\ Agreed'
      /\ setting[Loader] \in Vars \X Value
      /\ m_val' = [m_val EXCEPT ![setting[Loader][1]] = setting[Loader][2]]
      /\ m_val' \in [Vars -> Value]
      /\ setting' \in [Threads -> {NoCall} \cup (Vars \X Value)]
      /\ setting'[Loader] = NoCall
      /\ \A u \in Threads : u # Loader => setting'[u] = setting[u]
  BY <1>1, AssignKeepsAgreed
<1>3. /\ lpc = "apply" /\ todo # <<>>
      /\ e[1] \in Vars /\ Converts(e[2])
      /\ setting[Loader] = <<e[1], FromStr(e[2])>>
  BY DEF assign, Calls
<1>4. /\ todo' = Tail(todo)
      /\ UNCHANGED <<content, st_mtime, parent, restart_count, child, copies>>
      /\ UNCHANGED <<s_file2modifytime, lpc, st>>
  BY DEF assign, fileVars, daemonVars
<1>5. Tail(todo) \in Seq(Entry) BY <1>3, TailType DEF Shape
<1> HIDE DEF e
<1>6. Shape' BY <1>2, <1>4, <1>5 DEF Shape
<1>7. Supervised' BY <1>4 DEF Supervised
<1>8. Calls' BY <1>2, ConfigAssumption DEF Calls, Threads
<1>9. m_val' = [m_val EXCEPT ![e[1]] = FromStr(e[2])] BY <1>2, <1>3
<1>10. m_val \in [Vars -> Value] BY DEF Shape
<1>11. \A name \in Vars \ Direct :
          IF Head(todo)[1] = name /\ Converts(Head(todo)[2])
          THEN m_val'[name] = FromStr(Head(todo)[2])
          ELSE m_val'[name] = m_val[name]
  BY <1>3, <1>9, <1>10 DEF e
<1>12. ASSUME s_file2modifytime = st_mtime, content # Broken
       PROVE  EndOfFile' /\ LoadedTo(Len(File) - Len(todo))'
  <2>1. EndOfFile /\ LoadedTo(Len(File) - Len(todo)) BY <1>3, <1>12 DEF Recorded
  <2> QED BY <1>3, <1>4, <1>6, <1>11, <1>12, <2>1, EntryKeeps
<1>13. Recorded' BY <1>3, <1>4, <1>12 DEF Recorded
<1> QED BY <1>2, <1>6, <1>7, <1>8, <1>13

\* The assignment of a thread of the program: no file speaks for its variable.
LEMMA CallerAssigns ==
    ASSUME ConfigInv, NEW t \in Callers, assign(t)
    PROVE  ConfigInv'
<1> USE DEF ConfigInv
<1>1. t \in Threads /\ t # Loader /\ Loader \in Threads BY ConfigAssumption DEF Threads
<1>2. /\ Agreed'
      /\ setting[t] \in Vars \X Value
      /\ m_val' = [m_val EXCEPT ![setting[t][1]] = setting[t][2]]
      /\ m_val' \in [Vars -> Value]
      /\ setting' \in [Threads -> {NoCall} \cup (Vars \X Value)]
      /\ setting'[t] = NoCall
      /\ \A u \in Threads : u # t => setting'[u] = setting[u]
  BY <1>1, AssignKeepsAgreed
<1>3. setting[t][1] \in Direct BY DEF assign, Calls
<1>4. UNCHANGED <<fileVars, daemonVars, child, copies, loadVars>>
  BY <1>1 DEF assign, loadVars
<1>5. Shape' BY <1>2, <1>4 DEF Shape, fileVars, loadVars
<1>6. Supervised' BY <1>4 DEF Supervised, daemonVars
<1>7. \A u \in Callers : setting'[u] = NoCall \/ setting'[u] = setting[u]
  BY <1>2 DEF Threads
<1>8. setting'[Loader] = setting[Loader] BY <1>1, <1>2
<1>9. Calls' BY <1>4, <1>7, <1>8 DEF Calls, loadVars
<1>10. m_val \in [Vars -> Value] BY DEF Shape
<1>11. \A name \in Vars \ Direct : m_val'[name] = m_val[name] BY <1>2, <1>3, <1>10
<1>12. Recorded' BY <1>4, <1>11, RecordedFrame
<1> QED BY <1>2, <1>5, <1>6, <1>9, <1>12
-----------------------------------------------------------------------------
(* Theorems.                                                               *)

\* Every step of the processes, the editor, the load and the program keeps the
\* invariant.
LEMMA ConfigStep == ConfigInv /\ [Next]_vars => ConfigInv'
<1> SUFFICES ASSUME ConfigInv, [Next]_vars PROVE ConfigInv' OBVIOUS
<1>1. CASE Daemon BY <1>1, DaemonKeeps
<1>2. CASE \E c \in Contents : Edit(c) BY <1>2, EditKeeps
<1>3. CASE lstat \/ LoadOn
  BY <1>3, OutsideKeeps, SkipKeeps, LoaderNotifies, LoaderAssigns DEF LoadOn
<1>4. CASE Program BY <1>4, CallerNotifies, CallerAssigns DEF Program
<1>5. CASE UNCHANGED vars
  <2>1. Supervised' BY <1>5 DEF vars, daemonVars, ConfigInv, Supervised
  <2> QED BY <1>5, <2>1, LoadFrame DEF vars, ConfigInv
<1> QED BY <1>1, <1>2, <1>3, <1>4, <1>5 DEF Next

\* The inductive invariant holds of every behaviour.
THEOREM ConfigInvariant == Spec => []ConfigInv
BY ConfigInit, ConfigStep, PTL DEF Spec

\* Values and copies keep their type whatever the file says, a time stamp is never
\* later than the file, and a restart is counted within its bound.
THEOREM ConfigTypeCorrect == Spec => []ConfigTypeOK
<1>1. ConfigInv => ConfigTypeOK
  BY ConfigAssumption DEF ConfigInv, Shape, Supervised, ConfigTypeOK
<1> QED BY <1>1, ConfigInvariant, PTL

\* However many threads call setValue, a listener's copy differs from its variable
\* only while a call is under way or if the last call overlapped another.
THEOREM CopiesCorrect == Spec => []CopiesAgree
<1>1. ConfigInv => CopiesAgree BY DEF ConfigInv, Agreed, CopiesAgree
<1> QED BY <1>1, ConfigInvariant, PTL

\* LoadFromConfDir never takes an edited file for one it has loaded: if the recorded
\* time stamp is the file's, each variable that only files set has the value of the
\* last entry that reaches it, whatever other threads set.
THEOREM RecordedCorrect == Spec => []RecordedMeansLoaded
<1>1. ConfigInv => RecordedMeansLoaded
  <2> SUFFICES ASSUME ConfigInv, lpc = "idle", s_file2modifytime = st_mtime,
                      content # Broken, NEW name \in Vars \ Direct,
                      Effective(content, name) # {}
               PROVE  m_val[name] = Wanted(content, name)
    BY DEF RecordedMeansLoaded
  <2> DEFINE last == Max(Effective(content, name))
  <2>1. File \in Seq(Entry) /\ Len(File) \in Nat BY FileType DEF ConfigInv
  <2>2. Effective(content, name) \subseteq 1..Len(File) BY <2>1 DEF Effective, File
  <2>3. /\ last \in Effective(content, name)
        /\ \A j \in Effective(content, name) : j <= last
    BY <2>1, <2>2, LastPosition
  <2>4. LoadedTo(Len(File)) BY DEF ConfigInv, Recorded
  <2> HIDE DEF last
  <2>5. m_val[name] = FromStr(File[last][2]) BY <2>2, <2>3, <2>4 DEF LoadedTo, Decides
  <2> QED BY <2>5 DEF Wanted, File, last
<1> QED BY <1>1, ConfigInvariant, PTL
=============================================================================
