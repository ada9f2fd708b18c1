---------------------------- MODULE JsonlStorage ----------------------------
(***************************************************************************)
(* The JSONL storage of pi-durable (storage/jsonl/storage.rs, codec.rs):   *)
(* main.jsonl holds a marker line per commit, and a task or a document     *)
(* that is written through a sidecar has a file of its own.  A commit      *)
(* appends to the sidecars, then to the main file, then to memory; open    *)
(* replays the markers.                                                    *)
(*                                                                         *)
(* The steps of a commit are actions, so an error, the end of the process  *)
(* or a loss of power can fall between any two.  The session above makes   *)
(* one commit at a time and makes no more after one that failed            *)
(* (session.rs:673).  A batch it rejects before the first append changes   *)
(* nothing and is left out.  Every commit has a number of its own, which   *)
(* stands for the data it writes.                                          *)
(***************************************************************************)
EXTENDS Integers, FiniteSets, SequencesExt

CONSTANTS Object,      \* the tasks and documents that have a sidecar file
          Batch,       \* the batches committed
          Tears,       \* whether an append may stop half-way
          MaxCommits,  \* bound: commits begun
          MaxCrashes   \* bound: crashes

\* A write of an object goes through its sidecar, or inline in the marker (a
\* terminal task).  A transaction leaves one write of an object.
Write == [object : Object, inline : BOOLEAN]

ASSUME BatchesAreWrites ==
  \A b \in Batch : /\ b \in Seq(Write) /\ b # <<>>
                   /\ \A i, j \in DOMAIN b : b[i].object = b[j].object => i = j

ASSUME BoundsAreNatural == Tears \in BOOLEAN /\ MaxCommits \in Nat /\ MaxCrashes \in Nat

VARIABLES
  main, side,   \* the lines of the files, in memory of the system
  synced,       \* how many lines of each are on the disk
  fsync,        \* the option the directory is opened with
  up,           \* a process has the directory open
  memory,       \* its memory tables: the commit an object was last written by
  nextSeq,
  flight,       \* the commit in progress
  poisoned,     \* a commit failed: the session makes no other
  acked,        \* history: the commits in the main file at the last success
  commits, crashes

files    == <<main, side, synced>>
process  == <<up, memory, nextSeq, flight, poisoned>>
counters == <<commits, crashes>>
vars == <<main, side, synced, fsync, up, memory, nextSeq, flight, poisoned,
          acked, commits, crashes>>

\* A line: "whole", "bare" (all of it but the newline), or "bad" (not JSON).
Form   == {"whole", "bare", "bad"}
Marker == [seq : Nat, commit : Nat, batch : Batch, form : Form]
Record == [seq : Nat, ordinal : Nat, commit : Nat, form : Form]

NoFlight == [stage |-> "none"]
Flight   == [stage : {"sidecars", "marker", "memory"}, marker : Marker, todo : SUBSET Object]

\* The type invariant: the shapes of the files and of the open storage.
TypeOK ==
  /\ main \in Seq(Marker)
  /\ side \in [Object -> Seq(Record)]
  /\ synced \in [main : Nat, side : [Object -> Nat]]
  /\ synced.main <= Len(main) /\ \A o \in Object : synced.side[o] <= Len(side[o])
  /\ {fsync, up, poisoned} \subseteq BOOLEAN
  /\ memory \in [Object -> 0..MaxCommits]
  /\ nextSeq \in Nat \ {0}
  /\ flight \in {NoFlight} \cup Flight
  /\ acked \in Seq(1..MaxCommits)
  /\ commits \in 0..MaxCommits
  /\ crashes \in 0..MaxCrashes
-----------------------------------------------------------------------------
Objects(batch)  == {batch[i].object : i \in DOMAIN batch}
Sidecars(batch) == {batch[i].object : i \in {j \in DOMAIN batch : ~batch[j].inline}}

\* encode_commit numbers the sidecar records of a commit in the order of its writes.
Ordinal(batch, o) ==
  LET at == CHOOSE i \in DOMAIN batch : batch[i].object = o
  IN  Cardinality({j \in DOMAIN batch : j < at /\ ~batch[j].inline})

RecordOf(marker, o) == [seq |-> marker.seq, ordinal |-> Ordinal(marker.batch, o),
                        commit |-> marker.commit, form |-> "whole"]

InForm(line, f) == [line EXCEPT !.form = f]

\* append_file: a line that follows one without its newline runs into it.
Appended(file, line) ==
  IF file # <<>> /\ Last(file).form # "whole"
  THEN Front(file) \o <<InForm(line, "bad")>>
  ELSE Append(file, line)

\* What an append of the line may leave when it does not end well: nothing, part
\* of it, or all of it and a flush that failed.
Attempts(file, line) ==
  {file, Appended(file, line)}
    \cup (IF Tears THEN {Appended(file, InForm(line, f)) : f \in {"bare", "bad"}}
                   ELSE {})

\* What a loss of power may leave of a file of which n lines are on the disk.
Remains(file, n) ==
  {SubSeq(file, 1, k) : k \in n..Len(file)}
    \cup (IF Tears THEN {Append(SubSeq(file, 1, k), InForm(file[k + 1], "bad")) :
                           k \in n..(Len(file) - 1)}
                   ELSE {})

\* Mutant: the sequence number of the marker is not compared.
MatchesOrdinal(record, marker, o) == record.ordinal = Ordinal(marker.batch, o)

Matches(record, marker, o) ==
  record.seq = marker.seq /\ record.ordinal = Ordinal(marker.batch, o)

\* find_sidecar_record: the records a marker may mean, and the first of them.
Candidates(marker, o) == {i \in DOMAIN side[o] : Matches(side[o][i], marker, o)}
Found(marker, o) ==
  side[o][CHOOSE i \in Candidates(marker, o) : \A j \in Candidates(marker, o) : i <= j]

\* resolve_marker: the commit whose data an object has after the marker.
Resolved(marker, o) ==
  IF o \in Sidecars(marker.batch) THEN Found(marker, o).commit ELSE marker.commit

Parses(file) == \A i \in DOMAIN file : file[i].form # "bad"

\* open succeeds: every line parses, in the main file and in every sidecar a
\* marker refers to, and the record the marker refers to is there.
Readable ==
  /\ Parses(main)
  /\ \A i \in DOMAIN main : \A o \in Sidecars(main[i].batch) :
       Parses(side[o]) /\ Candidates(main[i], o) # {}

\* What open leaves in memory.
Recovered ==
  [o \in Object |->
     LET writers == {i \in DOMAIN main : o \in Objects(main[i].batch)}
     IN  IF writers = {} THEN 0
         ELSE Resolved(main[CHOOSE i \in writers : \A j \in writers : j <= i], o)]

\* Mutant: the last commit's number is used again.
SeqUsedAgain == IF main = <<>> THEN 1 ELSE Last(main).seq

\* Mutant: an empty directory starts to count at zero.
SeqFromZero == IF main = <<>> THEN 0 ELSE Last(main).seq + 1

SeqAfterOpen == IF main = <<>> THEN 1 ELSE Last(main).seq + 1
-----------------------------------------------------------------------------
\* write_commit, up to the first append.
Begin(batch) ==
  /\ up /\ ~poisoned /\ flight = NoFlight
  /\ commits < MaxCommits
  /\ commits' = commits + 1
  /\ nextSeq' = nextSeq + 1
  /\ flight' = [stage  |-> IF Sidecars(batch) = {} THEN "marker" ELSE "sidecars",
                marker |-> [seq |-> nextSeq, commit |-> commits + 1, batch |-> batch,
                            form |-> "whole"],
                todo   |-> Sidecars(batch)]
  /\ UNCHANGED <<files, fsync, up, memory, poisoned, acked, crashes>>

AfterSidecar(o) ==
  [flight EXCEPT !.todo = @ \ {o},
                 !.stage = IF flight.todo = {o} THEN "marker" ELSE "sidecars"]

\* Mutant: the sidecar is not flushed.
FlushLater(o) == synced

SidecarFlushed(o) ==
  IF fsync THEN [synced EXCEPT !.side[o] = Len(Appended(side[o], RecordOf(flight.marker, o)))]
           ELSE synced

\* A sidecar is appended to and flushed.  (The code takes the files by name; any
\* order is allowed here.)
AppendSidecar(o) ==
  /\ up /\ ~poisoned /\ flight.stage = "sidecars" /\ o \in flight.todo
  /\ side' = [side EXCEPT ![o] = Appended(@, RecordOf(flight.marker, o))]
  /\ synced' = SidecarFlushed(o)
  /\ flight' = AfterSidecar(o)
  /\ UNCHANGED <<main, fsync, up, memory, nextSeq, poisoned, acked, counters>>

\* Mutant: the main file is not flushed.
MarkerUnflushed == synced

MarkerFlushed ==
  IF fsync THEN [synced EXCEPT !.main = Len(Appended(main, flight.marker))] ELSE synced

\* The marker is appended and flushed.
AppendMarker ==
  /\ up /\ ~poisoned /\ flight.stage = "marker"
  /\ main' = Appended(main, flight.marker)
  /\ synced' = MarkerFlushed
  /\ flight' = [flight EXCEPT !.stage = "memory"]
  /\ UNCHANGED <<side, fsync, up, memory, nextSeq, poisoned, acked, counters>>

\* The batch is applied to memory and the commit succeeds.
Succeed ==
  /\ up /\ flight.stage = "memory"
  /\ memory' = [o \in Object |-> IF o \in Objects(flight.marker.batch)
                                 THEN flight.marker.commit ELSE memory[o]]
  /\ flight' = NoFlight
  /\ acked' = [i \in DOMAIN main |-> main[i].commit]
  /\ UNCHANGED <<files, fsync, up, nextSeq, poisoned, counters>>

\* An append or a flush fails, or is cut short by the crash that comes next.
CommitFails ==
  /\ up /\ ~poisoned
  /\ \/ /\ flight.stage = "sidecars"
        /\ \E o \in flight.todo :
             \E f \in Attempts(side[o], RecordOf(flight.marker, o)) :
               side' = [side EXCEPT ![o] = f]
        /\ UNCHANGED main
     \/ /\ flight.stage = "marker"
        /\ main' \in Attempts(main, flight.marker)
        /\ UNCHANGED side
  /\ poisoned' = TRUE
  /\ flight' = NoFlight
  /\ UNCHANGED <<synced, fsync, up, memory, nextSeq, acked, counters>>

Down ==
  /\ up' = FALSE
  /\ flight' = NoFlight
  /\ poisoned' = FALSE
  /\ memory' = [o \in Object |-> 0]
  /\ nextSeq' = 1

\* close, between commits.
Close ==
  /\ up /\ flight = NoFlight
  /\ Down
  /\ UNCHANGED <<files, fsync, acked, counters>>

\* The process ends; the files keep what was written.
Killed ==
  /\ up /\ crashes < MaxCrashes
  /\ crashes' = crashes + 1
  /\ Down
  /\ UNCHANGED <<files, fsync, acked, commits>>

\* The machine stops: a file keeps what was flushed and any part of the rest.
\* (Without fsync nothing is promised then, and the case is left out.)
PowerLost ==
  /\ up /\ fsync /\ crashes < MaxCrashes
  /\ crashes' = crashes + 1
  /\ main' \in Remains(main, synced.main)
  /\ \E left \in [Object -> UNION {Remains(side[o], synced.side[o]) : o \in Object}] :
       /\ \A o \in Object : left[o] \in Remains(side[o], synced.side[o])
       /\ side' = left
  /\ synced' = [main |-> Len(main'), side |-> [o \in Object |-> Len(side'[o])]]
  /\ Down
  /\ UNCHANGED <<fsync, acked, commits>>

\* open.  (When the directory cannot be read it stays closed.)
Open ==
  /\ ~up /\ Readable
  /\ up' = TRUE
  /\ memory' = Recovered
  /\ nextSeq' = SeqAfterOpen
  /\ UNCHANGED <<files, fsync, flight, poisoned, acked, counters>>

\* A directory that has just been opened for the first time.
Init ==
  /\ main = <<>>
  /\ side = [o \in Object |-> <<>>]
  /\ synced = [main |-> 0, side |-> [o \in Object |-> 0]]
  /\ fsync \in BOOLEAN
  /\ up = TRUE
  /\ memory = [o \in Object |-> 0]
  /\ nextSeq = 1
  /\ flight = NoFlight
  /\ poisoned = FALSE
  /\ acked = <<>>
  /\ commits = 0
  /\ crashes = 0

Next == \/ \E b \in Batch : Begin(b)
        \/ \E o \in Object : AppendSidecar(o)
        \/ AppendMarker \/ Succeed \/ CommitFails
        \/ Close \/ Killed \/ PowerLost \/ Open

Spec == Init /\ [][Next]_vars
-----------------------------------------------------------------------------
\* No append has stopped half-way.
Intact == /\ \A i \in DOMAIN main : main[i].form = "whole"
          /\ \A o \in Object : \A i \in DOMAIN side[o] : side[o][i].form = "whole"

\* A commit that succeeded is never lost, neither by a later failure nor by a
\* crash, nor, with fsync, by a loss of power: the commits in the main file
\* begin with those that were there when the last one succeeded.
AckedSurvive == Intact => /\ Len(acked) <= Len(main)
                          /\ \A i \in DOMAIN acked : main[i].commit = acked[i]

\* A marker that can be read has its records: whatever failed and whatever was
\* lost, every record it refers to is in its sidecar, as long as no line of that
\* sidecar is torn.  A sidecar with a torn line is refused whole (load_sidecar),
\* the records of commits that succeeded behind that line included.
MarkersResolve ==
  \A i \in DOMAIN main : main[i].form # "bad" =>
    \A o \in Sidecars(main[i].batch) :
      Parses(side[o]) => Candidates(main[i], o) # {}

\* The sequence number a commit is given is the one the memory tables give it
\* (they count the markers), in every process.
SeqsAgree == Intact => /\ \A i \in DOMAIN main : main[i].seq = i
                       /\ up /\ flight = NoFlight /\ ~poisoned => nextSeq = Len(main) + 1

\* A recovery never takes the data of one commit for that of another that is in
\* the main file too, though all of them share the sidecar.
CommitsNeverMix ==
  Readable => \A i, j \in DOMAIN main : \A o \in Sidecars(main[i].batch) :
                Found(main[i], o).commit = main[j].commit => i = j

\* Reopening shows what the process that committed showed: between commits, a
\* replay of the files gives the memory tables.
ReopenShowsTheSame ==
  Intact /\ up /\ flight = NoFlight /\ ~poisoned => Recovered = memory
=============================================================================
