--------------------------- MODULE Windows_proofs ----------------------------
(***************************************************************************)
(* Windows that are open in a process that runs are listed in the registry *)
(* and closed ones are not, for any number of processes and windows, under *)
(* crashes and suspensions. It is not inductive, for whoever reads the     *)
(* sources removes those that are stale: that a window which was not       *)
(* suspended is never stale follows from its age, which is zero, or one    *)
(* while a heartbeat that covers the window is due.                        *)
(*                                                                         *)
(* Lines that are selected for a window reach it in order and once. For    *)
(* that the invariant says that what waits in the request file and what    *)
(* was accepted end alike: the request that a full file displaces is then  *)
(* one that Limit later ones follow.                                       *)
(*                                                                         *)
(* The sections a window has put together are those of one revision. That  *)
(* is not inductive: it needs the same of the rendering a request started  *)
(* from and of the cache the service took away (AskedInv), that a patch    *)
(* on its way has the one section that its revision changed                *)
(* (ResponseInv), and that the impact the service keeps says which that is *)
(* (DocumentInv).                                                          *)
(***************************************************************************)
EXTENDS SubWindows, PreviewSessions, FiniteSetTheorems, TLAPS

Directory ==
  [source : [Windows -> Int], requests : [Windows -> Seq(Nat)],
   active : Windows \cup {None}]

Types ==
  /\ alive \subseteq Processes
  /\ due \subseteq Processes
  /\ open \subseteq Windows
  /\ disk \in Directory
  /\ sent \in Nat
  /\ known \in [Processes -> SUBSET Windows]
  /\ beating \in [Processes -> (SUBSET Windows) \cup {None}]

\* A process knows its own windows; those of a process that ended are gone.
Knowledge ==
  /\ \A w \in open : Owner[w] \in alive
  /\ \A p \in Processes : known[p] = {w \in open : Owner[w] = p}

\* A heartbeat under way is one that is due.
HeartbeatIsDue == \A p \in alive : beating[p] # None => p \in due

\* A heartbeat that is still to come will touch w.
IsCovered(w) ==
  /\ Owner[w] \in due
  /\ beating[Owner[w]] # None => w \in beating[Owner[w]]

Ages ==
  \A w \in Windows : Owner[w] \in alive =>
    /\ w \notin open => disk.source[w] = NoSource
    /\ w \in open \ slept =>
         disk.source[w] = 0 \/ (disk.source[w] = 1 /\ IsCovered(w))

IInv == Types /\ Knowledge /\ HeartbeatIsDue /\ Ages

-----------------------------------------------------------------------------
(* The operations on the directory *)

\* What is fresh or not there stays so when the directory is read.
LEMMA ReadSourcesKeeps ==
  ASSUME NEW d \in Directory
  PROVE  /\ ReadSources(d) \in Directory
         /\ \A w \in Windows :
              d.source[w] \in {NoSource, 0, 1} => ReadSources(d).source[w] = d.source[w]
<1> DEFINE src == [w \in Windows |-> IF d.source[w] > StaleAfter THEN NoSource ELSE d.source[w]]
           req == [w \in Windows |-> IF d.source[w] > StaleAfter THEN << >> ELSE d.requests[w]]
<1>1. ReadSources(d) = [d EXCEPT !.source = src, !.requests = req]
  BY DEF ReadSources, Directory
<1>2. src \in [Windows -> Int] /\ req \in [Windows -> Seq(Nat)]
  BY DEF Directory, NoSource
<1>3. \A w \in Windows : d.source[w] \in {NoSource, 0, 1} => src[w] = d.source[w]
  BY SubWindowsAssumption DEF Directory, NoSource
<1> HIDE DEF src, req
<1>4. ReadSources(d) \in Directory /\ ReadSources(d).source = src
  BY <1>1, <1>2 DEF Directory
<1> QED
  BY <1>3, <1>4

LEMMA ReadActiveKeeps ==
  ASSUME NEW d \in Directory
  PROVE  /\ ReadActive(d) \in Directory
         /\ ReadActive(d).source = d.source
BY DEF ReadActive, Directory

LEMMA WithSourceEffect ==
  ASSUME NEW d \in Directory, NEW w \in Windows
  PROVE  /\ WithSource(d, w) \in Directory
         /\ WithSource(d, w).source = [d.source EXCEPT ![w] = 0]
<1> DEFINE src == [d.source EXCEPT ![w] = 0]
<1>1. src \in [Windows -> Int]
  BY DEF Directory
<1>2. WithSource(d, w) = [d EXCEPT !.source = src]
  BY DEF WithSource
<1> HIDE DEF src
<1>3. WithSource(d, w) \in Directory /\ WithSource(d, w).source = src
  BY <1>1, <1>2 DEF Directory
<1> QED
  BY <1>3 DEF src

LEMMA WithoutSourceEffect ==
  ASSUME NEW d \in Directory, NEW w \in Windows
  PROVE  /\ WithoutSource(d, w) \in Directory
         /\ WithoutSource(d, w).source = [d.source EXCEPT ![w] = NoSource]
<1> DEFINE src == [d.source EXCEPT ![w] = NoSource]
           req == [d.requests EXCEPT ![w] = << >>]
<1>1. src \in [Windows -> Int] /\ req \in [Windows -> Seq(Nat)]
  BY DEF Directory, NoSource
<1>2. WithoutSource(d, w) = [d EXCEPT !.source = src, !.requests = req]
  BY DEF WithoutSource
<1> HIDE DEF src, req
<1>3. WithoutSource(d, w) \in Directory /\ WithoutSource(d, w).source = src
  BY <1>1, <1>2 DEF Directory
<1> QED
  BY <1>3 DEF src

LEMMA ActiveKeepsSources ==
  ASSUME NEW d \in Directory, NEW w \in Windows
  PROVE  /\ Registered(d, w) \in Directory /\ Registered(d, w).source = d.source
         /\ Removed(d, w) \in Directory /\ Removed(d, w).source = d.source
         /\ Activated(d, w) \in Directory /\ Activated(d, w).source = d.source
BY DEF Registered, Removed, Activated, WithActive, Directory

LEMMA TouchedEffect ==
  ASSUME NEW d \in Directory, NEW ids \in SUBSET Windows
  PROVE  /\ Touched(d, ids) \in Directory
         /\ \A w \in Windows :
              Touched(d, ids).source[w] =
                IF w \in ids /\ d.source[w] # NoSource THEN 0 ELSE d.source[w]
<1> DEFINE src == [w \in Windows |->
                     IF w \in ids /\ d.source[w] # NoSource THEN 0 ELSE d.source[w]]
<1>1. src \in [Windows -> Int]
  BY DEF Directory
<1>2. Touched(d, ids) = [d EXCEPT !.source = src]
  BY DEF Touched
<1> HIDE DEF src
<1>3. Touched(d, ids) \in Directory /\ Touched(d, ids).source = src
  BY <1>1, <1>2 DEF Directory
<1> QED
  BY <1>3 DEF src

LEMMA YoungerOfTwo ==
  ASSUME NEW a \in Int, NEW b \in Int
  PROVE  Min({a, b}) \in {a, b} /\ Min({a, b}) <= a /\ Min({a, b}) <= b
<1>1. \E x \in {a, b} : \A y \in {a, b} : x <= y
  OBVIOUS
<1> QED
  BY <1>1 DEF Min

LEMMA OlderEffect ==
  ASSUME NEW d \in Directory, NEW by \in Nat
  PROVE  /\ Older(d, Windows, by) \in Directory
         /\ \A w \in Windows :
              /\ d.source[w] = NoSource => Older(d, Windows, by).source[w] = NoSource
              /\ d.source[w] = 0 /\ by = 1 => Older(d, Windows, by).source[w] = 1
<1> DEFINE src == [w \in Windows |-> IF d.source[w] # NoSource
                     THEN Min({StaleAfter + 1, d.source[w] + by}) ELSE d.source[w]]
<1>1. Older(d, Windows, by) = [d EXCEPT !.source = src]
  BY DEF Older, Directory
<1>2. ASSUME NEW w \in Windows
      PROVE  /\ d.source[w] \in Int
             /\ Min({StaleAfter + 1, d.source[w] + by}) \in {StaleAfter + 1, d.source[w] + by}
             /\ Min({StaleAfter + 1, d.source[w] + by}) <= d.source[w] + by
             /\ StaleAfter \in Nat \ {0}
  <2>1. d.source[w] \in Int /\ StaleAfter \in Nat \ {0}
    BY SubWindowsAssumption DEF Directory
  <2>2. StaleAfter + 1 \in Int /\ d.source[w] + by \in Int
    BY <2>1
  <2> QED
    BY <2>1, <2>2, YoungerOfTwo
<1>3. src \in [Windows -> Int]
  <2>1. \A w \in Windows : Min({StaleAfter + 1, d.source[w] + by}) \in Int /\ d.source[w] \in Int
    BY <1>2
  <2> QED
    BY <2>1
<1>4. \A w \in Windows : /\ d.source[w] = NoSource => src[w] = NoSource
                         /\ d.source[w] = 0 /\ by = 1 => src[w] = 1
  BY <1>2 DEF NoSource
<1> HIDE DEF src
<1> QED
  BY <1>1, <1>3, <1>4 DEF Directory

-----------------------------------------------------------------------------
(* The commands of a window *)

\* Reading the sources takes none that is of a living window, and brings none.
LEMMA LivingSurviveReading ==
  ASSUME NEW d \in Directory, NEW w \in Windows, d.source[w] \in {NoSource, 0, 1}
  PROVE  ReadActive(ReadSources(d)).source[w] = d.source[w]
<1>1. ReadSources(d) \in Directory /\ ReadSources(d).source[w] = d.source[w]
  BY ReadSourcesKeeps
<1> QED
  BY <1>1, ReadActiveKeeps

\* A command that changes no source but that of its window: those of the others
\* are as they were, unless they are stale and removed.
LEMMA CommandKeeps ==
  ASSUME NEW w \in Windows, NEW d \in Directory, Command(w, d)
  PROVE  /\ disk' \in Directory
         /\ Owner[w] \in alive
         /\ UNCHANGED <<alive, beating, due, sent, taken>>
         /\ \A v \in Windows : d.source[v] \in {NoSource, 0, 1} => disk'.source[v] = d.source[v]
<1>1. ReadSources(d) \in Directory
  BY ReadSourcesKeeps
<1>2. disk' = ReadActive(ReadSources(d))
  BY DEF Command
<1>3. disk' \in Directory
  BY <1>1, <1>2, ReadActiveKeeps
<1> QED
  BY <1>2, <1>3, LivingSurviveReading DEF Command

\* The sources of other windows after a command of w.
LEMMA OthersKeepTheirAges ==
  ASSUME IInv, NEW w \in Windows, NEW d \in Directory, Command(w, d),
         \A v \in Windows \ {w} : disk.source[v] \in {NoSource, 0, 1} => d.source[v] = disk.source[v],
         NEW v \in Windows \ {w}, Owner[v] \in alive,
         disk.source[v] \in {NoSource, 0, 1}
  PROVE  disk'.source[v] = disk.source[v]
BY CommandKeeps

\* Windows other than w keep what Ages says of them when a command of w leaves
\* their sources alone.
LEMMA OthersAge ==
  ASSUME IInv, NEW w \in Windows, NEW d \in Directory, Command(w, d),
         \A v \in Windows \ {w} : disk.source[v] \in {NoSource, 0, 1} => d.source[v] = disk.source[v],
         \A v \in Windows \ {w} : (v \in open' <=> v \in open) /\ (v \in slept' <=> v \in slept),
         NEW v \in Windows \ {w}, Owner[v] \in alive
  PROVE  /\ v \notin open' => disk'.source[v] = NoSource
         /\ v \in open' \ slept' =>
              disk'.source[v] = 0 \/ (disk'.source[v] = 1 /\ IsCovered(v)')
<1>1. UNCHANGED <<alive, beating, due>>
  BY DEF Command
<1>2. CASE v \notin open
  BY <1>2, OthersKeepTheirAges DEF IInv, Ages
<1>3. CASE v \in open \ slept
  BY <1>1, <1>3, OthersKeepTheirAges DEF IInv, Ages, IsCovered
<1>4. CASE v \in open \cap slept
  BY <1>4
<1> QED
  BY <1>2, <1>3, <1>4

\* A command that writes the source of w and lists it.
LEMMA ListedKeepsIInv ==
  ASSUME IInv, NEW w \in Windows, NEW d \in Directory, Listed(w), Command(w, d),
         d.source[w] = 0,
         \A v \in Windows \ {w} : disk.source[v] \in {NoSource, 0, 1} => d.source[v] = disk.source[v]
  PROVE  IInv'
<1> USE DEF IInv
<1>1. /\ disk' \in Directory /\ Owner[w] \in alive
      /\ UNCHANGED <<alive, beating, due, sent, taken>>
      /\ disk'.source[w] = 0
  BY CommandKeeps
<1>2. /\ open' = open \cup {w}
      /\ known' = [known EXCEPT ![Owner[w]] = @ \cup {w}]
      /\ slept' = slept \ {w}
  BY DEF Listed
<1>3. Types'
  <2>1. known' \in [Processes -> SUBSET Windows] /\ open' \subseteq Windows
    BY <1>2, SubWindowsAssumption DEF Types
  <2> QED
    BY <1>1, <2>1 DEF Types
<1>4. Knowledge'
  BY <1>1, <1>2, SubWindowsAssumption DEF Knowledge, Types
<1>5. HeartbeatIsDue'
  BY <1>1 DEF HeartbeatIsDue
<1>6. Ages'
  <2> SUFFICES ASSUME NEW v \in Windows, (Owner[v] \in alive)'
               PROVE  (/\ v \notin open => disk.source[v] = NoSource
                       /\ v \in open \ slept =>
                            disk.source[v] = 0 \/ (disk.source[v] = 1 /\ IsCovered(v)))'
    BY DEF Ages
  <2>1. CASE v = w
    BY <1>1, <1>2, <2>1
  <2>2. CASE v # w
    BY <1>1, <1>2, <2>2, OthersAge
  <2> QED
    BY <2>1, <2>2
<1> QED
  BY <1>3, <1>4, <1>5, <1>6

LEMMA RegisterKeepsIInv ==
  ASSUME IInv, NEW w \in Windows, Register(w)
  PROVE  IInv'
<1> DEFINE d == WithSource(disk, w)
           e == ReadActive(ReadSources(d))
<1>1. d \in Directory /\ d.source = [disk.source EXCEPT ![w] = 0]
  BY WithSourceEffect DEF IInv, Types
<1>2. disk.source \in [Windows -> Int]
  BY DEF IInv, Types, Directory
<1>3. e \in Directory
  BY <1>1, ReadSourcesKeeps, ReadActiveKeeps
<1>4. e.source[w] = 0
  BY <1>1, <1>2, LivingSurviveReading
<1>5. \A v \in Windows \ {w} : disk.source[v] \in {NoSource, 0, 1} => e.source[v] = disk.source[v]
  BY <1>1, <1>2, LivingSurviveReading
<1>6. Listed(w) /\ Command(w, Registered(e, w))
  BY DEF Register
<1>7. Registered(e, w) \in Directory /\ Registered(e, w).source = e.source
  BY <1>3, ActiveKeepsSources
<1> HIDE DEF d, e
<1> QED
  BY <1>4, <1>5, <1>6, <1>7, ListedKeepsIInv

LEMMA PublishKeepsIInv ==
  ASSUME IInv, NEW w \in Windows, Publish(w)
  PROVE  IInv'
<1>1. disk \in Directory /\ disk.source \in [Windows -> Int]
  BY DEF IInv, Types, Directory
<1>2. WithSource(disk, w) \in Directory /\ WithSource(disk, w).source = [disk.source EXCEPT ![w] = 0]
  BY <1>1, WithSourceEffect
<1>3. Listed(w) /\ Command(w, WithSource(disk, w))
  BY DEF Publish
<1> QED
  BY <1>1, <1>2, <1>3, ListedKeepsIInv

LEMMA ActivateKeepsIInv ==
  ASSUME IInv, NEW w \in Windows, Activate(w)
  PROVE  IInv'
<1> USE DEF IInv
<1> DEFINE d == Activated(ReadSources(disk), w)
<1>1. disk \in Directory
  BY DEF Types
<1>2. ReadSources(disk) \in Directory
  BY <1>1, ReadSourcesKeeps
<1>3. d \in Directory /\ d.source = ReadSources(disk).source
  BY <1>2, ActiveKeepsSources
<1>4. \A v \in Windows : disk.source[v] \in {NoSource, 0, 1} => d.source[v] = disk.source[v]
  BY <1>1, <1>3, ReadSourcesKeeps
<1>5. Command(w, d) /\ UNCHANGED <<slept, open, known>>
  BY DEF Activate
<1> HIDE DEF d
<1>6. /\ disk' \in Directory
      /\ UNCHANGED <<alive, beating, due, sent, taken>>
      /\ \A v \in Windows : d.source[v] \in {NoSource, 0, 1} => disk'.source[v] = d.source[v]
  BY <1>3, <1>5, CommandKeeps
<1>7. \A v \in Windows : disk.source[v] \in {NoSource, 0, 1} => disk'.source[v] = disk.source[v]
  BY <1>4, <1>6
<1>8. Types' /\ Knowledge' /\ HeartbeatIsDue'
  BY <1>5, <1>6 DEF Types, Knowledge, HeartbeatIsDue
<1>9. Ages'
  BY <1>5, <1>6, <1>7 DEF Ages, IsCovered
<1> QED
  BY <1>8, <1>9

LEMMA UnregisterKeepsIInv ==
  ASSUME IInv, NEW w \in Windows, Unregister(w)
  PROVE  IInv'
<1> USE DEF IInv
<1> DEFINE d == WithoutSource(disk, w)
           e == ReadActive(ReadSources(d))
<1>1. d \in Directory /\ d.source = [disk.source EXCEPT ![w] = NoSource]
  BY WithoutSourceEffect DEF Types
<1>2. disk.source \in [Windows -> Int]
  BY DEF Types, Directory
<1>3. e \in Directory
  BY <1>1, ReadSourcesKeeps, ReadActiveKeeps
<1>4. e.source[w] = NoSource
  BY <1>1, <1>2, LivingSurviveReading
<1>5. \A v \in Windows \ {w} : disk.source[v] \in {NoSource, 0, 1} => e.source[v] = disk.source[v]
  BY <1>1, <1>2, LivingSurviveReading
<1>6. /\ w \in known[Owner[w]]
      /\ open' = open \ {w}
      /\ known' = [known EXCEPT ![Owner[w]] = @ \ {w}]
      /\ Command(w, Removed(e, w))
      /\ UNCHANGED slept
  BY DEF Unregister
<1>7. Removed(e, w) \in Directory /\ Removed(e, w).source = e.source
  BY <1>3, ActiveKeepsSources
<1> HIDE DEF d, e
<1>8. /\ disk' \in Directory /\ Owner[w] \in alive
      /\ UNCHANGED <<alive, beating, due, sent, taken>>
      /\ disk'.source[w] = NoSource
  BY <1>4, <1>6, <1>7, CommandKeeps
<1>9. Types'
  <2>1. known' \in [Processes -> SUBSET Windows] /\ open' \subseteq Windows
    BY <1>6, SubWindowsAssumption DEF Types
  <2> QED
    BY <1>8, <2>1 DEF Types
<1>10. Knowledge'
  BY <1>6, <1>8, SubWindowsAssumption DEF Knowledge, Types
<1>11. HeartbeatIsDue'
  BY <1>8 DEF HeartbeatIsDue
<1>12. Ages'
  <2> SUFFICES ASSUME NEW v \in Windows, (Owner[v] \in alive)'
               PROVE  (/\ v \notin open => disk.source[v] = NoSource
                       /\ v \in open \ slept =>
                            disk.source[v] = 0 \/ (disk.source[v] = 1 /\ IsCovered(v)))'
    BY DEF Ages
  <2>1. CASE v = w
    BY <1>6, <1>8, <2>1
  <2>2. CASE v # w
    BY <1>5, <1>6, <1>7, <1>8, <2>2, OthersAge
  <2> QED
    BY <2>1, <2>2
<1> QED
  BY <1>9, <1>10, <1>11, <1>12

-----------------------------------------------------------------------------
(* The heartbeat, time, crashes and line selections *)

LEMMA CollectKeepsIInv ==
  ASSUME IInv, NEW p \in Processes, Collect(p)
  PROVE  IInv'
<1> USE DEF IInv
<1>1. /\ p \in alive \cap due /\ beating[p] = None
      /\ beating' = [beating EXCEPT ![p] = known[p]]
      /\ UNCHANGED <<alive, slept, open, known, disk, due, sent>>
  BY DEF Collect, lines
<1>2. Types' /\ Knowledge' /\ HeartbeatIsDue'
  BY <1>1 DEF Types, Knowledge, HeartbeatIsDue
<1>3. ASSUME NEW v \in open, IsCovered(v)
      PROVE  IsCovered(v)'
  <2>1. v \in Windows /\ Owner[v] \in Processes /\ v \in known[Owner[v]]
    BY <1>3, SubWindowsAssumption DEF Types, Knowledge
  <2> QED
    BY <1>1, <1>3, <2>1 DEF IsCovered, Types
<1>4. Ages'
  BY <1>1, <1>3 DEF Ages
<1> QED
  BY <1>2, <1>4

LEMMA TouchKeepsIInv ==
  ASSUME IInv, NEW p \in Processes, Touch(p)
  PROVE  IInv'
<1> USE DEF IInv
<1>1. /\ p \in alive /\ beating[p] # None /\ p \in due
      /\ disk' = IF beating[p] = {} THEN disk ELSE Touched(ReadSources(disk), beating[p])
      /\ beating' = [beating EXCEPT ![p] = None]
      /\ due' = due \ {p}
      /\ UNCHANGED <<alive, slept, open, known, sent>>
  BY DEF Touch, lines, HeartbeatIsDue
<1>2. disk \in Directory /\ disk.source \in [Windows -> Int] /\ beating[p] \in SUBSET Windows
  BY <1>1 DEF Types, Directory
<1>3. ReadSources(disk) \in Directory
  BY <1>2, ReadSourcesKeeps
<1>4. /\ disk' \in Directory
      /\ \A v \in Windows : disk.source[v] \in {NoSource, 0, 1} =>
           disk'.source[v] = IF v \in beating[p] /\ disk.source[v] # NoSource
                             THEN 0 ELSE disk.source[v]
  <2>1. CASE beating[p] = {}
    BY <1>1, <1>2, <2>1
  <2>2. CASE beating[p] # {}
    <3>1. disk' = Touched(ReadSources(disk), beating[p])
      BY <1>1, <2>2
    <3> QED
      BY <1>2, <1>3, <3>1, TouchedEffect, ReadSourcesKeeps
  <2> QED
    BY <2>1, <2>2
<1>5. Types' /\ Knowledge' /\ HeartbeatIsDue'
  BY <1>1, <1>4 DEF Types, Knowledge, HeartbeatIsDue
<1>6. ASSUME NEW v \in Windows, Owner[v] \in alive, v \in open \ slept
      PROVE  disk'.source[v] = 0 \/ (disk'.source[v] = 1 /\ IsCovered(v)')
  <2>1. CASE disk.source[v] = 0
    BY <1>4, <1>6, <2>1 DEF NoSource
  <2>2. CASE disk.source[v] = 1 /\ IsCovered(v) /\ Owner[v] = p
    BY <1>1, <1>4, <1>6, <2>2 DEF IsCovered, NoSource
  <2>3. CASE disk.source[v] = 1 /\ IsCovered(v) /\ Owner[v] # p
    <3>1. disk'.source[v] \in {0, 1}
      BY <1>4, <2>3
    <3>2. IsCovered(v)'
      BY <1>1, <2>3, SubWindowsAssumption DEF IsCovered, Types
    <3> QED
      BY <3>1, <3>2
  <2> QED
    BY <1>6, <2>1, <2>2, <2>3 DEF Ages
<1>7. Ages'
  BY <1>1, <1>4, <1>6 DEF Ages
<1> QED
  BY <1>5, <1>7

\* When a second passes every heartbeat has been, so the next one covers all.
LEMMA TickKeepsIInv ==
  ASSUME IInv, Tick
  PROVE  IInv'
<1> USE DEF IInv
<1>1. /\ due \cap alive = {} /\ due' = alive
      /\ disk' = Older(disk, Windows, 1)
      /\ UNCHANGED <<alive, slept, open, known, beating, sent>>
  BY DEF Tick, lines
<1>2. /\ disk' \in Directory
      /\ \A w \in Windows : disk.source[w] = NoSource => disk'.source[w] = NoSource
      /\ \A w \in Windows : disk.source[w] = 0 => disk'.source[w] = 1
  BY <1>1, OlderEffect DEF Types
<1>3. Types' /\ Knowledge' /\ HeartbeatIsDue'
  BY <1>1, <1>2 DEF Types, Knowledge, HeartbeatIsDue
<1>4. ASSUME NEW v \in Windows, Owner[v] \in alive, v \in open \ slept
      PROVE  disk'.source[v] = 1 /\ IsCovered(v)'
  <2>1. disk.source[v] = 0
    BY <1>1, <1>4 DEF Ages, IsCovered
  <2>2. Owner[v] \in due' /\ beating'[Owner[v]] = None
    BY <1>1, <1>4 DEF HeartbeatIsDue
  <2>3. disk'.source[v] = 1
    BY <1>2, <2>1
  <2>4. IsCovered(v)'
    BY <2>2 DEF IsCovered
  <2> QED
    BY <2>3, <2>4
<1>5. Ages'
  <2> SUFFICES ASSUME NEW v \in Windows, (Owner[v] \in alive)'
               PROVE  (/\ v \notin open => disk.source[v] = NoSource
                       /\ v \in open \ slept =>
                            disk.source[v] = 0 \/ (disk.source[v] = 1 /\ IsCovered(v)))'
    BY DEF Ages
  <2>1. CASE v \in open \ slept
    BY <1>1, <1>4, <2>1
  <2>2. CASE v \notin open
    BY <1>1, <1>2, <2>2 DEF Ages
  <2> QED
    BY <1>1, <2>1, <2>2
<1> QED
  BY <1>3, <1>5

LEMMA SuspendKeepsIInv ==
  ASSUME IInv, Suspend
  PROVE  IInv'
<1> USE DEF IInv
<1>1. /\ slept' = open
      /\ disk' = Older(disk, Windows, StaleAfter + 1)
      /\ UNCHANGED <<alive, open, known, beating, due, sent>>
  BY DEF Suspend, lines
<1>2. StaleAfter + 1 \in Nat
  BY SubWindowsAssumption
<1>3. /\ disk' \in Directory
      /\ \A w \in Windows : disk.source[w] = NoSource => disk'.source[w] = NoSource
  BY <1>1, <1>2, OlderEffect DEF Types
<1>4. Types' /\ Knowledge' /\ HeartbeatIsDue'
  BY <1>1, <1>3 DEF Types, Knowledge, HeartbeatIsDue
<1>5. Ages'
  BY <1>1, <1>3 DEF Ages
<1> QED
  BY <1>4, <1>5

\* Whatever a crash loses is of windows that are gone with it.
LEMMA CrashKeepsIInv ==
  ASSUME IInv, NEW p \in Processes, Crash(p)
  PROVE  IInv'
<1> USE DEF IInv
<1>1. /\ alive' = alive \ {p}
      /\ open' = {w \in open : Owner[w] # p}
      /\ known' = [known EXCEPT ![p] = {}]
      /\ beating' = [beating EXCEPT ![p] = None]
      /\ UNCHANGED <<slept, due, sent>>
  BY DEF Crash, lines
<1> DEFINE OthersStay ==
             /\ disk' \in Directory
             /\ \A v \in Windows : Owner[v] # p => disk'.source[v] = disk.source[v]
<1>2. OthersStay
  <2>1. CASE disk' = disk
    BY <2>1 DEF Types
  <2>2. CASE disk' = [disk EXCEPT !.active = None]
    BY <2>2 DEF Types, Directory
  <2>3. ASSUME NEW w \in known[p], disk' = [disk EXCEPT !.source[w] = NoSource]
        PROVE  OthersStay
    <3> DEFINE src == [disk.source EXCEPT ![w] = NoSource]
    <3>1. w \in Windows /\ Owner[w] = p
      BY <2>3 DEF Types, Knowledge
    <3>2. src \in [Windows -> Int] /\ \A v \in Windows : Owner[v] # p => src[v] = disk.source[v]
      BY <3>1 DEF Types, Directory, NoSource
    <3>3. disk' = [disk EXCEPT !.source = src]
      BY <2>3
    <3> HIDE DEF src
    <3> QED
      BY <3>2, <3>3 DEF Types, Directory
  <2>4. ASSUME NEW w \in Windows, disk' = [disk EXCEPT !.requests[w] = << >>]
        PROVE  OthersStay
    <3> DEFINE req == [disk.requests EXCEPT ![w] = << >>]
    <3>1. req \in [Windows -> Seq(Nat)]
      BY DEF Types, Directory
    <3>2. disk' = [disk EXCEPT !.requests = req]
      BY <2>4
    <3> HIDE DEF req
    <3> QED
      BY <3>1, <3>2 DEF Types, Directory
  <2> QED
    BY <2>1, <2>2, <2>3, <2>4 DEF Crash
<1>3. Types'
  <2>1. open' \subseteq Windows /\ known' \in [Processes -> SUBSET Windows]
    BY <1>1 DEF Types
  <2> QED
    BY <1>1, <1>2, <2>1 DEF Types
<1>4. Knowledge' /\ HeartbeatIsDue'
  BY <1>1 DEF Types, Knowledge, HeartbeatIsDue
<1>5. ASSUME NEW v \in Windows, Owner[v] \in alive', IsCovered(v)
      PROVE  IsCovered(v)'
  BY <1>1, <1>5, SubWindowsAssumption DEF IsCovered, Types
<1>6. Ages'
  BY <1>1, <1>2, <1>5 DEF Ages
<1> QED
  BY <1>3, <1>4, <1>6

LEMMA SelectKeepsIInv ==
  ASSUME IInv, NEW w \in Windows, Select(w)
  PROVE  IInv'
<1> USE DEF IInv
<1> DEFINE d == ReadSources(disk)
           req == [d.requests EXCEPT ![w] = Pushed(@, sent + 1)]
<1>1. /\ sent' = sent + 1
      /\ disk' = d \/ disk' = [d EXCEPT !.requests = req]
      /\ UNCHANGED <<alive, slept, open, known, beating, due>>
  BY DEF Select
<1>2. d \in Directory /\ \A v \in Windows :
                          disk.source[v] \in {NoSource, 0, 1} => d.source[v] = disk.source[v]
  BY ReadSourcesKeeps DEF Types
<1>3. req \in [Windows -> Seq(Nat)]
  <2>1. d.requests[w] \in Seq(Nat) /\ sent + 1 \in Nat
    BY <1>2 DEF Directory, Types
  <2>2. Append(d.requests[w], sent + 1) \in Seq(Nat) /\ Append(d.requests[w], sent + 1) # << >>
    BY <2>1
  <2>3. Pushed(d.requests[w], sent + 1) \in Seq(Nat)
    BY <2>2 DEF Pushed
  <2> QED
    BY <1>2, <2>3 DEF Directory
<1> HIDE DEF d, req
<1>4. disk' \in Directory /\ disk'.source = d.source
  BY <1>1, <1>2, <1>3 DEF Directory
<1>5. Types' /\ Knowledge' /\ HeartbeatIsDue'
  BY <1>1, <1>4 DEF Types, Knowledge, HeartbeatIsDue
<1>6. Ages'
  BY <1>1, <1>2, <1>4 DEF Ages, IsCovered
<1> QED
  BY <1>5, <1>6

LEMMA TakeKeepsIInv ==
  ASSUME IInv, NEW w \in Windows, Take(w)
  PROVE  IInv'
<1> USE DEF IInv
<1> DEFINE req == [disk.requests EXCEPT ![w] = << >>]
<1>1. disk' = [disk EXCEPT !.requests = req] /\ UNCHANGED <<alive, slept, open, known, beating, due, sent>>
  BY DEF Take
<1>2. req \in [Windows -> Seq(Nat)]
  BY DEF Types, Directory
<1> HIDE DEF req
<1>3. disk' \in Directory /\ disk'.source = disk.source
  BY <1>1, <1>2 DEF Types, Directory
<1>4. Types' /\ Knowledge' /\ HeartbeatIsDue'
  BY <1>1, <1>3 DEF Types, Knowledge, HeartbeatIsDue
<1>5. Ages'
  BY <1>1, <1>3 DEF Ages, IsCovered
<1> QED
  BY <1>4, <1>5

-----------------------------------------------------------------------------
LEMMA InitIInv == Init => IInv
<1> SUFFICES ASSUME Init PROVE IInv
  OBVIOUS
<1>1. EmptyDirectory \in Directory /\ EmptyDirectory.source = [w \in Windows |-> NoSource]
  BY DEF EmptyDirectory, Directory, NoSource
<1> QED
  BY <1>1 DEF Init, IInv, Types, Knowledge, HeartbeatIsDue, Ages

LEMMA NextKeepsIInv == IInv /\ [Next]_vars => IInv'
<1> SUFFICES ASSUME IInv, [Next]_vars PROVE IInv'
  OBVIOUS
<1>1. CASE UNCHANGED vars
  BY <1>1 DEF vars, IInv, Types, Knowledge, HeartbeatIsDue, Ages, IsCovered
<1>2. ASSUME NEW w \in Windows,
             Register(w) \/ Publish(w) \/ Activate(w) \/ Unregister(w) \/ Select(w) \/ Take(w)
      PROVE  IInv'
  BY <1>2, RegisterKeepsIInv, PublishKeepsIInv, ActivateKeepsIInv, UnregisterKeepsIInv,
     SelectKeepsIInv, TakeKeepsIInv
<1>3. ASSUME NEW p \in Processes, Collect(p) \/ Touch(p) \/ Crash(p)
      PROVE  IInv'
  BY <1>3, CollectKeepsIInv, TouchKeepsIInv, CrashKeepsIInv
<1>4. CASE Tick \/ Suspend
  BY <1>4, TickKeepsIInv, SuspendKeepsIInv
<1> QED
  BY <1>1, <1>2, <1>3, <1>4 DEF Next

\* The windows of processes that run and were not suspended are listed exactly
\* when they are open, whatever other processes do or fail to do.
THEOREM LivingAreListed == Spec => []LivingWindowsAreListed
<1>1. Init => IInv
  BY InitIInv
<1>2. IInv /\ [Next]_vars => IInv'
  BY NextKeepsIInv
<1>3. IInv => LivingWindowsAreListed
  BY DEF IInv, Ages, LivingWindowsAreListed, IsListed, NoSource
<1> QED
  BY <1>1, <1>2, <1>3, PTL DEF Spec

-----------------------------------------------------------------------------
(* Requests as sequences: those a window has taken, those that wait for it,  *)
(* and those the registry accepted.                                         *)

Ascending(s) == \A i, j \in DOMAIN s : i < j => s[i] < s[j]

UpTo(s, n) == \A i \in DOMAIN s : s[i] <= n

\* Requests that were taken, and those that wait after them.
InOrder(t, q) ==
  /\ Ascending(t) /\ Ascending(q)
  /\ \A i \in DOMAIN t, j \in DOMAIN q : t[i] < q[j]

\* What waits and what was accepted end alike.
Aligned(a, q) ==
  \A k \in 0 .. Len(a) - 1 : k < Len(q) => a[Len(a) - k] = q[Len(q) - k]

Kept(a, t, q) ==
  \A i \in DOMAIN a :
    a[i] \in Range(t) \/ a[i] \in Range(q) \/ Len(a) - i >= Limit

LEMMA AppendedAt ==
  ASSUME NEW s \in Seq(Nat), NEW r \in Nat
  PROVE  /\ Append(s, r) \in Seq(Nat)
         /\ Len(Append(s, r)) = Len(s) + 1
         /\ DOMAIN Append(s, r) = 1 .. Len(s) + 1
         /\ \A i \in 1 .. Len(s) : Append(s, r)[i] = s[i]
         /\ Append(s, r)[Len(s) + 1] = r
OBVIOUS

LEMMA TailAt ==
  ASSUME NEW s \in Seq(Nat), s # << >>
  PROVE  /\ Tail(s) \in Seq(Nat)
         /\ Len(Tail(s)) = Len(s) - 1
         /\ DOMAIN Tail(s) = 1 .. Len(s) - 1
         /\ \A i \in 1 .. Len(s) - 1 : Tail(s)[i] = s[i + 1]
OBVIOUS

\* p is q with r at its end, and without its first element if cut is one.
IsPushed(p, q, r, cut) ==
  /\ p \in Seq(Nat)
  /\ Len(p) = Len(q) + 1 - cut
  /\ DOMAIN p = 1 .. Len(q) + 1 - cut
  /\ \A i \in 1 .. Len(q) - cut : p[i] = q[i + cut]
  /\ p[Len(q) + 1 - cut] = r
  /\ cut = 1 => Len(q) + 1 > Limit

LEMMA PushedAt ==
  ASSUME NEW q \in Seq(Nat), NEW r \in Nat
  PROVE  IsPushed(Pushed(q, r), q, r, 0) \/ IsPushed(Pushed(q, r), q, r, 1)
<1> DEFINE s == Append(q, r)
<1>1. /\ s \in Seq(Nat) /\ Len(s) = Len(q) + 1 /\ DOMAIN s = 1 .. Len(q) + 1
      /\ \A i \in 1 .. Len(q) : s[i] = q[i]
      /\ s[Len(q) + 1] = r
  BY AppendedAt
<1>2. Len(q) \in Nat /\ Limit \in Nat /\ Limit > 0
  BY SubWindowsAssumption
<1>3. Pushed(q, r) = IF Len(s) > Limit THEN Tail(s) ELSE s
  BY DEF Pushed
<1> HIDE DEF s
<1>4. CASE Len(s) > Limit
  <2> DEFINE p == Tail(s)
  <2>0. s # << >>
    BY <1>1, <1>2
  <2>1. /\ p \in Seq(Nat) /\ Len(p) = Len(s) - 1 /\ DOMAIN p = 1 .. Len(s) - 1
        /\ \A i \in 1 .. Len(s) - 1 : p[i] = s[i + 1]
    BY <1>1, <2>0, TailAt
  <2>2. Pushed(q, r) = p
    BY <1>3, <1>4
  <2> HIDE DEF p
  <2>3. p[Len(q)] = r
    BY <1>1, <1>2, <1>4, <2>1
  <2>4. \A i \in 1 .. Len(q) - 1 : p[i] = q[i + 1]
    BY <1>1, <1>2, <2>1
  <2>5. Len(p) = Len(q) + 1 - 1 /\ DOMAIN p = 1 .. Len(q) + 1 - 1 /\ Len(q) + 1 - 1 = Len(q)
    BY <1>1, <1>2, <2>1
  <2>6. IsPushed(p, q, r, 1)
    BY <1>1, <1>2, <1>4, <2>1, <2>3, <2>4, <2>5 DEF IsPushed
  <2> QED
    BY <2>2, <2>6
<1>5. CASE ~(Len(s) > Limit)
  BY <1>1, <1>2, <1>3, <1>5 DEF IsPushed
<1> QED
  BY <1>4, <1>5

\* What a selection that the registry accepts does to a window.
LEMMA AcceptedInOrder ==
  ASSUME NEW t \in Seq(Nat), NEW q \in Seq(Nat), NEW n \in Nat,
         InOrder(t, q), UpTo(t, n), UpTo(q, n)
  PROVE  /\ InOrder(t, Pushed(q, n + 1))
         /\ UpTo(t, n + 1) /\ UpTo(Pushed(q, n + 1), n + 1)
<1> DEFINE p == Pushed(q, n + 1)
<1>1. PICK cut \in {0, 1} : IsPushed(p, q, n + 1, cut)
  BY PushedAt
<1> HIDE DEF p
<1>2. /\ Len(q) \in Nat /\ Len(p) \in Nat /\ DOMAIN q = 1 .. Len(q)
      /\ cut = 0 \/ cut = 1
      /\ Len(p) = Len(q) + 1 - cut /\ DOMAIN p = 1 .. Len(p)
  BY <1>1 DEF IsPushed
<1>3. \A i \in DOMAIN p : i = Len(p) \/ (i \in 1 .. Len(q) - cut /\ i + cut \in DOMAIN q)
  BY <1>2
<1>4. \A i \in DOMAIN p : p[i] = n + 1 \/ (i + cut \in DOMAIN q /\ p[i] = q[i + cut])
  BY <1>1, <1>2, <1>3 DEF IsPushed
<1>5. UpTo(p, n + 1) /\ UpTo(t, n + 1)
  <2>1. \A i \in DOMAIN q : q[i] \in Nat
    OBVIOUS
  <2>2. \A i \in DOMAIN t : t[i] \in Nat
    OBVIOUS
  <2> QED
    BY <1>4, <2>1, <2>2 DEF UpTo
<1>6. Ascending(p)
  <2> SUFFICES ASSUME NEW i \in DOMAIN p, NEW j \in DOMAIN p, i < j
               PROVE  p[i] < p[j]
    BY DEF Ascending
  <2>1. i # Len(p) /\ i \in Nat /\ j \in Nat
    BY SMTT(30), <1>1, <1>2 DEF IsPushed
  <2>2. i + cut \in DOMAIN q /\ p[i] = q[i + cut] /\ q[i + cut] \in Nat
    <3>1. i \in 1 .. Len(q) - cut /\ i + cut \in DOMAIN q
      BY <1>3, <2>1
    <3>2. p[i] = q[i + cut]
      BY <1>1, <3>1 DEF IsPushed
    <3>3. \A e \in DOMAIN q : q[e] \in Nat
      OBVIOUS
    <3> QED
      BY <3>1, <3>2, <3>3
  <2>3. CASE j = Len(p)
    <3>1. p[j] = n + 1
      BY <1>1, <2>3 DEF IsPushed
    <3> QED
      BY <2>2, <3>1 DEF UpTo
  <2>4. CASE j # Len(p)
    <3>1. j + cut \in DOMAIN q /\ p[j] = q[j + cut]
      BY <1>1, <1>3, <2>4 DEF IsPushed
    <3> QED
      BY <2>1, <2>2, <3>1 DEF InOrder, Ascending
  <2> QED
    BY <2>3, <2>4
<1>7. \A i \in DOMAIN t, j \in DOMAIN p : t[i] < p[j]
  <2> SUFFICES ASSUME NEW i \in DOMAIN t, NEW j \in DOMAIN p
               PROVE  t[i] < p[j]
    OBVIOUS
  <2>1. t[i] \in Nat /\ t[i] <= n
    BY DEF UpTo
  <2> QED
    BY SMTT(30), <1>4, <2>1 DEF InOrder
<1> QED
  BY <1>5, <1>6, <1>7 DEF InOrder, p

LEMMA AcceptedAligned ==
  ASSUME NEW a \in Seq(Nat), NEW q \in Seq(Nat), NEW r \in Nat, Aligned(a, q)
  PROVE  Aligned(Append(a, r), Pushed(q, r))
<1> DEFINE p == Pushed(q, r)
           b == Append(a, r)
<1>1. PICK cut \in {0, 1} : IsPushed(p, q, r, cut)
  BY PushedAt
<1>2. Len(b) = Len(a) + 1 /\ (\A i \in 1 .. Len(a) : b[i] = a[i]) /\ b[Len(a) + 1] = r
  BY AppendedAt
<1> HIDE DEF p, b
<1>3. /\ Len(a) \in Nat /\ Len(q) \in Nat /\ Len(p) = Len(q) + 1 - cut
      /\ cut = 0 \/ cut = 1
  BY <1>1 DEF IsPushed
<1> SUFFICES ASSUME NEW k \in 0 .. Len(b) - 1, k < Len(p)
             PROVE  b[Len(b) - k] = p[Len(p) - k]
  BY DEF Aligned, p, b
<1>4. CASE k = 0
  BY <1>1, <1>2, <1>3, <1>4 DEF IsPushed
<1>5. CASE k # 0
  <2>0. PICK m \in Int : m = k - 1
    BY <1>5
  <2>1. m \in 0 .. Len(a) - 1 /\ m < Len(q) /\ Len(p) - k \in 1 .. Len(q) - cut
    BY <1>2, <1>3, <1>5, <2>0
  <2>2. b[Len(b) - k] = a[Len(a) - m]
    <3>1. Len(b) - k = Len(a) - m /\ Len(a) - m \in 1 .. Len(a)
      BY <1>2, <1>3, <2>0, <2>1
    <3> QED
      BY <1>2, <3>1
  <2>3. p[Len(p) - k] = q[Len(q) - m]
    <3>1. Len(p) - k + cut = Len(q) - m
      BY <1>3, <2>0, <2>1
    <3>2. p[Len(p) - k] = q[Len(p) - k + cut]
      BY <1>1, <2>1 DEF IsPushed
    <3> QED
      BY <3>1, <3>2
  <2>4. a[Len(a) - m] = q[Len(q) - m]
    BY <2>1 DEF Aligned
  <2> QED
    BY <2>2, <2>3, <2>4
<1> QED
  BY <1>4, <1>5

LEMMA AcceptedKept ==
  ASSUME NEW a \in Seq(Nat), NEW t, NEW q \in Seq(Nat), NEW r \in Nat,
         Aligned(a, q), Kept(a, t, q)
  PROVE  Kept(Append(a, r), t, Pushed(q, r))
<1> DEFINE p == Pushed(q, r)
           b == Append(a, r)
<1>1. PICK cut \in {0, 1} : IsPushed(p, q, r, cut)
  BY PushedAt
<1>2. /\ Len(b) = Len(a) + 1 /\ DOMAIN b = 1 .. Len(a) + 1
      /\ (\A i \in 1 .. Len(a) : b[i] = a[i]) /\ b[Len(a) + 1] = r
  BY AppendedAt
<1> HIDE DEF p, b
<1>3. /\ Len(a) \in Nat /\ Len(q) \in Nat /\ Len(p) = Len(q) + 1 - cut
      /\ DOMAIN q = 1 .. Len(q) /\ DOMAIN a = 1 .. Len(a) /\ DOMAIN p = 1 .. Len(p)
      /\ Limit \in Nat /\ Limit > 0
  BY <1>1, SubWindowsAssumption DEF IsPushed
<1> SUFFICES ASSUME NEW i \in DOMAIN b
             PROVE  b[i] \in Range(t) \/ b[i] \in Range(p) \/ Len(b) - i >= Limit
  BY DEF Kept, p, b
<1>4. CASE i = Len(b)
  <2>1. b[i] = p[Len(p)] /\ Len(p) \in DOMAIN p
    BY <1>1, <1>2, <1>3, <1>4 DEF IsPushed
  <2> QED
    BY <2>1 DEF Range
<1>5. CASE i # Len(b)
  <2>1. i \in 1 .. Len(a) /\ i \in DOMAIN a /\ b[i] = a[i]
    BY <1>2, <1>3, <1>5
  <2>2. CASE a[i] \in Range(t) \/ Len(a) - i >= Limit
    BY <1>2, <1>3, <2>1, <2>2
  <2>3. CASE cut = 0 /\ a[i] \in Range(q)
    <3>1. PICK j \in DOMAIN q : a[i] = q[j]
      BY <2>3 DEF Range
    <3>2. j \in DOMAIN p /\ p[j] = q[j]
      BY <1>1, <1>3, <2>3 DEF IsPushed
    <3> QED
      BY <2>1, <3>1, <3>2 DEF Range
  <2>4. CASE cut = 1 /\ Len(a) - i < Limit
    <3>0. PICK k \in Int : k = Len(a) - i
      BY <1>3, <2>1
    <3>1. k \in 0 .. Len(a) - 1 /\ Len(q) >= Limit
      BY SMTT(30), <1>1, <1>3, <2>1, <2>4, <3>0 DEF IsPushed
    <3>2. CASE k = Limit - 1
      BY <1>2, <1>3, <2>1, <3>0, <3>2
    <3>3. CASE k < Limit - 1
      <4>1. a[i] = q[Len(q) - k]
        <5>1. Len(a) - k = i /\ k < Len(q)
          BY SMTT(30), <1>3, <2>1, <3>0, <3>1, <3>3
        <5> QED
          BY <3>1, <5>1 DEF Aligned
      <4>2. Len(q) - k - 1 \in 1 .. Len(q) - 1
        BY <1>3, <3>1, <3>3
      <4>3. p[Len(q) - k - 1] = q[Len(q) - k] /\ Len(q) - k - 1 \in DOMAIN p
        <5>1. Len(q) - k - 1 \in 1 .. Len(q) - cut /\ Len(q) - k - 1 + cut = Len(q) - k
          BY <1>3, <2>4, <3>1, <4>2
        <5>2. Len(q) - k - 1 \in DOMAIN p
          BY <1>3, <2>4, <3>1, <4>2
        <5> QED
          BY <1>1, <5>1, <5>2 DEF IsPushed
      <4> QED
        BY <2>1, <4>1, <4>3 DEF Range
    <3> QED
      BY SMTT(30), <1>3, <2>1, <2>4, <3>0, <3>2, <3>3
  <2> QED
    BY <1>3, <2>1, <2>2, <2>3, <2>4 DEF Kept
<1> QED
  BY <1>4, <1>5

\* What a window that takes its requests has taken then.
LEMMA TakenInOrder ==
  ASSUME NEW t \in Seq(Nat), NEW q \in Seq(Nat), NEW n \in Nat, InOrder(t, q), UpTo(t, n), UpTo(q, n)
  PROVE  /\ t \o q \in Seq(Nat)
         /\ Ascending(t \o q) /\ UpTo(t \o q, n)
         /\ Range(t) \subseteq Range(t \o q) /\ Range(q) \subseteq Range(t \o q)
<1> DEFINE s == t \o q
<1>1. /\ s \in Seq(Nat) /\ Len(s) = Len(t) + Len(q)
      /\ \A i \in 1 .. Len(s) : s[i] = IF i <= Len(t) THEN t[i] ELSE q[i - Len(t)]
  OBVIOUS
<1> HIDE DEF s
<1>2. /\ Len(t) \in Nat /\ Len(q) \in Nat /\ Len(s) = Len(t) + Len(q)
      /\ DOMAIN t = 1 .. Len(t) /\ DOMAIN q = 1 .. Len(q) /\ DOMAIN s = 1 .. Len(s)
  BY <1>1
<1>3. \A i \in DOMAIN s : \/ i \in DOMAIN t /\ s[i] = t[i]
                          \/ i - Len(t) \in DOMAIN q /\ s[i] = q[i - Len(t)]
  BY SMTT(30), <1>1, <1>2
<1>4. Ascending(s)
  <2> SUFFICES ASSUME NEW i \in DOMAIN s, NEW j \in DOMAIN s, i < j
               PROVE  s[i] < s[j]
    BY DEF Ascending
  <2>1. CASE j <= Len(t)
    <3>1. i \in DOMAIN t /\ j \in DOMAIN t /\ s[i] = t[i] /\ s[j] = t[j]
      BY <1>1, <1>2, <2>1
    <3> QED
      BY <3>1 DEF InOrder, Ascending
  <2>2. CASE i <= Len(t) /\ ~(j <= Len(t))
    <3>1. i \in DOMAIN t /\ j - Len(t) \in DOMAIN q /\ s[i] = t[i] /\ s[j] = q[j - Len(t)]
      BY SMTT(30), <1>1, <1>2, <2>2
    <3> QED
      BY <3>1 DEF InOrder
  <2>3. CASE ~(i <= Len(t))
    <3>0. i \in 1 .. Len(s) /\ j \in 1 .. Len(s) /\ ~(j <= Len(t))
      BY <1>2, <2>3
    <3>1. /\ i - Len(t) \in DOMAIN q /\ j - Len(t) \in DOMAIN q
          /\ i - Len(t) < j - Len(t)
      BY <1>2, <2>3, <3>0
    <3>2. s[i] = q[i - Len(t)] /\ s[j] = q[j - Len(t)]
      BY <1>1, <2>3, <3>0
    <3> QED
      BY <3>1, <3>2 DEF InOrder, Ascending
  <2> QED
    BY <2>1, <2>2, <2>3
<1>5. UpTo(s, n)
  BY <1>3 DEF UpTo
<1>6. \A i \in DOMAIN t : i \in DOMAIN s /\ s[i] = t[i]
  BY <1>1, <1>2
<1>7. ASSUME NEW i \in DOMAIN q
      PROVE  i + Len(t) \in DOMAIN s /\ s[i + Len(t)] = q[i]
  <2>1. i + Len(t) \in 1 .. Len(s) /\ ~(i + Len(t) <= Len(t)) /\ i + Len(t) - Len(t) = i
    BY SMTT(30), <1>2
  <2> QED
    BY <1>1, <1>2, <2>1
<1>8. Range(t) \subseteq Range(s)
  BY <1>6 DEF Range
<1>9. Range(q) \subseteq Range(s)
  BY <1>7 DEF Range
<1> QED
  BY <1>1, <1>4, <1>5, <1>8, <1>9 DEF s

-----------------------------------------------------------------------------
(* The inductive invariant of the line selections *)

RequestTypes ==
  /\ taken \in [Windows -> Seq(Nat)]
  /\ accepted \in [Windows -> Seq(Nat)]

Arriving(w) ==
  /\ InOrder(taken[w], disk.requests[w])
  /\ UpTo(taken[w], sent) /\ UpTo(disk.requests[w], sent)
  /\ Aligned(accepted[w], disk.requests[w])

Delivered(w) ==
  w \in open \ slept /\ Viewer \in alive => Kept(accepted[w], taken[w], disk.requests[w])

RequestInv == RequestTypes /\ \A w \in Windows : Arriving(w) /\ Delivered(w)

\* Nothing is delivered to v in this step; the requests that wait are lost only
\* if nothing is promised to v afterwards.
Quiet(v) ==
  /\ disk'.requests[v] \in {disk.requests[v], << >>}
  /\ accepted'[v] \in {accepted[v], << >>}
  /\ v \in open' \ slept' /\ Viewer \in alive' =>
       \/ accepted'[v] = << >>
       \/ /\ v \in open \ slept /\ Viewer \in alive
          /\ disk'.requests[v] = disk.requests[v] /\ accepted'[v] = accepted[v]

LEMMA NothingWaits ==
  ASSUME NEW t \in Seq(Nat), NEW n \in Nat, NEW a \in Seq(Nat), Ascending(t)
  PROVE  InOrder(t, << >>) /\ UpTo(<< >>, n) /\ Aligned(a, << >>)
<1>1. DOMAIN << >> = {} /\ Len(<< >>) = 0 /\ Len(a) \in Nat
  OBVIOUS
<1> QED
  BY <1>1 DEF InOrder, Ascending, UpTo, Aligned

LEMMA NothingAccepted ==
  ASSUME NEW t, NEW q
  PROVE  Aligned(<< >>, q) /\ Kept(<< >>, t, q)
<1>1. DOMAIN << >> = {} /\ Len(<< >>) = 0
  OBVIOUS
<1>2. 0 .. Len(<< >>) - 1 = {}
  BY <1>1
<1> QED
  BY <1>1, <1>2 DEF Aligned, Kept

LEMMA QuietStep ==
  ASSUME IInv, RequestInv, UNCHANGED <<sent, taken>>,
         accepted' \in [Windows -> Seq(Nat)],
         \A v \in Windows : Quiet(v)
  PROVE  RequestInv'
<1>1. RequestTypes'
  BY DEF RequestInv, RequestTypes
<1> SUFFICES ASSUME NEW v \in Windows
             PROVE  (Arriving(v) /\ Delivered(v))'
  BY <1>1 DEF RequestInv
<1>2. /\ taken[v] \in Seq(Nat) /\ accepted[v] \in Seq(Nat) /\ sent \in Nat
      /\ Ascending(taken[v]) /\ Arriving(v) /\ Delivered(v) /\ Quiet(v)
  BY DEF RequestInv, RequestTypes, IInv, Types, Arriving, InOrder
<1>3. PICK q, a : q = disk'.requests[v] /\ a = accepted'[v]
  OBVIOUS
<1>4. /\ q \in {disk.requests[v], << >>} /\ a \in {accepted[v], << >>}
      /\ v \in open' \ slept' /\ Viewer \in alive' =>
           \/ a = << >>
           \/ v \in open \ slept /\ Viewer \in alive /\ q = disk.requests[v] /\ a = accepted[v]
  BY <1>2, <1>3 DEF Quiet
<1>5. InOrder(taken[v], q) /\ UpTo(taken[v], sent) /\ UpTo(q, sent) /\ Aligned(a, q)
  <2>1. a \in Seq(Nat)
    <3>1. << >> \in Seq(Nat)
      OBVIOUS
    <3> QED
      BY <1>2, <1>4, <3>1
  <2>2. CASE q = << >>
    BY <1>2, <2>1, <2>2, NothingWaits DEF Arriving
  <2>3. CASE q = disk.requests[v] /\ a = << >>
    BY <1>2, <2>3, NothingAccepted DEF Arriving
  <2>4. CASE q = disk.requests[v] /\ a = accepted[v]
    BY <1>2, <2>4 DEF Arriving
  <2> QED
    BY <1>4, <2>2, <2>3, <2>4
<1>6. Arriving(v)'
  BY <1>3, <1>5 DEF Arriving
<1>7. Delivered(v)'
  <2> SUFFICES ASSUME v \in open' \ slept', Viewer \in alive'
               PROVE  Kept(a, taken[v], q)
    BY <1>3 DEF Delivered
  <2>1. CASE a = << >>
    BY <2>1, NothingAccepted
  <2>2. CASE v \in open \ slept /\ Viewer \in alive /\ q = disk.requests[v] /\ a = accepted[v]
    BY <1>2, <2>2 DEF Delivered
  <2> QED
    BY <1>4, <2>1, <2>2
<1> QED
  BY <1>6, <1>7

\* What operations on the directory do to the requests.
LEMMA ReadingRequests ==
  ASSUME NEW d \in Directory, NEW v \in Windows
  PROVE  LET e == ReadActive(ReadSources(d))
         IN  /\ e.requests[v] \in {d.requests[v], << >>}
             /\ ReadSources(d).requests[v] \in {d.requests[v], << >>}
             /\ d.source[v] \in {NoSource, 0, 1} =>
                  e.requests[v] = d.requests[v] /\ ReadSources(d).requests[v] = d.requests[v]
<1> DEFINE r == ReadSources(d)
           req == [w \in Windows |-> IF d.source[w] > StaleAfter THEN << >> ELSE d.requests[w]]
<1>1. r \in Directory
  BY ReadSourcesKeeps
<1>2. r.requests = req
  BY DEF ReadSources, Directory
<1>3. d.source[v] \in {NoSource, 0, 1} => ~(d.source[v] > StaleAfter)
  BY SubWindowsAssumption DEF NoSource
<1>4. req[v] = IF d.source[v] > StaleAfter THEN << >> ELSE d.requests[v]
  OBVIOUS
<1> HIDE DEF r, req
<1>5. ReadActive(r).requests = r.requests
  BY <1>1 DEF ReadActive, Directory
<1> QED
  BY <1>2, <1>3, <1>4, <1>5 DEF r

LEMMA RequestsStay ==
  ASSUME NEW d \in Directory, NEW w \in Windows, NEW ids \in SUBSET Windows
  PROVE  /\ WithSource(d, w).requests = d.requests
         /\ Registered(d, w).requests = d.requests
         /\ Removed(d, w).requests = d.requests
         /\ Activated(d, w).requests = d.requests
         /\ Touched(d, ids).requests = d.requests
         /\ WithoutSource(d, w).requests = [d.requests EXCEPT ![w] = << >>]
<1>1. WithSource(d, w).requests = d.requests
  BY DEF WithSource, Directory
<1>2. /\ Registered(d, w).requests = d.requests
      /\ Removed(d, w).requests = d.requests
      /\ Activated(d, w).requests = d.requests
  BY DEF Registered, Removed, Activated, WithActive, Directory
<1>3. Touched(d, ids).requests = d.requests
  BY DEF Touched, Directory
<1>4. WithoutSource(d, w).requests = [d.requests EXCEPT ![w] = << >>]
  BY DEF WithoutSource, Directory
<1> QED
  BY <1>1, <1>2, <1>3, <1>4

LEMMA RequestsDoNotAge ==
  ASSUME NEW d \in Directory, NEW by
  PROVE  Older(d, Windows, by).requests = d.requests
BY DEF Older, Directory

LEMMA CommandRequests ==
  ASSUME NEW w \in Windows, NEW d \in Directory, Command(w, d), NEW v \in Windows,
         d.requests[v] \in {disk.requests[v], << >>}
  PROVE  /\ UNCHANGED <<alive, sent, taken>>
         /\ disk'.requests[v] \in {disk.requests[v], << >>}
         /\ d.source[v] \in {NoSource, 0, 1} => disk'.requests[v] = d.requests[v]
BY ReadingRequests DEF Command

\* A window to which something is promised is not stale.
LEMMA PromisedAreFresh ==
  ASSUME IInv, NEW v \in open \ slept
  PROVE  /\ v \in Windows /\ disk.source[v] \in {NoSource, 0, 1}
         /\ Owner[v] \in alive
BY DEF IInv, Types, Knowledge, Ages

\* The window that is listed, when a command of w writes its source.
LEMMA ListedQuiet ==
  ASSUME IInv, RequestInv, NEW w \in Windows, NEW d \in Directory, Listed(w), Command(w, d),
         \A v \in Windows : d.requests[v] \in {disk.requests[v], << >>},
         \A v \in Windows : v \in open \ slept =>
            d.requests[v] = disk.requests[v] /\ d.source[v] \in {NoSource, 0, 1}
  PROVE  RequestInv'
<1>1. /\ open' = open \cup {w} /\ slept' = slept \ {w}
      /\ accepted' = [accepted EXCEPT ![w] = IF w \notin open \/ w \in slept THEN << >> ELSE @]
  BY DEF Listed
<1>2. accepted \in [Windows -> Seq(Nat)]
  BY DEF RequestInv, RequestTypes
<1>3. << >> \in Seq(Nat)
  OBVIOUS
<1>4. accepted' \in [Windows -> Seq(Nat)]
  BY <1>1, <1>2, <1>3
<1>5. ASSUME NEW v \in Windows PROVE Quiet(v)
  <2>1. /\ disk'.requests[v] \in {disk.requests[v], << >>}
        /\ UNCHANGED <<alive, sent, taken>>
    BY CommandRequests
  <2>2. accepted'[v] \in {accepted[v], << >>}
    BY <1>1, <1>2
  <2>3. CASE v = w /\ (w \notin open \/ w \in slept)
    <3>1. accepted'[v] = << >>
      BY <1>1, <1>2, <2>3
    <3> QED
      BY <2>1, <2>2, <3>1 DEF Quiet
  <2>4. CASE v \in open \ slept
    <3>1. accepted'[v] = accepted[v]
      BY <1>1, <1>2, <2>4
    <3>2. disk'.requests[v] = disk.requests[v]
      BY <2>4, CommandRequests
    <3> QED
      BY <2>1, <2>2, <2>4, <3>1, <3>2 DEF Quiet
  <2>5. CASE v # w /\ v \notin open \ slept
    BY <1>1, <2>1, <2>2, <2>5 DEF Quiet
  <2> QED
    BY <2>3, <2>4, <2>5
<1>6. UNCHANGED <<sent, taken>>
  BY DEF Command
<1> QED
  BY <1>4, <1>5, <1>6, QuietStep

LEMMA RegisterDelivers ==
  ASSUME IInv, RequestInv, NEW w \in Windows, Register(w)
  PROVE  RequestInv'
<1> DEFINE d == WithSource(disk, w)
           e == ReadActive(ReadSources(d))
<1>1. disk \in Directory
  BY DEF IInv, Types
<1>2. d \in Directory /\ d.source = [disk.source EXCEPT ![w] = 0] /\ d.requests = disk.requests
  BY <1>1, WithSourceEffect, RequestsStay
<1>3. e \in Directory
  BY <1>2, ReadSourcesKeeps, ReadActiveKeeps
<1>4. \A v \in Windows :
        /\ e.requests[v] \in {disk.requests[v], << >>}
        /\ d.source[v] \in {NoSource, 0, 1} =>
             e.requests[v] = disk.requests[v] /\ e.source[v] = d.source[v]
  <2> SUFFICES ASSUME NEW v \in Windows
               PROVE  /\ e.requests[v] \in {d.requests[v], << >>}
                      /\ d.source[v] \in {NoSource, 0, 1} =>
                           e.requests[v] = d.requests[v] /\ e.source[v] = d.source[v]
    BY <1>2
  <2>1. d \in Directory
    BY <1>2
  <2> HIDE DEF d
  <2> QED
    BY <2>1, ReadingRequests, LivingSurviveReading
<1>5. /\ Registered(e, w) \in Directory /\ Registered(e, w).source = e.source
      /\ Registered(e, w).requests = e.requests
  BY <1>3, ActiveKeepsSources, RequestsStay
<1>6. Listed(w) /\ Command(w, Registered(e, w))
  BY DEF Register
<1>7. disk.source \in [Windows -> Int]
  BY <1>1 DEF Directory
<1> HIDE DEF d, e
<1>8. \A v \in Windows : v \in open \ slept => d.source[v] \in {NoSource, 0, 1}
  BY <1>2, <1>7, PromisedAreFresh
<1> QED
  BY <1>4, <1>5, <1>6, <1>8, ListedQuiet

LEMMA PublishDelivers ==
  ASSUME IInv, RequestInv, NEW w \in Windows, Publish(w)
  PROVE  RequestInv'
<1> DEFINE d == WithSource(disk, w)
<1>1. disk \in Directory /\ disk.source \in [Windows -> Int]
  BY DEF IInv, Types, Directory
<1>2. d \in Directory /\ d.source = [disk.source EXCEPT ![w] = 0] /\ d.requests = disk.requests
  BY <1>1, WithSourceEffect, RequestsStay
<1>3. Listed(w) /\ Command(w, d)
  BY DEF Publish
<1> HIDE DEF d
<1>4. \A v \in Windows : v \in open \ slept => d.source[v] \in {NoSource, 0, 1}
  BY <1>1, <1>2, PromisedAreFresh
<1> QED
  BY <1>2, <1>3, <1>4, ListedQuiet

\* A step that adds no window and keeps what waits for those that are promised
\* something.
LEMMA StillQuiet ==
  ASSUME IInv, RequestInv, open' \subseteq open, open \cap slept \subseteq slept' \cup (open \ open'),
         alive' \subseteq alive,
         UNCHANGED <<sent, accepted, taken>>,
         \A v \in Windows : disk'.requests[v] \in {disk.requests[v], << >>},
         \A v \in Windows : v \in (open \cap open') \ slept /\ Viewer \in alive' =>
            disk'.requests[v] = disk.requests[v]
  PROVE  RequestInv'
<1>1. accepted' \in [Windows -> Seq(Nat)]
  BY DEF RequestInv, RequestTypes
<1>2. \A v \in Windows : Quiet(v)
  BY DEF Quiet
<1> QED
  BY <1>1, <1>2, QuietStep

LEMMA ActivateDelivers ==
  ASSUME IInv, RequestInv, NEW w \in Windows, Activate(w)
  PROVE  RequestInv'
<1> DEFINE r == ReadSources(disk)
           d == Activated(r, w)
<1>1. disk \in Directory
  BY DEF IInv, Types
<1>2. r \in Directory
  BY <1>1, ReadSourcesKeeps
<1>3. /\ d \in Directory /\ d.source = r.source /\ d.requests = r.requests
  BY <1>2, ActiveKeepsSources, RequestsStay
<1>4. \A v \in Windows :
        /\ r.requests[v] \in {disk.requests[v], << >>}
        /\ disk.source[v] \in {NoSource, 0, 1} =>
             r.requests[v] = disk.requests[v] /\ r.source[v] = disk.source[v]
  BY <1>1, ReadingRequests, ReadSourcesKeeps
<1>5. Command(w, d) /\ UNCHANGED <<slept, open, accepted>>
  BY DEF Activate
<1> HIDE DEF r, d
<1>6. UNCHANGED <<alive, sent, taken>>
  BY <1>5 DEF Command
<1>7. \A v \in Windows : disk'.requests[v] \in {disk.requests[v], << >>}
  BY <1>3, <1>4, <1>5, CommandRequests
<1>8. \A v \in Windows : v \in open \ slept => disk'.requests[v] = disk.requests[v]
  BY <1>3, <1>4, <1>5, CommandRequests, PromisedAreFresh
<1> QED
  BY <1>5, <1>6, <1>7, <1>8, StillQuiet

LEMMA UnregisterDelivers ==
  ASSUME IInv, RequestInv, NEW w \in Windows, Unregister(w)
  PROVE  RequestInv'
<1> DEFINE d == WithoutSource(disk, w)
           e == ReadActive(ReadSources(d))
<1>1. disk \in Directory /\ disk.source \in [Windows -> Int] /\ disk.requests \in [Windows -> Seq(Nat)]
  BY DEF IInv, Types, Directory
<1>2. /\ d \in Directory /\ d.source = [disk.source EXCEPT ![w] = NoSource]
      /\ d.requests = [disk.requests EXCEPT ![w] = << >>]
  BY <1>1, WithoutSourceEffect, RequestsStay
<1>3. e \in Directory
  BY <1>2, ReadSourcesKeeps, ReadActiveKeeps
<1>4. \A v \in Windows :
        /\ e.requests[v] \in {d.requests[v], << >>}
        /\ d.source[v] \in {NoSource, 0, 1} =>
             e.requests[v] = d.requests[v] /\ e.source[v] = d.source[v]
  BY <1>2, ReadingRequests, LivingSurviveReading
<1>5. /\ Removed(e, w) \in Directory /\ Removed(e, w).source = e.source
      /\ Removed(e, w).requests = e.requests
  BY <1>3, ActiveKeepsSources, RequestsStay
<1>6. /\ open' = open \ {w} /\ UNCHANGED <<slept, accepted>>
      /\ Command(w, Removed(e, w))
  BY DEF Unregister
<1> HIDE DEF d, e
<1>7. UNCHANGED <<alive, sent, taken>>
  BY <1>6 DEF Command
<1>8. \A v \in Windows : e.requests[v] \in {disk.requests[v], << >>}
  BY <1>1, <1>2, <1>4
<1>9. \A v \in Windows : disk'.requests[v] \in {disk.requests[v], << >>}
  BY <1>5, <1>6, <1>8, CommandRequests
<1>10. ASSUME NEW v \in open' \ slept
       PROVE  disk'.requests[v] = disk.requests[v]
  <2>1. v \in Windows /\ v # w /\ disk.source[v] \in {NoSource, 0, 1}
    BY <1>6, <1>10, PromisedAreFresh
  <2>2. d.source[v] = disk.source[v] /\ d.requests[v] = disk.requests[v]
    BY <1>1, <1>2, <2>1
  <2>3. e.source[v] = disk.source[v] /\ e.requests[v] = disk.requests[v]
    BY <1>4, <2>1, <2>2
  <2> QED
    BY <1>5, <1>6, <2>1, <2>3, CommandRequests
<1> QED
  BY <1>6, <1>7, <1>9, <1>10, StillQuiet

\* The heartbeats, time, suspensions and crashes.
LEMMA TimeDelivers ==
  ASSUME IInv, RequestInv,
         Tick \/ Suspend \/ \E p \in Processes : Collect(p) \/ Touch(p) \/ Crash(p)
  PROVE  RequestInv'
<1>0. disk \in Directory
  BY DEF IInv, Types
<1>1. CASE Tick
  <2>1. disk'.requests = disk.requests /\ UNCHANGED <<alive, slept, open, sent, accepted, taken>>
    BY <1>0, <1>1, RequestsDoNotAge DEF Tick, lines
  <2> QED
    BY <2>1, StillQuiet
<1>2. CASE Suspend
  <2>1. /\ disk'.requests = disk.requests /\ slept' = open
        /\ UNCHANGED <<alive, open, sent, accepted, taken>>
    BY <1>0, <1>2, RequestsDoNotAge DEF Suspend, lines
  <2> QED
    BY <2>1, StillQuiet
<1>3. ASSUME NEW p \in Processes, Collect(p) PROVE RequestInv'
  <2>1. UNCHANGED <<disk, alive, slept, open, sent, accepted, taken>>
    BY <1>3 DEF Collect, lines
  <2> QED
    BY <2>1, StillQuiet
<1>4. ASSUME NEW p \in Processes, Touch(p) PROVE RequestInv'
  <2>1. /\ beating[p] # None
        /\ disk' = IF beating[p] = {} THEN disk ELSE Touched(ReadSources(disk), beating[p])
        /\ UNCHANGED <<alive, slept, open, sent, accepted, taken>>
    BY <1>4 DEF Touch, lines
  <2>2. beating[p] \in SUBSET Windows
    BY <2>1 DEF IInv, Types
  <2>3. ReadSources(disk) \in Directory
    BY <1>0, ReadSourcesKeeps
  <2>4. disk'.requests = disk.requests \/ disk'.requests = ReadSources(disk).requests
    BY <2>1, <2>2, <2>3, RequestsStay
  <2>5. \A v \in Windows : disk'.requests[v] \in {disk.requests[v], << >>}
    BY <1>0, <2>4, ReadingRequests
  <2>6. \A v \in Windows : v \in open \ slept => disk'.requests[v] = disk.requests[v]
    BY <1>0, <2>4, ReadingRequests, PromisedAreFresh
  <2> QED
    BY <2>1, <2>5, <2>6, StillQuiet
<1>5. ASSUME NEW p \in Processes, Crash(p) PROVE RequestInv'
  <2>1. /\ alive' = alive \ {p} /\ open' \subseteq open
        /\ UNCHANGED <<slept, sent, accepted, taken>>
    BY <1>5 DEF Crash, lines
  <2>2. \/ disk'.requests = disk.requests
        \/ \E w \in Windows : /\ p = Viewer
                              /\ disk'.requests = [disk.requests EXCEPT ![w] = << >>]
    <3>1. ASSUME NEW w, disk' = [disk EXCEPT !.source[w] = NoSource]
          PROVE  disk'.requests = disk.requests
      BY <1>0, <3>1 DEF Directory
    <3>2. ASSUME NEW w \in Windows, disk' = [disk EXCEPT !.requests[w] = << >>]
          PROVE  disk'.requests = [disk.requests EXCEPT ![w] = << >>]
      BY <1>0, <3>2 DEF Directory
    <3>3. ASSUME disk' = [disk EXCEPT !.active = None]
          PROVE  disk'.requests = disk.requests
      BY <1>0, <3>3 DEF Directory
    <3> QED
      BY <1>5, <3>1, <3>2, <3>3 DEF Crash
  <2>3. \A v \in Windows : /\ disk'.requests[v] \in {disk.requests[v], << >>}
                           /\ Viewer \in alive' => disk'.requests[v] = disk.requests[v]
    BY <1>0, <2>1, <2>2 DEF Directory
  <2> QED
    BY <2>1, <2>3, StillQuiet
<1> QED
  BY <1>1, <1>2, <1>3, <1>4, <1>5

\* A selection is accepted for w.
LEMMA SelectDelivers ==
  ASSUME IInv, RequestInv, NEW w \in Windows, Select(w)
  PROVE  RequestInv'
<1> DEFINE d == ReadSources(disk)
<1>0. disk \in Directory /\ d \in Directory /\ d.requests \in [Windows -> Seq(Nat)] /\ sent \in Nat
  BY ReadSourcesKeeps DEF IInv, Types, Directory
<1>1. /\ sent' = sent + 1
      /\ UNCHANGED <<alive, slept, open, taken>>
      /\ \/ disk' = d /\ UNCHANGED accepted
         \/ /\ disk' = [d EXCEPT !.requests[w] = Pushed(@, sent + 1)]
            /\ accepted' = [accepted EXCEPT ![w] = Append(@, sent + 1)]
  BY DEF Select
<1>2. \A v \in Windows :
        /\ d.requests[v] \in {disk.requests[v], << >>}
        /\ v \in open \ slept => d.requests[v] = disk.requests[v]
  BY <1>0, ReadingRequests, PromisedAreFresh
<1> HIDE DEF d
<1>3. taken \in [Windows -> Seq(Nat)] /\ accepted \in [Windows -> Seq(Nat)]
  BY DEF RequestInv, RequestTypes
<1>4. ASSUME NEW v \in Windows
      PROVE  /\ taken[v] \in Seq(Nat) /\ accepted[v] \in Seq(Nat) /\ d.requests[v] \in Seq(Nat)
             /\ InOrder(taken[v], d.requests[v])
             /\ UpTo(taken[v], sent) /\ UpTo(d.requests[v], sent)
             /\ Aligned(accepted[v], d.requests[v])
             /\ v \in open \ slept /\ Viewer \in alive =>
                  Kept(accepted[v], taken[v], d.requests[v])
  <2>1. /\ taken[v] \in Seq(Nat) /\ accepted[v] \in Seq(Nat) /\ d.requests[v] \in Seq(Nat)
        /\ Arriving(v) /\ Delivered(v) /\ Ascending(taken[v])
    BY <1>0, <1>3 DEF RequestInv, Arriving, InOrder
  <2>2. CASE d.requests[v] = disk.requests[v]
    BY <2>1, <2>2 DEF Arriving, Delivered
  <2>3. CASE d.requests[v] = << >> /\ v \notin open \ slept
    BY <1>0, <2>1, <2>3, NothingWaits DEF Arriving
  <2> QED
    BY <1>2, <2>2, <2>3
<1>5. ASSUME NEW v \in Windows
      PROVE  UpTo(taken[v], sent + 1) /\ UpTo(d.requests[v], sent + 1)
  <2>1. \A i \in DOMAIN taken[v] : taken[v][i] \in Nat
    BY <1>4
  <2>2. \A i \in DOMAIN d.requests[v] : d.requests[v][i] \in Nat
    BY <1>4
  <2> QED
    BY <1>0, <1>4, <2>1, <2>2 DEF UpTo
<1>6. CASE disk' = d /\ UNCHANGED accepted
  <2>1. RequestTypes'
    BY <1>1, <1>3, <1>6 DEF RequestTypes
  <2>2. ASSUME NEW v \in Windows PROVE (Arriving(v) /\ Delivered(v))'
    BY <1>1, <1>4, <1>5, <1>6 DEF Arriving, Delivered
  <2> QED
    BY <2>1, <2>2 DEF RequestInv
<1>7. CASE /\ disk' = [d EXCEPT !.requests[w] = Pushed(@, sent + 1)]
           /\ accepted' = [accepted EXCEPT ![w] = Append(@, sent + 1)]
  <2>1. disk'.requests = [d.requests EXCEPT ![w] = Pushed(d.requests[w], sent + 1)]
    BY <1>0, <1>7 DEF Directory
  <2>2. accepted' \in [Windows -> Seq(Nat)]
    <3>1. Append(accepted[w], sent + 1) \in Seq(Nat)
      BY <1>0, <1>3, AppendedAt
    <3> QED
      BY <1>3, <1>7, <3>1
  <2>3. RequestTypes'
    BY <1>1, <1>3, <2>2 DEF RequestTypes
  <2>4. ASSUME NEW v \in Windows PROVE (Arriving(v) /\ Delivered(v))'
    <3>1. CASE v # w
      <4>1. disk'.requests[v] = d.requests[v] /\ accepted'[v] = accepted[v]
        BY <1>0, <1>3, <1>7, <2>1, <3>1
      <4> QED
        BY <1>1, <1>4, <1>5, <4>1 DEF Arriving, Delivered
    <3>2. CASE v = w
      <4>1. disk'.requests[v] = Pushed(d.requests[v], sent + 1) /\ accepted'[v] = Append(accepted[v], sent + 1)
        BY <1>0, <1>3, <1>7, <2>1, <3>2
      <4>2. /\ InOrder(taken[v], Pushed(d.requests[v], sent + 1))
            /\ UpTo(Pushed(d.requests[v], sent + 1), sent + 1)
        BY <1>0, <1>4, AcceptedInOrder
      <4>3. Aligned(Append(accepted[v], sent + 1), Pushed(d.requests[v], sent + 1))
        BY <1>0, <1>4, AcceptedAligned
      <4>4. v \in open \ slept /\ Viewer \in alive =>
              Kept(Append(accepted[v], sent + 1), taken[v], Pushed(d.requests[v], sent + 1))
        BY <1>0, <1>4, AcceptedKept
      <4> QED
        BY <1>1, <1>5, <4>1, <4>2, <4>3, <4>4 DEF Arriving, Delivered
    <3> QED
      BY <3>1, <3>2
  <2> QED
    BY <2>3, <2>4 DEF RequestInv
<1> QED
  BY <1>1, <1>6, <1>7

\* The window w receives what waits.
LEMMA TakeDelivers ==
  ASSUME IInv, RequestInv, NEW w \in Windows, Take(w)
  PROVE  RequestInv'
<1>0. disk \in Directory /\ disk.requests \in [Windows -> Seq(Nat)] /\ sent \in Nat
  BY DEF IInv, Types, Directory
<1>1. /\ taken' = [taken EXCEPT ![w] = taken[w] \o disk.requests[w]]
      /\ disk' = [disk EXCEPT !.requests[w] = << >>]
      /\ UNCHANGED <<alive, slept, open, sent, accepted>>
  BY DEF Take
<1>2. disk'.requests = [disk.requests EXCEPT ![w] = << >>]
  BY <1>0, <1>1 DEF Directory
<1>3. taken \in [Windows -> Seq(Nat)] /\ accepted \in [Windows -> Seq(Nat)]
  BY DEF RequestInv, RequestTypes
<1>4. /\ taken[w] \in Seq(Nat) /\ accepted[w] \in Seq(Nat) /\ disk.requests[w] \in Seq(Nat)
      /\ Arriving(w) /\ Delivered(w)
  BY <1>0, <1>3 DEF RequestInv
<1>5. PICK s : s = taken[w] \o disk.requests[w]
  OBVIOUS
<1>6. /\ s \in Seq(Nat) /\ Ascending(s) /\ UpTo(s, sent)
      /\ Range(taken[w]) \subseteq Range(s) /\ Range(disk.requests[w]) \subseteq Range(s)
  BY <1>0, <1>4, <1>5, TakenInOrder DEF Arriving
<1>7. RequestTypes'
  BY <1>1, <1>3, <1>5, <1>6 DEF RequestTypes
<1>8. ASSUME NEW v \in Windows PROVE (Arriving(v) /\ Delivered(v))'
  <2>1. CASE v # w
    <3>1. disk'.requests[v] = disk.requests[v] /\ taken'[v] = taken[v]
      BY <1>0, <1>1, <1>2, <1>3, <2>1
    <3> QED
      BY <1>1, <3>1 DEF RequestInv, Arriving, Delivered
  <2>2. CASE v = w
    <3>1. disk'.requests[v] = << >> /\ taken'[v] = s
      BY <1>0, <1>1, <1>2, <1>3, <1>5, <2>2
    <3>2. InOrder(s, << >>) /\ UpTo(<< >>, sent) /\ Aligned(accepted[v], << >>)
      BY <1>0, <1>4, <1>6, <2>2, NothingWaits
    <3>3. Kept(accepted[v], taken[v], disk.requests[v]) => Kept(accepted[v], s, << >>)
      BY <1>6, <2>2 DEF Kept
    <3>4. Arriving(v)'
      BY <1>1, <1>6, <3>1, <3>2 DEF Arriving
    <3>5. Delivered(v)'
      BY <1>1, <1>4, <2>2, <3>1, <3>3 DEF Delivered
    <3> QED
      BY <3>4, <3>5
  <2> QED
    BY <2>1, <2>2
<1> QED
  BY <1>7, <1>8 DEF RequestInv

LEMMA InitRequestInv == Init => RequestInv
<1> SUFFICES ASSUME Init PROVE RequestInv
  OBVIOUS
<1>1. /\ taken = [w \in Windows |-> << >>] /\ accepted = [w \in Windows |-> << >>]
      /\ disk.requests = [w \in Windows |-> << >>] /\ sent = 0
  BY DEF Init, EmptyDirectory
<1>2. << >> \in Seq(Nat) /\ Ascending(<< >>)
  BY DEF Ascending
<1>3. RequestTypes
  BY <1>1, <1>2 DEF RequestTypes
<1>4. ASSUME NEW w \in Windows PROVE Arriving(w) /\ Delivered(w)
  <2>1. taken[w] = << >> /\ accepted[w] = << >> /\ disk.requests[w] = << >> /\ sent = 0
    BY <1>1
  <2>2. InOrder(<< >>, << >>) /\ UpTo(<< >>, 0) /\ Aligned(<< >>, << >>) /\ Kept(<< >>, << >>, << >>)
    BY <1>2, NothingWaits, NothingAccepted
  <2> QED
    BY <2>1, <2>2 DEF Arriving, Delivered
<1> QED
  BY <1>3, <1>4 DEF RequestInv

LEMMA NextKeepsRequestInv == IInv /\ RequestInv /\ [Next]_vars => RequestInv'
<1> SUFFICES ASSUME IInv, RequestInv, [Next]_vars PROVE RequestInv'
  OBVIOUS
<1>1. CASE UNCHANGED vars
  BY <1>1, StillQuiet DEF vars
<1>2. CASE Next
  BY <1>2, RegisterDelivers, PublishDelivers, ActivateDelivers, UnregisterDelivers,
     SelectDelivers, TakeDelivers, TimeDelivers DEF Next
<1> QED
  BY <1>1, <1>2

\* Lines selected in the sub window arrive at their window in order and once,
\* and of those that were accepted while it is listed only what Limit later
\* ones displaced is missing: the request files of sub_window_registry.rs, for
\* every number of windows, processes and lines.
THEOREM SelectionsArrive == Spec => []RequestsAreDelivered
<1>1. Init => IInv /\ RequestInv
  BY InitIInv, InitRequestInv
<1>2. IInv /\ RequestInv /\ [Next]_vars => (IInv /\ RequestInv)'
  BY NextKeepsIInv, NextKeepsRequestInv
<1>3. IInv /\ RequestInv => RequestsAreDelivered
  <2> SUFFICES ASSUME IInv, RequestInv, NEW w \in Windows
               PROVE  RequestsAreDelivered!(w)
    BY DEF RequestsAreDelivered
  <2> DEFINE s == taken[w] \o disk.requests[w]
  <2>1. /\ taken[w] \in Seq(Nat) /\ disk.requests[w] \in Seq(Nat) /\ sent \in Nat
        /\ Arriving(w) /\ Delivered(w)
    BY DEF IInv, Types, Directory, RequestInv, RequestTypes
  <2>2. /\ s \in Seq(Nat) /\ Ascending(s)
        /\ Range(taken[w]) \subseteq Range(s) /\ Range(disk.requests[w]) \subseteq Range(s)
    BY <2>1, TakenInOrder DEF Arriving
  <2> HIDE DEF s
  <2>3. \A i \in 1 .. Len(s) - 1 : s[i] < s[i + 1]
    <3>1. Len(s) \in Nat /\ DOMAIN s = 1 .. Len(s)
      BY <2>2
    <3> QED
      BY <2>2, <3>1 DEF Ascending
  <2>4. w \in open /\ w \notin slept /\ Viewer \in alive =>
          \A i \in DOMAIN accepted[w] : accepted[w][i] \in Range(s) \/ Len(accepted[w]) - i >= Limit
    BY <2>1, <2>2 DEF Delivered, Kept
  <2> QED
    BY <2>3, <2>4 DEF s
<1> QED
  BY <1>1, <1>2, <1>3, PTL DEF Spec

-----------------------------------------------------------------------------
(* The preview of a session *)

Revisions == 0 .. MaxRevision
Text == [Sections -> Nat]
RenderingType ==
  [revision : Revisions \cup {NoRevision}, sections : Text, paths : [Sections -> Paths \cup {Unknown}]]
DocumentType == [revision : Revisions, sections : Text, path : Paths \cup {Unknown}]
ImpactType == [revision : Revisions \cup {NoRevision}, section : Sections \cup {Unknown}]
ResponseType ==
  [kind : {"none", "full", "patch"}, base : Revisions \cup {NoRevision},
   section : Sections \cup {Unknown}, rendering : RenderingType]
RequestType ==
  [at : {"idle", "asked", "rendering", "answered"}, aborted : BOOLEAN, revision : Revisions,
   base : Revisions \cup {NoRevision}, current : RenderingType, document : DocumentType,
   impact : Sections \cup {Unknown}, cache : RenderingType, response : ResponseType]

PreviewTypes ==
  /\ document \in DocumentType
  /\ impact \in ImpactType
  /\ cache \in RenderingType
  /\ state \in RenderingType
  /\ request \in [Requests -> RequestType]
  /\ texts \in [Revisions -> Text]

\* A revision there has been.
Known(v) == v \in 0 .. document.revision

\* The sections of a rendering are those of one revision.
Whole(rendering) ==
  rendering # Nothing => Known(rendering.revision) /\ rendering.sections = texts[rendering.revision]

OnePlace(rendering) == \A s, t \in Sections : rendering.paths[s] = rendering.paths[t]

\* A revision changed no section but this one.
Changes(v, section) ==
  section # Unknown =>
    /\ Known(v) /\ v > 0
    /\ \A s \in Sections \ {section} : texts[v][s] = texts[v - 1][s]

\* A patch has the section that is not as it was in the revision it fits.
ResponseInv(response) ==
  /\ response.kind = "full" => response.rendering # Nothing /\ Whole(response.rendering)
  /\ response.kind = "patch" =>
       LET v == response.rendering.revision
           section == response.section
       IN  /\ section \in Sections /\ Known(v) /\ v > 0 /\ response.base = v - 1
           /\ \A s \in Sections \ {section} : texts[v][s] = texts[v - 1][s]
           /\ response.rendering.sections[section] = texts[v][section]

\* A service that renders has a revision, what it changed and the cache.
AskedInv(q) ==
  /\ Whole(q.current)
  /\ q.at = "rendering" =>
       /\ q.document.revision = q.revision /\ Known(q.revision)
       /\ q.document.sections = texts[q.revision]
       /\ Changes(q.revision, q.impact)
       /\ Whole(q.cache) /\ OnePlace(q.cache)
  /\ ResponseInv(q.response)

DocumentInv ==
  /\ document.sections = texts[document.revision]
  /\ Changes(impact.revision, impact.section)

Held == Whole(state) /\ Whole(cache) /\ OnePlace(cache)

Inv == PreviewTypes /\ DocumentInv /\ Held /\ \A r \in Requests : AskedInv(request[r])

-----------------------------------------------------------------------------
(* Nothing, and what is idle *)

LEMMA NothingType ==
  /\ Nothing \in RenderingType /\ Nothing.revision = NoRevision /\ OnePlace(Nothing)
  /\ NoResponse \in ResponseType /\ NoResponse.kind = "none"
<1>1. Nothing \in RenderingType /\ Nothing.revision = NoRevision /\ OnePlace(Nothing)
  BY DEF Nothing, Rendering, RenderingType, Text, OnePlace
<1>2. NoResponse \in ResponseType /\ NoResponse.kind = "none"
  BY <1>1 DEF NoResponse, Response, ResponseType
<1> QED
  BY <1>1, <1>2

LEMMA IdleType ==
  /\ Idle \in RequestType
  /\ Idle.at = "idle" /\ Idle.current = Nothing /\ Idle.response = NoResponse
<1>1. /\ Nothing \in RenderingType /\ NoResponse \in ResponseType /\ NoRevision \in Revisions \cup {NoRevision}
      /\ 0 \in Revisions
  BY NothingType, RevisionsAssumption DEF Revisions
<1>2. PICK d : d = [revision |-> 0, sections |-> Nothing.sections, path |-> Unknown]
  OBVIOUS
<1>3. d \in DocumentType
  BY <1>1, <1>2 DEF DocumentType, RenderingType
<1>4. Idle = [at |-> "idle", aborted |-> FALSE, revision |-> 0, base |-> NoRevision,
              current |-> Nothing, document |-> d, impact |-> Unknown, cache |-> Nothing,
              response |-> NoResponse]
  BY <1>2 DEF Idle
<1> HIDE DEF Nothing, NoResponse, NoRevision
<1> QED
  BY <1>1, <1>3, <1>4 DEF RequestType

LEMMA IdleInv == AskedInv(Idle)
BY IdleType, NothingType DEF AskedInv, ResponseInv, Whole

-----------------------------------------------------------------------------
(* Revisions stay what they were *)

Grows ==
  /\ document.revision <= document'.revision
  /\ \A v \in 0 .. document.revision : texts'[v] = texts[v]

LEMMA StillKnown ==
  ASSUME PreviewTypes, PreviewTypes', Grows, NEW v, Known(v)
  PROVE  Known(v)' /\ texts'[v] = texts[v] /\ v \in Int
BY DEF PreviewTypes, DocumentType, Revisions, Grows, Known

LEMMA StillWhole ==
  ASSUME PreviewTypes, PreviewTypes', Grows, NEW rendering, Whole(rendering)
  PROVE  Whole(rendering)'
<1>1. CASE rendering = Nothing
  BY <1>1 DEF Whole
<1>2. CASE rendering # Nothing
  BY <1>2, StillKnown DEF Whole
<1> QED
  BY <1>1, <1>2

LEMMA StillChanges ==
  ASSUME PreviewTypes, PreviewTypes', Grows, NEW v, Known(v), v > 0
  PROVE  texts'[v] = texts[v] /\ texts'[v - 1] = texts[v - 1]
<1>1. Known(v - 1)
  BY DEF PreviewTypes, DocumentType, Revisions, Known
<1> QED
  BY <1>1, StillKnown

LEMMA StillChangesOne ==
  ASSUME PreviewTypes, PreviewTypes', Grows, NEW v, NEW section, Changes(v, section)
  PROVE  Changes(v, section)'
BY StillKnown, StillChanges DEF Changes

LEMMA StillResponse ==
  ASSUME PreviewTypes, PreviewTypes', Grows, NEW response, ResponseInv(response)
  PROVE  ResponseInv(response)'
<1>1. CASE response.kind = "full"
  BY <1>1, StillWhole DEF ResponseInv
<1>2. CASE response.kind = "patch"
  <2>1. PICK v, section : v = response.rendering.revision /\ section = response.section
    OBVIOUS
  <2>2. /\ section \in Sections /\ Known(v) /\ v > 0 /\ response.base = v - 1
        /\ \A s \in Sections \ {section} : texts[v][s] = texts[v - 1][s]
        /\ response.rendering.sections[section] = texts[v][section]
    BY <1>2, <2>1 DEF ResponseInv
  <2>3. Known(v)' /\ texts'[v] = texts[v] /\ texts'[v - 1] = texts[v - 1]
    BY <2>2, StillKnown, StillChanges
  <2> QED
    BY <1>2, <2>1, <2>2, <2>3 DEF ResponseInv
<1>3. CASE response.kind \notin {"full", "patch"}
  BY <1>3 DEF ResponseInv
<1> QED
  BY <1>1, <1>2, <1>3

LEMMA StillRequest ==
  ASSUME PreviewTypes, PreviewTypes', Grows, NEW q, AskedInv(q)
  PROVE  AskedInv(q)'
<1>1. Whole(q.current)' /\ ResponseInv(q.response)'
  BY StillWhole, StillResponse DEF AskedInv
<1>2. ASSUME q.at = "rendering"
      PROVE  /\ Known(q.revision)' /\ texts'[q.revision] = texts[q.revision]
             /\ Changes(q.revision, q.impact)'
             /\ Whole(q.cache)'
  BY <1>2, StillKnown, StillChangesOne, StillWhole DEF AskedInv
<1> QED
  BY <1>1, <1>2 DEF AskedInv, OnePlace

\* One request goes on.
LEMMA OneRequest ==
  ASSUME PreviewTypes, PreviewTypes', Grows, \A q \in Requests : AskedInv(request[q]), NEW r \in Requests,
         \A q \in Requests \ {r} : request'[q] = request[q], AskedInv(request[r])'
  PROVE  (\A q \in Requests : AskedInv(request[q]))'
<1> SUFFICES ASSUME NEW q \in Requests, q # r PROVE AskedInv(request[q])'
  OBVIOUS
<1>1. PICK old : old = request[q]
  OBVIOUS
<1>2. AskedInv(old) /\ request'[q] = old
  BY <1>1
<1>3. AskedInv(old)'
  BY <1>2, StillRequest
<1> QED
  BY <1>2, <1>3 DEF AskedInv


-----------------------------------------------------------------------------
(* The document changes *)

LEMMA ChangedDocument ==
  ASSUME PreviewTypes, DocumentInv, NEW sections, Changed(sections), impact' \in ImpactType
  PROVE  /\ PreviewTypes' /\ Grows
         /\ document'.revision = document.revision + 1
         /\ document'.sections = texts'[document'.revision]
         /\ \A s \in Sections \ sections :
              texts'[document.revision + 1][s] = texts'[document.revision][s]
<1>1. PICK v \in Int : v = document.revision
  BY DEF PreviewTypes, DocumentType, Revisions
<1>2. v \in Nat /\ v < MaxRevision /\ v + 1 \in Revisions /\ v \in Revisions
  <2>1. v < MaxRevision
    BY <1>1 DEF Changed
  <2>2. v \in Revisions
    BY <1>1 DEF PreviewTypes, DocumentType
  <2> QED
    BY <2>1, <2>2, RevisionsAssumption DEF Revisions
<1>3. PICK to : to = [s \in Sections |-> IF s \in sections THEN v + 1 ELSE document.sections[s]]
  OBVIOUS
<1>4. to \in Text
  BY <1>2, <1>3 DEF PreviewTypes, DocumentType, Text
<1>5. /\ document' = [document EXCEPT !.revision = v + 1, !.sections = to]
      /\ texts' = [texts EXCEPT ![v + 1] = to]
      /\ UNCHANGED <<web, cache, state, request>>
  BY <1>1, <1>3 DEF Changed
<1>6. /\ document' \in DocumentType /\ document'.revision = v + 1 /\ document'.sections = to
  BY <1>2, <1>4, <1>5 DEF PreviewTypes, DocumentType
<1>7. texts' \in [Revisions -> Text] /\ texts'[v + 1] = to /\ \A u \in 0 .. v : texts'[u] = texts[u]
  BY <1>2, <1>4, <1>5 DEF PreviewTypes
<1>8. PreviewTypes'
  BY <1>5, <1>6, <1>7 DEF PreviewTypes
<1>9. Grows
  BY <1>1, <1>6, <1>7 DEF Grows
<1>10. texts'[v] = document.sections
  BY <1>1, <1>2, <1>7 DEF DocumentInv
<1>11. \A s \in Sections \ sections : to[s] = document.sections[s]
  BY <1>3
<1> QED
  BY <1>1, <1>6, <1>7, <1>8, <1>9, <1>10, <1>11

\* What was held and asked for is still of the revisions it was of.
LEMMA HeldStays ==
  ASSUME PreviewTypes, PreviewTypes', Held, Grows, UNCHANGED <<cache, state>>
  PROVE  Held'
<1>1. PICK c, s : c = cache /\ s = state
  OBVIOUS
<1>2. Whole(c)' /\ Whole(s)'
  BY <1>1, StillWhole DEF Held
<1>3. cache' = c /\ state' = s /\ OnePlace(c)
  BY <1>1 DEF Held
<1> QED
  BY <1>2, <1>3 DEF Held, Whole, OnePlace

LEMMA AskedStay ==
  ASSUME PreviewTypes, PreviewTypes', \A r \in Requests : AskedInv(request[r]), Grows, UNCHANGED request
  PROVE  (\A r \in Requests : AskedInv(request[r]))'
<1> SUFFICES ASSUME NEW r \in Requests PROVE AskedInv(request[r])'
  OBVIOUS
<1>1. PICK q : q = request[r]
  OBVIOUS
<1>2. AskedInv(q)'
  BY <1>1, StillRequest
<1> QED
  BY <1>1, <1>2 DEF AskedInv

LEMMA DocumentSteps ==
  ASSUME Inv, (\E section \in Sections : Edit(section)) \/ EditAll \/ Replace
  PROVE  Inv'
<1>1. PICK sections : Changed(sections)
  BY DEF Edit, EditAll, Replace
<1>2. document.revision \in Int /\ document.revision + 1 \in Revisions /\ document.revision >= 0
  <2>1. document.revision < MaxRevision
    BY <1>1 DEF Changed
  <2>2. document.revision \in Revisions
    BY DEF Inv, PreviewTypes, DocumentType
  <2> QED
    BY <2>1, <2>2, RevisionsAssumption DEF Revisions
<1>3. impact' \in ImpactType
  <2>1. \A section \in Sections \cup {Unknown} :
          [revision |-> document.revision + 1, section |-> section] \in ImpactType
    BY <1>2 DEF ImpactType
  <2>2. impact \in ImpactType
    BY DEF Inv, PreviewTypes
  <2>3. \/ \E section \in Sections \cup {Unknown} :
             impact' = [revision |-> document.revision + 1, section |-> section]
        \/ impact' = impact
    BY DEF Edit, EditAll, Replace
  <2> QED
    BY <2>1, <2>2, <2>3
<1>4. PreviewTypes' /\ Grows
  BY <1>1, <1>3, ChangedDocument DEF Inv
<1>5. UNCHANGED <<cache, state, request>>
  BY <1>1 DEF Changed
<1>6. Held' /\ (\A r \in Requests : AskedInv(request[r]))'
  BY <1>4, <1>5, HeldStays, AskedStay DEF Inv
<1>7. DocumentInv'
  <2>1. document'.sections = texts'[document'.revision] /\ document'.revision = document.revision + 1
    BY <1>1, <1>3, ChangedDocument DEF Inv
  <2>2. Changes(impact.revision, impact.section)'
    <3>1. CASE \E section \in Sections : Edit(section)
      <4>1. PICK section \in Sections : Edit(section)
        BY <3>1
      <4>2. impact' = [revision |-> document.revision + 1, section |-> section] /\ Changed({section})
        BY <4>1 DEF Edit
      <4>3. \A s \in Sections \ {section} :
              texts'[document.revision + 1][s] = texts'[document.revision][s]
        BY <1>3, <4>2, ChangedDocument DEF Inv
      <4>4. impact'.revision = document.revision + 1 /\ impact'.section = section
        BY <4>2
      <4> QED
        BY <1>2, <2>1, <4>3, <4>4 DEF Changes, Known
    <3>2. CASE EditAll
      BY <3>2 DEF EditAll, Changes
    <3>3. CASE Replace
      <4>1. PICK v, section : v = impact.revision /\ section = impact.section
        OBVIOUS
      <4>2. Changes(v, section)'
        BY <1>4, <4>1, StillChangesOne DEF Inv, DocumentInv
      <4>3. impact'.revision = v /\ impact'.section = section
        BY <3>3, <4>1 DEF Replace
      <4> QED
        BY <4>2, <4>3 DEF Changes
    <3> QED
      BY <3>1, <3>2, <3>3
  <2> QED
    BY <2>1, <2>2 DEF DocumentInv
<1> QED
  BY <1>4, <1>6, <1>7 DEF Inv

LEMMA SameDocument ==
  ASSUME PreviewTypes, PreviewTypes', DocumentInv, UNCHANGED <<impact, texts>>,
         document'.revision = document.revision, document'.sections = document.sections
  PROVE  DocumentInv' /\ Grows
<1>1. document.revision <= document'.revision
  BY DEF PreviewTypes, DocumentType, Revisions
<1> QED
  BY <1>1 DEF DocumentInv, Changes, Known, Grows

LEMMA MoveStep ==
  ASSUME Inv, NEW path \in Paths, Move(path)
  PROVE  Inv'
<1>1. /\ document' = [document EXCEPT !.path = path]
      /\ UNCHANGED <<web, impact, cache, state, request, texts>>
  BY DEF Move
<1>2. document' \in DocumentType /\ document'.revision = document.revision
      /\ document'.sections = document.sections
  BY <1>1 DEF Inv, PreviewTypes, DocumentType
<1>3. PreviewTypes'
  BY <1>1, <1>2 DEF Inv, PreviewTypes
<1>4. DocumentInv' /\ Grows
  BY <1>1, <1>2, <1>3, SameDocument DEF Inv
<1> QED
  BY <1>1, <1>3, <1>4, HeldStays, AskedStay DEF Inv

\* The rest is between the service and the window, and what it says of revisions is of
\* those there are.
LEMMA Still ==
  ASSUME PreviewTypes, DocumentInv, PreviewTypes', UNCHANGED <<document, impact, texts>>
  PROVE  DocumentInv' /\ Grows
BY SameDocument

LEMMA EvictStep ==
  ASSUME Inv, Evict
  PROVE  Inv'
<1>1. state' = Nothing /\ UNCHANGED <<web, document, impact, cache, request, texts>>
  BY DEF Evict
<1>2. PreviewTypes'
  BY <1>1, NothingType DEF Inv, PreviewTypes
<1>3. DocumentInv' /\ Grows
  BY <1>1, <1>2, Still DEF Inv
<1>4. Held'
  <2>1. Whole(state)'
    BY <1>1 DEF Whole
  <2>2. PICK c : c = cache
    OBVIOUS
  <2>3. Whole(c)' /\ OnePlace(c) /\ cache' = c
    BY <1>1, <1>2, <1>3, <2>2, StillWhole DEF Inv, Held
  <2> QED
    BY <2>1, <2>3 DEF Held, Whole, OnePlace
<1> QED
  BY <1>1, <1>2, <1>3, <1>4, AskedStay DEF Inv

-----------------------------------------------------------------------------
(* The service renders *)

LEMMA ImpactIsOfRevision ==
  ASSUME PreviewTypes, DocumentInv
  PROVE  /\ ImpactOf(document.revision) \in Sections \cup {Unknown}
         /\ Changes(document.revision, ImpactOf(document.revision))
BY DEF ImpactOf, PreviewTypes, ImpactType, DocumentInv, Changes

LEMMA FullIsWhole ==
  ASSUME NEW d \in DocumentType, Known(d.revision), d.sections = texts[d.revision]
  PROVE  /\ Full(d) \in RenderingType /\ Whole(Full(d)) /\ OnePlace(Full(d))
         /\ Full(d) # Nothing
         /\ FullResponse(d) \in ResponseType /\ ResponseInv(FullResponse(d))
<1>1. /\ Full(d) \in RenderingType /\ Full(d).revision = d.revision /\ Full(d).sections = d.sections
      /\ \A s \in Sections : Full(d).paths[s] = d.path
  BY DEF Full, Rendering, RenderingType, DocumentType, Text
<1>2. Whole(Full(d)) /\ OnePlace(Full(d))
  BY <1>1 DEF Whole, OnePlace
<1>3. Full(d) # Nothing
  <2>1. d.revision # NoRevision
    BY DEF DocumentType, Revisions, NoRevision
  <2> QED
    BY <1>1, <2>1, NothingType
<1>4. /\ FullResponse(d) \in ResponseType
      /\ FullResponse(d).kind = "full" /\ FullResponse(d).rendering = Full(d)
  <2>1. FullResponse(d) = [kind |-> "full", base |-> NoRevision, section |-> Unknown,
                           rendering |-> Full(d)]
    BY DEF FullResponse, Response
  <2> QED
    BY <1>1, <2>1 DEF ResponseType
<1> QED
  BY <1>1, <1>2, <1>3, <1>4 DEF ResponseInv

\* A patch puts the one section that changed into a rendering of the revision before.
LEMMA PatchIsWhole ==
  ASSUME NEW held \in RenderingType, NEW d \in DocumentType, NEW section \in Sections,
         Whole(held), held.revision # NoRevision, d.revision = held.revision + 1,
         \A s \in Sections : held.paths[s] = d.path,
         Known(d.revision), d.sections = texts[d.revision], Changes(d.revision, section),
         section # Unknown, PreviewTypes
  PROVE  /\ Patched(held, d, section) \in RenderingType
         /\ Whole(Patched(held, d, section)) /\ OnePlace(Patched(held, d, section))
         /\ PatchResponse(held.revision, d, section) \in ResponseType
         /\ ResponseInv(PatchResponse(held.revision, d, section))
<1>1. PICK v \in Int : v = d.revision
  BY DEF DocumentType, Revisions
<1>2. held # Nothing /\ held.revision = v - 1 /\ held.revision \in Revisions /\ v \in Revisions /\ v > 0
  BY <1>1, NothingType DEF RenderingType, DocumentType, Revisions
<1>3. held.sections = texts[v - 1] /\ Known(v) /\ d.sections = texts[v]
  BY <1>1, <1>2 DEF Whole
<1>4. \A s \in Sections \ {section} : texts[v][s] = texts[v - 1][s]
  BY <1>1 DEF Changes
<1>5. texts[v] \in Text /\ texts[v - 1] \in Text
  BY <1>2 DEF PreviewTypes
<1>6. ASSUME NEW base \in RenderingType
      PROVE  /\ Patched(base, d, section) \in RenderingType
             /\ Patched(base, d, section).revision = v
             /\ Patched(base, d, section).sections = [base.sections EXCEPT ![section] = texts[v][section]]
             /\ Patched(base, d, section).paths = [base.paths EXCEPT ![section] = d.path]
  <2>1. Patched(base, d, section) =
          [revision |-> v, sections |-> [base.sections EXCEPT ![section] = texts[v][section]],
           paths |-> [base.paths EXCEPT ![section] = d.path]]
    BY <1>1, <1>3 DEF Patched, Rendering
  <2>2. [base.sections EXCEPT ![section] = texts[v][section]] \in Text
    BY <1>5 DEF RenderingType, Text
  <2>3. [base.paths EXCEPT ![section] = d.path] \in [Sections -> Paths \cup {Unknown}]
    BY DEF RenderingType, DocumentType
  <2> QED
    BY <1>2, <2>1, <2>2, <2>3 DEF RenderingType
<1>7. [held.sections EXCEPT ![section] = texts[v][section]] = texts[v]
  BY <1>3, <1>4, <1>5 DEF Text
<1>8. Whole(Patched(held, d, section))
  BY <1>3, <1>6, <1>7 DEF Whole
<1>9. OnePlace(Patched(held, d, section))
  <2>1. Patched(held, d, section).paths = [held.paths EXCEPT ![section] = d.path]
    BY <1>6
  <2>2. \A s \in Sections : [held.paths EXCEPT ![section] = d.path][s] = d.path
    BY DEF RenderingType
  <2> QED
    BY <2>1, <2>2 DEF OnePlace
<1>10. PICK new : new = Patched(Nothing, d, section)
  OBVIOUS
<1>11. new \in RenderingType /\ new.revision = v /\ new.sections[section] = texts[v][section]
  <2>1. Nothing \in RenderingType /\ Nothing.sections \in Text
    BY NothingType DEF RenderingType
  <2>2. new.sections = [Nothing.sections EXCEPT ![section] = texts[v][section]]
        /\ new \in RenderingType /\ new.revision = v
    BY <1>6, <1>10, <2>1
  <2> QED
    BY <2>1, <2>2 DEF Text
<1>12. PICK response : response = PatchResponse(held.revision, d, section)
  OBVIOUS
<1>13. response = [kind |-> "patch", base |-> v - 1, section |-> section, rendering |-> new]
  BY <1>2, <1>10, <1>12 DEF PatchResponse, Response
<1>14. response \in ResponseType
  BY <1>2, <1>11, <1>13 DEF ResponseType
<1>15. ResponseInv(response)
  BY <1>2, <1>3, <1>4, <1>11, <1>13 DEF ResponseInv
<1> QED
  BY <1>6, <1>8, <1>9, <1>12, <1>14, <1>15

LEMMA OutcomesAreWhole ==
  ASSUME PreviewTypes, NEW held \in RenderingType, NEW d \in DocumentType,
         NEW section \in Sections \cup {Unknown}, NEW base, Whole(held),
         Known(d.revision), d.sections = texts[d.revision], Changes(d.revision, section),
         NEW outcome \in Outcomes(held, d, section, base)
  PROVE  /\ outcome.response \in ResponseType /\ ResponseInv(outcome.response)
         /\ outcome.cache \in RenderingType /\ Whole(outcome.cache) /\ OnePlace(outcome.cache)
<1>1. CASE outcome = [response |-> FullResponse(d), cache |-> Full(d)]
  <2>1. outcome.response = FullResponse(d) /\ outcome.cache = Full(d)
    BY <1>1
  <2> QED
    BY <2>1, FullIsWhole
<1>2. CASE /\ MayPatch(held, d, section) /\ held.revision = base
           /\ outcome = [response |-> PatchResponse(base, d, section),
                         cache |-> Patched(held, d, section)]
  <2>1. /\ outcome.response = PatchResponse(held.revision, d, section)
        /\ outcome.cache = Patched(held, d, section)
    BY <1>2
  <2>2. /\ section \in Sections /\ section # Unknown /\ held.revision # NoRevision
        /\ d.revision = held.revision + 1 /\ \A s \in Sections : held.paths[s] = d.path
    BY <1>2 DEF MayPatch
  <2> QED
    BY <2>1, <2>2, PatchIsWhole
<1> QED
  BY <1>1, <1>2 DEF Outcomes


-----------------------------------------------------------------------------
(* A request goes on *)

\* A step that leaves the document alone and makes q of one request, c of the cache and s of
\* what the window has.
LEMMA Between ==
  ASSUME Inv, UNCHANGED <<document, impact, texts>>,
         NEW r \in Requests, NEW q \in RequestType, AskedInv(q),
         request' = [request EXCEPT ![r] = q],
         NEW c \in RenderingType, Whole(c), OnePlace(c), cache' = c,
         NEW s \in RenderingType, Whole(s), state' = s
  PROVE  Inv'
<1>1. PreviewTypes'
  BY DEF Inv, PreviewTypes
<1>2. DocumentInv' /\ Grows
  BY <1>1, Still DEF Inv
<1>3. Whole(c)' /\ Whole(s)' /\ AskedInv(q)'
  BY <1>1, <1>2, StillWhole, StillRequest DEF Inv
<1>4. Held'
  BY <1>3 DEF Held, Whole, OnePlace
<1>5. request'[r] = q /\ \A other \in Requests \ {r} : request'[other] = request[other]
  BY DEF Inv, PreviewTypes
<1>6. AskedInv(request[r])'
  BY <1>3, <1>5 DEF AskedInv
<1>7. (\A other \in Requests : AskedInv(request[other]))'
  BY <1>1, <1>2, <1>5, <1>6, OneRequest DEF Inv
<1> QED
  BY <1>1, <1>2, <1>4, <1>7 DEF Inv

LEMMA Finished ==
  ASSUME NEW q \in RequestType, AskedInv(q), NEW response \in ResponseType, ResponseInv(response),
         NEW next, next = [q EXCEPT !.at = "answered", !.response = response,
                                    !.document = Idle.document, !.impact = Unknown, !.cache = Nothing]
  PROVE  next \in RequestType /\ AskedInv(next)
<1>1. Idle.document \in DocumentType /\ Nothing \in RenderingType
  BY IdleType, NothingType DEF RequestType
<1>2. PICK d \in DocumentType : d = Idle.document
  BY <1>1
<1>3. PICK n \in RenderingType : n = Nothing
  BY <1>1
<1>4. next = [q EXCEPT !.at = "answered", !.response = response, !.document = d, !.impact = Unknown,
                       !.cache = n]
  BY <1>2, <1>3
<1>5. next \in RequestType
  BY <1>4 DEF RequestType
<1>6. next.at = "answered" /\ next.response = response /\ next.current = q.current
  BY <1>4 DEF RequestType
<1> QED
  BY <1>5, <1>6 DEF AskedInv

LEMMA FinishStep ==
  ASSUME Inv, UNCHANGED <<document, impact, texts, state>>, NEW r \in Requests,
         NEW response \in ResponseType, ResponseInv(response), Finish(r, response),
         NEW c \in RenderingType, Whole(c), OnePlace(c), cache' = c
  PROVE  Inv'
<1>1. PICK q : q = request[r]
  OBVIOUS
<1>2. q \in RequestType /\ AskedInv(q)
  BY <1>1 DEF Inv, PreviewTypes
<1>3. PICK next : next = [q EXCEPT !.at = "answered", !.response = response,
                            !.document = Idle.document, !.impact = Unknown, !.cache = Nothing]
  OBVIOUS
<1>4. request' = [request EXCEPT ![r] = next]
  BY <1>1, <1>3 DEF Finish
<1>5. next \in RequestType /\ AskedInv(next)
  BY <1>2, <1>3, Finished
<1>6. PICK s : s = state
  OBVIOUS
<1>7. s \in RenderingType /\ Whole(s) /\ state' = s
  BY <1>6 DEF Inv, PreviewTypes, Held
<1> QED
  BY <1>4, <1>5, <1>7, Between

LEMMA CacheAsItWas ==
  ASSUME Inv, NEW c, c = cache
  PROVE  c \in RenderingType /\ Whole(c) /\ OnePlace(c)
BY DEF Inv, PreviewTypes, Held

LEMMA NothingIsHeld == Whole(Nothing) /\ OnePlace(Nothing) /\ Nothing \in RenderingType
BY NothingType DEF Whole

LEMMA NoResponseInv == NoResponse \in ResponseType /\ ResponseInv(NoResponse)
BY NothingType DEF ResponseInv

LEMMA RequestOf ==
  ASSUME Inv, NEW r \in Requests, NEW q, q = request[r]
  PROVE  q \in RequestType /\ AskedInv(q)
BY DEF Inv, PreviewTypes

LEMMA AskStep ==
  ASSUME Inv, NEW r \in Requests, Ask(r)
  PROVE  Inv'
<1>1. UNCHANGED <<web, document, impact, cache, state, texts>>
  BY DEF Ask
<1>2. PICK asked : asked = [Idle EXCEPT !.at = "asked", !.revision = document.revision,
                              !.base = state.revision, !.current = state]
  OBVIOUS
<1>3. request' = [q \in Requests |->
        IF q = r THEN asked ELSE [request[q] EXCEPT !.aborted = @ \/ request[q].at # "idle"]]
  BY <1>2 DEF Ask
<1>4. asked \in RequestType /\ asked.at = "asked" /\ asked.current = state
      /\ asked.response = NoResponse
  <2>1. /\ document.revision \in Revisions /\ state.revision \in Revisions \cup {NoRevision}
        /\ state \in RenderingType
    BY DEF Inv, PreviewTypes, DocumentType, RenderingType
  <2>2. PICK idle \in RequestType : idle = Idle
    BY IdleType
  <2>3. PICK v, b, s : v = document.revision /\ b = state.revision /\ s = state
    OBVIOUS
  <2>4. asked = [idle EXCEPT !.at = "asked", !.revision = v, !.base = b, !.current = s]
    BY <1>2, <2>2, <2>3
  <2>5. idle.response = NoResponse
    BY <2>2, IdleType
  <2> HIDE DEF Idle, NoResponse, NoRevision
  <2> QED
    BY <2>1, <2>2, <2>3, <2>4, <2>5 DEF RequestType
<1>5. AskedInv(asked)
  BY <1>4, NoResponseInv DEF AskedInv, Inv, Held
<1>6. ASSUME NEW q \in Requests, q # r
      PROVE  /\ request'[q] \in RequestType
             /\ \A field \in {"at", "revision", "base", "current", "document", "impact", "cache",
                              "response"} : request'[q][field] = request[q][field]
  <2>1. PICK old : old = request[q]
    OBVIOUS
  <2>2. old \in RequestType
    BY <2>1, RequestOf
  <2> DEFINE d == old.aborted \/ old.at # "idle"
  <2>3. d \in BOOLEAN
    OBVIOUS
  <2>4. request'[q] = [old EXCEPT !.aborted = d]
    BY <1>3, <1>6, <2>1
  <2> HIDE DEF d
  <2> QED
    BY <2>1, <2>2, <2>3, <2>4 DEF RequestType
<1>7. PreviewTypes'
  <2>1. \A q \in Requests : request'[q] \in RequestType
    BY <1>3, <1>4, <1>6
  <2>2. request' \in [Requests -> RequestType]
    BY <1>3, <2>1
  <2> QED
    BY <1>1, <2>2 DEF Inv, PreviewTypes
<1>8. DocumentInv' /\ Grows
  BY <1>1, <1>7, Still DEF Inv
<1>9. Held'
  BY <1>1, <1>7, <1>8, HeldStays DEF Inv
<1>10. ASSUME NEW q \in Requests PROVE AskedInv(request[q])'
  <2>1. CASE q = r
    <3>1. AskedInv(asked)'
      BY <1>5, <1>7, <1>8, StillRequest DEF Inv
    <3>2. request'[q] = asked
      BY <1>3, <2>1
    <3> QED
      BY <3>1, <3>2 DEF AskedInv
  <2>2. CASE q # r
    <3>1. PICK old : old = request[q]
      OBVIOUS
    <3>2. AskedInv(old)'
      BY <1>7, <1>8, <3>1, StillRequest DEF Inv
    <3>3. /\ request'[q].at = old.at /\ request'[q].revision = old.revision
          /\ request'[q].current = old.current /\ request'[q].document = old.document
          /\ request'[q].impact = old.impact /\ request'[q].cache = old.cache
          /\ request'[q].response = old.response
      BY <1>6, <2>2, <3>1
    <3> QED
      BY <3>2, <3>3 DEF AskedInv
  <2> QED
    BY <2>1, <2>2
<1> QED
  BY <1>7, <1>8, <1>9, <1>10 DEF Inv

LEMMA TakeStep ==
  ASSUME Inv, NEW r \in Requests, TakeCache(r)
  PROVE  Inv'
<1>1. UNCHANGED <<web, document, impact, state, texts>>
  BY DEF TakeCache
<1>2. PICK q, c : q = request[r] /\ c = cache
  OBVIOUS
<1>3. q \in RequestType /\ AskedInv(q) /\ c \in RenderingType /\ Whole(c) /\ OnePlace(c)
  BY <1>2, RequestOf, CacheAsItWas
<1>4. CASE q.revision # document.revision
  BY <1>1, <1>2, <1>3, <1>4, NoResponseInv, FinishStep DEF TakeCache
<1>5. CASE q.revision = document.revision
  <2>1. PICK d, section : d = document /\ section = ImpactOf(document.revision)
    OBVIOUS
  <2>2. PICK next : next = [q EXCEPT !.at = "rendering", !.document = d, !.cache = c,
                                     !.impact = section]
    OBVIOUS
  <2>3. request' = [request EXCEPT ![r] = next] /\ cache' = Nothing
    BY <1>2, <1>5, <2>1, <2>2 DEF TakeCache
  <2>4. /\ d \in DocumentType /\ section \in Sections \cup {Unknown}
        /\ d.revision = q.revision /\ Known(d.revision) /\ d.sections = texts[d.revision]
        /\ Changes(d.revision, section)
    <3>1. document.revision \in 0 .. document.revision
      BY DEF Inv, PreviewTypes, DocumentType, Revisions
    <3> QED
      BY <1>5, <2>1, <3>1, ImpactIsOfRevision DEF Inv, PreviewTypes, DocumentInv, Known
  <2>5. /\ next \in RequestType /\ next.at = "rendering" /\ next.document = d /\ next.cache = c
        /\ next.impact = section /\ next.revision = q.revision /\ next.current = q.current
        /\ next.response = q.response
    BY <1>3, <2>2, <2>4 DEF RequestType
  <2>6. AskedInv(next)
    BY <1>3, <2>4, <2>5 DEF AskedInv
  <2>7. PICK s : s = state
    OBVIOUS
  <2>8. s \in RenderingType /\ Whole(s) /\ state' = s
    BY <1>1, <2>7 DEF Inv, PreviewTypes, Held
  <2>9. PICK n : n = Nothing
    OBVIOUS
  <2>10. n \in RenderingType /\ Whole(n) /\ OnePlace(n) /\ cache' = n
    BY <2>3, <2>9, NothingIsHeld
  <2> QED
    BY <1>1, <2>3, <2>5, <2>6, <2>8, <2>10, Between
<1> QED
  BY <1>4, <1>5

LEMMA RenderStep ==
  ASSUME Inv, NEW r \in Requests, Render(r)
  PROVE  Inv'
<1>1. UNCHANGED <<web, document, impact, state, texts>>
  BY DEF Render
<1>2. PICK q, c : q = request[r] /\ c = cache
  OBVIOUS
<1>3. /\ q \in RequestType /\ AskedInv(q) /\ c \in RenderingType /\ Whole(c) /\ OnePlace(c)
      /\ q.at = "rendering"
  BY <1>2, RequestOf, CacheAsItWas DEF Render
<1>4. CASE q.revision # document.revision
  BY <1>1, <1>2, <1>3, <1>4, NoResponseInv, FinishStep DEF Render
<1>5. CASE q.revision = document.revision
  <2>1. PICK outcome \in Outcomes(q.cache, q.document, q.impact, q.base) :
          Finish(r, outcome.response) /\ cache' = outcome.cache
    BY <1>2, <1>5 DEF Render
  <2>2. /\ q.cache \in RenderingType /\ q.document \in DocumentType
        /\ q.impact \in Sections \cup {Unknown} /\ Whole(q.cache)
        /\ Known(q.document.revision) /\ q.document.sections = texts[q.document.revision]
        /\ Changes(q.document.revision, q.impact)
    BY <1>3 DEF RequestType, AskedInv
  <2>3. /\ outcome.response \in ResponseType /\ ResponseInv(outcome.response)
        /\ outcome.cache \in RenderingType /\ Whole(outcome.cache) /\ OnePlace(outcome.cache)
    BY <2>1, <2>2, OutcomesAreWhole DEF Inv
  <2>4. PICK response, next : response = outcome.response /\ next = outcome.cache
    OBVIOUS
  <2> QED
    BY <1>1, <2>1, <2>3, <2>4, FinishStep
<1> QED
  BY <1>4, <1>5

LEMMA RenderWebStep ==
  ASSUME Inv, NEW r \in Requests, RenderWeb(r)
  PROVE  Inv'
<1>1. UNCHANGED <<web, document, impact, state, texts>>
  BY DEF RenderWeb
<1>2. PICK q, c : q = request[r] /\ c = cache
  OBVIOUS
<1>3. q \in RequestType /\ AskedInv(q) /\ c \in RenderingType /\ Whole(c) /\ OnePlace(c)
  BY <1>2, RequestOf, CacheAsItWas
<1>4. CASE q.revision # document.revision
  BY <1>1, <1>2, <1>3, <1>4, NoResponseInv, FinishStep DEF RenderWeb
<1>5. CASE q.revision = document.revision
  <2>1. PICK outcome \in Outcomes(cache, document, ImpactOf(document.revision), q.base) :
          Finish(r, outcome.response) /\ cache' = outcome.cache
    BY <1>2, <1>5 DEF RenderWeb
  <2>2. document.revision \in 0 .. document.revision
    BY DEF Inv, PreviewTypes, DocumentType, Revisions
  <2>3. PICK d, section : d = document /\ section = ImpactOf(document.revision)
    OBVIOUS
  <2>4. /\ d \in DocumentType /\ section \in Sections \cup {Unknown}
        /\ Known(d.revision) /\ d.sections = texts[d.revision] /\ Changes(d.revision, section)
    BY <2>2, <2>3, ImpactIsOfRevision DEF Inv, PreviewTypes, DocumentInv, Known
  <2>5. outcome \in Outcomes(c, d, section, q.base)
    BY <1>2, <2>1, <2>3
  <2>6. /\ outcome.response \in ResponseType /\ ResponseInv(outcome.response)
        /\ outcome.cache \in RenderingType /\ Whole(outcome.cache) /\ OnePlace(outcome.cache)
    BY <1>3, <2>4, <2>5, OutcomesAreWhole DEF Inv
  <2>7. PICK response, next : response = outcome.response /\ next = outcome.cache
    OBVIOUS
  <2> QED
    BY <1>1, <2>1, <2>6, <2>7, FinishStep
<1> QED
  BY <1>4, <1>5

\* What a window makes of a full preview, or of a patch that fits what it had.
LEMMA AppliedIsWhole ==
  ASSUME PreviewTypes, NEW current \in RenderingType, Whole(current),
         NEW response \in ResponseType, ResponseInv(response), response.kind # "none",
         response.kind = "patch" => Fits(current, response)
  PROVE  Applied(current, response) \in RenderingType /\ Whole(Applied(current, response))
<1>1. CASE response.kind = "full"
  BY <1>1 DEF Applied, ResponseInv, ResponseType
<1>2. CASE response.kind = "patch"
  <2>1. PICK v, section : v = response.rendering.revision /\ section = response.section
    OBVIOUS
  <2>2. /\ section \in Sections /\ Known(v) /\ v > 0 /\ response.base = v - 1
        /\ \A s \in Sections \ {section} : texts[v][s] = texts[v - 1][s]
        /\ response.rendering.sections[section] = texts[v][section]
    BY <1>2, <2>1 DEF ResponseInv
  <2>3. v \in Int /\ v \in Revisions /\ v - 1 \in Revisions
    <3>1. document.revision \in Revisions
      BY DEF PreviewTypes, DocumentType
    <3> QED
      BY <2>2, <3>1, RevisionsAssumption DEF Known, Revisions
  <2>4. current.revision = v - 1
    BY <1>2, <2>2 DEF Fits
  <2>5. current # Nothing
    BY <2>2, <2>3, <2>4, NothingType DEF NoRevision
  <2>6. current.sections = texts[v - 1]
    BY <2>4, <2>5 DEF Whole
  <2>7. texts[v] \in Text /\ texts[v - 1] \in Text
    BY <2>3 DEF PreviewTypes
  <2>8. [current.sections EXCEPT ![section] = response.rendering.sections[section]] = texts[v]
    BY <2>2, <2>6, <2>7 DEF Text
  <2>9. PICK paths : paths = [current.paths EXCEPT ![section] = response.rendering.paths[section]]
    OBVIOUS
  <2>10. paths \in [Sections -> Paths \cup {Unknown}]
    BY <2>2, <2>9 DEF RenderingType, ResponseType
  <2>11. Applied(current, response) = [revision |-> v, sections |-> texts[v], paths |-> paths]
    BY <1>2, <2>1, <2>8, <2>9 DEF Applied, Rendering
  <2> QED
    BY <2>2, <2>3, <2>7, <2>10, <2>11 DEF RenderingType, Whole
<1> QED
  BY <1>1, <1>2 DEF ResponseType

LEMMA ReceiveStep ==
  ASSUME Inv, NEW r \in Requests, ReceivePreview(r)
  PROVE  Inv'
<1>1. UNCHANGED <<web, document, impact, cache, texts>>
  BY DEF ReceivePreview
<1>2. PICK q, c, s : q = request[r] /\ c = cache /\ s = state
  OBVIOUS
<1>3. /\ q \in RequestType /\ AskedInv(q) /\ c \in RenderingType /\ Whole(c) /\ OnePlace(c)
      /\ s \in RenderingType /\ Whole(s) /\ cache' = c /\ q.at = "answered"
  BY <1>1, <1>2, RequestOf, CacheAsItWas DEF ReceivePreview, Inv, PreviewTypes, Held
<1>4. CASE q.response.kind = "patch" /\ ~Fits(q.current, q.response)
  <2>1. PICK next : next = [q EXCEPT !.at = "asked", !.base = NoRevision, !.response = NoResponse]
    OBVIOUS
  <2>2. request' = [request EXCEPT ![r] = next] /\ state' = s
    BY <1>2, <1>4, <2>1 DEF ReceivePreview
  <2>3. /\ next \in RequestType /\ next.at = "asked" /\ next.response = NoResponse
        /\ next.current = q.current
    <3>1. NoResponse \in ResponseType
      BY NoResponseInv
    <3> HIDE DEF NoResponse, NoRevision
    <3> QED
      BY <1>3, <2>1, <3>1 DEF RequestType
  <2>4. AskedInv(next)
    BY <1>3, <2>3, NoResponseInv DEF AskedInv
  <2> QED
    BY <1>1, <1>3, <2>2, <2>3, <2>4, Between
<1>5. CASE ~(q.response.kind = "patch" /\ ~Fits(q.current, q.response))
  <2>1. PICK idle : idle = Idle
    OBVIOUS
  <2>2. idle \in RequestType /\ AskedInv(idle) /\ request' = [request EXCEPT ![r] = idle]
    BY <1>2, <1>5, <2>1, IdleType, IdleInv DEF ReceivePreview
  <2>3. PICK new : new = state'
    OBVIOUS
  <2>4. new = s \/ (q.response.kind # "none" /\ new = Applied(q.current, q.response))
    BY <1>2, <1>5, <2>3 DEF ReceivePreview
  <2>5. new \in RenderingType /\ Whole(new)
    <3>1. CASE new = s
      BY <1>3, <3>1
    <3>2. CASE q.response.kind # "none" /\ new = Applied(q.current, q.response)
      <4>1. /\ q.current \in RenderingType /\ Whole(q.current)
            /\ q.response \in ResponseType /\ ResponseInv(q.response)
        BY <1>3 DEF RequestType, AskedInv
      <4> QED
        BY <1>5, <3>2, <4>1, AppliedIsWhole DEF Inv
    <3> QED
      BY <2>4, <3>1, <3>2
  <2> QED
    BY <1>1, <1>3, <2>2, <2>3, <2>5, Between
<1> QED
  BY <1>4, <1>5

-----------------------------------------------------------------------------
(* The theorem *)

LEMMA InitInv ==
  ASSUME PreviewInit
  PROVE  Inv
<1>1. PICK path \in Paths : document = [revision |-> 0, sections |-> [s \in Sections |-> 0], path |-> path]
  BY DEF PreviewInit
<1>2. 0 \in Revisions /\ document \in DocumentType /\ document.revision = 0 /\ document.sections \in Text
  BY <1>1, RevisionsAssumption DEF Revisions, DocumentType, Text
<1>3. /\ impact = [revision |-> NoRevision, section |-> Unknown] /\ cache = Nothing /\ state = Nothing
      /\ request = [r \in Requests |-> Idle]
      /\ texts = [v \in Revisions |-> document.sections]
  BY DEF PreviewInit, Revisions
<1>4. PreviewTypes
  <2>1. impact \in ImpactType
    BY <1>3 DEF ImpactType
  <2>2. request \in [Requests -> RequestType]
    BY <1>3, IdleType
  <2>3. texts \in [Revisions -> Text]
    BY <1>2, <1>3
  <2> QED
    BY <1>2, <1>3, <2>1, <2>2, <2>3, NothingType DEF PreviewTypes
<1>5. DocumentInv
  BY <1>2, <1>3 DEF DocumentInv, Changes
<1>6. Held
  BY <1>3, NothingIsHeld DEF Held
<1>7. \A r \in Requests : AskedInv(request[r])
  BY <1>3, IdleInv
<1> QED
  BY <1>4, <1>5, <1>6, <1>7 DEF Inv

LEMMA NextInv ==
  ASSUME Inv, PreviewNext
  PROVE  Inv'
<1>1. CASE (\E section \in Sections : Edit(section)) \/ EditAll \/ Replace
  BY <1>1, DocumentSteps
<1>2. CASE Evict \/ \E path \in Paths : Move(path)
  BY <1>2, EvictStep, MoveStep
<1>3. CASE PreviewWork
  BY <1>3, AskStep, TakeStep, RenderStep, RenderWebStep, ReceiveStep DEF PreviewWork
<1> QED
  BY <1>1, <1>2, <1>3 DEF PreviewNext

LEMMA StutterInv ==
  ASSUME Inv, UNCHANGED previewVars
  PROVE  Inv'
<1>1. UNCHANGED <<document, impact, cache, state, request, texts>>
  BY DEF previewVars
<1>2. PreviewTypes'
  BY <1>1 DEF Inv, PreviewTypes
<1>3. DocumentInv' /\ Grows
  BY <1>1, <1>2, Still DEF Inv
<1> QED
  BY <1>1, <1>2, <1>3, HeldStays, AskedStay DEF Inv

\* The sections of what a window shows, and of what the service keeps for the next patch, are
\* those of one revision, and the latter were rendered for one place of the file.
THEOREM PreviewIsWhole == PreviewSpec => []PreviewIsOfOneRevision
<1>1. PreviewInit => Inv
  BY InitInv
<1>2. Inv /\ [PreviewNext]_previewVars => Inv'
  BY NextInv, StutterInv
<1>3. Inv => PreviewIsOfOneRevision
  BY DEF Inv, Held, Whole, OnePlace, PreviewIsOfOneRevision
<1> QED
  BY <1>1, <1>2, <1>3, PTL DEF PreviewSpec
==============================================================================
