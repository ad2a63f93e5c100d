--------------------------- MODULE StacklightProofs ---------------------------
(***************************************************************************)
(* Type correctness of Stacklight, and that the light shows the file once  *)
(* the daemon has dealt with all events, for any requests and any number   *)
(* of changes and restarts.                                                *)
(***************************************************************************)
EXTENDS Stacklight, SequenceTheorems, TLAPS

Events == {"created", "deleted"}
Contents == Requests \cup {NoFile, Nothing}

\* What may be sent when the daemon is done with the file as it is now, and what
\* may be lit.
Right(x) == x = Lit(Read(semfile)) \/ (missed /\ x = Dark)
Shows(x) == x = Lit(Read(semfile)) \/ ((left \/ missed) /\ x = Dark)

\* A light off the bus is dark, and nothing has reached it since.
OffIsDark == ~present => light = Dark /\ left

\* Before the watch is in place nothing is told and nothing is lit, and a file
\* that is there after the removal has been missed.
StartsDark ==
  /\ pc \in {"unlink", "monitor"} => events = <<>> /\ light = Dark
  /\ pc = "monitor" => missed \/ semfile = NoFile

\* After the last event the light, or what is about to be sent to it, is right.
LastShows ==
  events = <<>> /\ ~writing => /\ pc = "wait" => Shows(light)
                               /\ pc = "notify" => Right(Lit(request))

\* The last event outstanding tells whether there is a file, all others may be
\* out of date.
LastTells ==
  events # <<>> /\ ~writing /\ events[Len(events)] = "deleted" => semfile = NoFile

StackInv ==
  /\ events \in Seq(Events) /\ restarts \in Nat
  /\ OffIsDark /\ StartsDark /\ LastShows /\ LastTells

-----------------------------------------------------------------------------
\* Appending one event.
LEMMA OneMore ==
  ASSUME NEW s \in Seq(Events), NEW e \in Events
  PROVE  /\ s \o <<e>> \in Seq(Events) /\ s \o <<e>> # <<>>
         /\ Len(s \o <<e>>) = Len(s) + 1
         /\ (s \o <<e>>)[Len(s \o <<e>>)] = e
<1>1. <<e>> \in Seq(Events) /\ Len(<<e>>) = 1 /\ <<e>>[1] = e
  OBVIOUS
<1>2. s \o <<e>> \in Seq(Events) /\ Len(s \o <<e>>) = Len(s) + 1
  BY <1>1, ConcatProperties
<1>3. Len(s) \in Nat
  BY LenProperties
<1>4. (s \o <<e>>)[Len(s) + 1] = e
  BY <1>1, <1>3, ConcatProperties
<1>5. s \o <<e>> # <<>>
  BY <1>2, <1>3, EmptySeq
<1>6. QED
  BY <1>2, <1>4, <1>5

\* Taking the first event away leaves the last one, if any is left.
LEMMA OneLess ==
  ASSUME NEW s \in Seq(Events), s # <<>>
  PROVE  /\ Head(s) \in Events /\ Tail(s) \in Seq(Events) /\ Len(Tail(s)) = Len(s) - 1
         /\ Tail(s) # <<>> => Tail(s)[Len(Tail(s))] = s[Len(s)]
         /\ Tail(s) = <<>> => s[Len(s)] = Head(s)
<1>1. Len(s) \in Nat /\ Len(s) # 0
  BY EmptySeq, LenProperties
<1>2. Head(s) \in Events /\ Tail(s) \in Seq(Events) /\ Len(Tail(s)) = Len(s) - 1
  BY HeadTailProperties
<1>3. Tail(s) # <<>> => Tail(s)[Len(Tail(s))] = s[Len(s)]
  <2> SUFFICES ASSUME Tail(s) # <<>> PROVE Tail(s)[Len(Tail(s))] = s[Len(s)]
    OBVIOUS
  <2>1. Len(Tail(s)) \in 1 .. Len(Tail(s))
    BY <1>1, <1>2, EmptySeq
  <2>2. Tail(s)[Len(Tail(s))] = s[Len(Tail(s)) + 1]
    BY <1>1, <1>2, <2>1, HeadTailProperties
  <2>3. QED
    BY <1>1, <1>2, <2>2
<1>4. Tail(s) = <<>> => s[Len(s)] = Head(s)
  <2> SUFFICES ASSUME Tail(s) = <<>> PROVE s[Len(s)] = Head(s)
    OBVIOUS
  <2>0. Len(Tail(s)) = 0
    BY EmptySeq
  <2>1. Len(s) = 1
    BY <1>1, <1>2, <2>0
  <2>2. Head(s) = s[1]
    OBVIOUS
  <2>3. QED
    BY <2>1, <2>2
<1>5. QED
  BY <1>2, <1>3, <1>4

-----------------------------------------------------------------------------
LEMMA NoFileIsDark == Lit(Read(NoFile)) = Dark
BY DEF Lit, Read, Nothing, Dark

LEMMA StackInvInit == Init => StackInv
<1> SUFFICES ASSUME Init PROVE StackInv
  OBVIOUS
<1>1. events \in Seq(Events)
  BY EmptySeq DEF Init
<1>2. QED
  BY <1>1 DEF Init, StackInv, OffIsDark, StartsDark, LastShows, LastTells, Dark

\* A change of the file with the one event e: from the watch on its event is the
\* last, before it the file is missed.
LEMMA ToldChange ==
  ASSUME StackInv, NEW f, NEW e \in Events, Change(f, <<e>>),
         e = "deleted" => f = NoFile
  PROVE  StackInv'
<1> USE DEF StackInv
<1> DEFINE longer == events \o <<e>>
<1>1. /\ longer \in Seq(Events) /\ longer # <<>>
      /\ longer[Len(longer)] = e
  BY OneMore
<1> HIDE DEF longer
<1>2. /\ semfile' = f
      /\ UNCHANGED <<pc, request, light, present, left, restarts>>
  BY DEF Change, daemon, device
<1>3. CASE pc \in {"unlink", "monitor"}
  <2>1. events' = events /\ missed' = TRUE /\ events = <<>>
    BY <1>3 DEF Change, StartsDark
  <2>2. QED
    BY <1>2, <1>3, <2>1 DEF OffIsDark, StartsDark, LastShows, LastTells
<1>4. CASE pc \notin {"unlink", "monitor"}
  <2>1. events' = longer
    BY <1>4 DEF Change, longer
  <2>2. QED
    BY <1>1, <1>2, <1>4, <2>1 DEF OffIsDark, StartsDark, LastShows, LastTells
<1>5. QED
  BY <1>3, <1>4

LEMMA StackInvStep == ASSUME StackInv, [Next]_vars PROVE StackInv'
<1> USE DEF StackInv
<1>1. CASE Open
  <2>1. events \o <<>> = events
    BY ConcatEmptySeq
  <2>2. /\ writing' /\ events' = events
        /\ pc \in {"unlink", "monitor"} => missed'
        /\ UNCHANGED <<pc, request, light, present, left, restarts>>
    BY <1>1, <2>1 DEF Open, Change, daemon, device
  <2>3. QED
    BY <2>2 DEF OffIsDark, StartsDark, LastShows, LastTells
<1>2. ASSUME NEW r \in Requests, CloseWrite(r) \/ MovedTo(r) PROVE StackInv'
  <2>1. Change(r, <<"created">>)
    BY <1>2 DEF CloseWrite, MovedTo
  <2>2. QED
    BY <2>1, ToldChange DEF Events
<1>3. CASE Delete
  <2>1. Change(NoFile, <<"deleted">>)
    BY <1>3 DEF Delete
  <2>2. QED
    BY <2>1, ToldChange DEF Events
<1>4. CASE Unlink
  BY <1>4, NoFileIsDark
     DEF Unlink, device, OffIsDark, StartsDark, LastShows, LastTells
<1>5. CASE Monitor
  <2>1. Shows(light)
    BY <1>5, NoFileIsDark DEF Monitor, StartsDark, Shows
  <2>2. QED
    BY <1>5, <2>1
       DEF Monitor, file, device, OffIsDark, StartsDark, LastShows, LastTells, Shows, Right
<1>6. CASE file_created
  <2>1. /\ events # <<>> /\ events' = Tail(events)
        /\ pc' = "notify" /\ request' = Read(semfile)
        /\ UNCHANGED <<semfile, writing, missed, light, present, left, restarts>>
    BY <1>6 DEF file_created, device
  <2>2. /\ events' \in Seq(Events)
        /\ events' # <<>> => events'[Len(events')] = events[Len(events)]
    BY <2>1, OneLess
  <2>3. QED
    BY <2>1, <2>2 DEF OffIsDark, StartsDark, LastShows, LastTells, Right
<1>7. CASE file_deleted
  <2>1. /\ events # <<>> /\ events' = Tail(events) /\ Head(events) = "deleted"
        /\ pc' = "notify" /\ request' = [colors |-> currentColor, forever |-> FALSE]
        /\ UNCHANGED <<semfile, writing, missed, light, present, left, restarts>>
    BY <1>7 DEF file_deleted, device
  <2>2. /\ events' \in Seq(Events)
        /\ events' # <<>> => events'[Len(events')] = events[Len(events)]
        /\ events' = <<>> => events[Len(events)] = "deleted"
    BY <2>1, OneLess
  <2>3. Lit(request') = Dark
    BY <2>1 DEF Lit
  <2>4. events' = <<>> /\ ~writing' => Right(Lit(request))'
    BY <2>1, <2>2, <2>3, NoFileIsDark DEF LastTells, Right
  <2>5. QED
    BY <2>1, <2>2, <2>4 DEF OffIsDark, StartsDark, LastShows, LastTells
<1>8. CASE Notify
  <2>1. /\ pc = "notify" /\ pc' = "wait"
        /\ light' = IF present THEN Lit(request) ELSE light
        /\ left' = (left /\ ~present)
        /\ UNCHANGED <<semfile, writing, events, missed, request, present, restarts>>
    BY <1>8 DEF Notify, file
  <2>2. events = <<>> /\ ~writing => Shows(light)'
    BY <2>1, Zenon DEF OffIsDark, LastShows, Shows, Right
  <2>3. QED
    BY <2>1, <2>2 DEF OffIsDark, StartsDark, LastShows, LastTells
<1>9. CASE Leave
  <2>1. /\ light' = Dark /\ left' /\ restarts' \in Nat
        /\ UNCHANGED <<semfile, writing, events, missed, pc, request>>
    BY <1>9 DEF Leave, file, daemon
  <2>2. Right(Lit(request)) => Right(Lit(request))'
    BY <2>1 DEF Right
  <2>3. Shows(light)'
    BY <2>1 DEF Shows
  <2>4. QED
    BY <2>1, <2>2, <2>3 DEF OffIsDark, StartsDark, LastShows, LastTells
<1>10. CASE Return
  BY <1>10 DEF Return, file, daemon, OffIsDark, StartsDark, LastShows, LastTells, Shows, Right
<1>11. CASE UNCHANGED vars
  BY <1>11 DEF vars, file, daemon, device, OffIsDark, StartsDark, LastShows, LastTells, Shows, Right
<1>12. QED
  BY <1>1, <1>2, <1>3, <1>4, <1>5, <1>6, <1>7, <1>8, <1>9, <1>10, <1>11 DEF Next, Daemon

\* StackInv is an invariant: what the daemon still has to be told, and what it is
\* about to send, agree with the file as it is now.
THEOREM StackInductive == Spec => []StackInv
<1>1. Init => StackInv
  BY StackInvInit
<1>2. StackInv /\ [Next]_vars => StackInv'
  BY StackInvStep
<1>3. QED
  BY <1>1, <1>2, PTL DEF Spec

\* Once the daemon has dealt with all events the light shows the file as it is
\* then, or is dark for one of the two reasons there are, for all requests and
\* however long the file goes on changing and the light going.
THEOREM SettledLightShowsFile == Spec => []SettledShowsFile
<1>1. StackInv => SettledShowsFile
  BY DEF StackInv, LastShows, Shows, SettledShowsFile, Settled
<1>2. QED
  BY <1>1, StackInductive, PTL

-----------------------------------------------------------------------------
\* Whatever is read from the file can be shown.
LEMMA ContentsShown ==
  ASSUME NEW f \in Contents
  PROVE  Read(f) \in Contents /\ Read(f).colors \subseteq Palette /\ Read(f).forever \in BOOLEAN
<1>1. Nothing.colors = {} /\ Nothing.forever = TRUE
  BY DEF Nothing
<1>2. f \notin Requests => Read(f) = Nothing
  BY DEF Contents, Read
<1>3. CASE f \in Requests /\ f # NoFile
  <2>1. Read(f) = f /\ f.colors \subseteq Palette
    BY <1>3 DEF Read, Palette
  <2>2. f.forever \in BOOLEAN
    BY <1>3, StacklightAssumption
  <2>3. QED
    BY <2>1, <2>2
<1>4. CASE f \notin Requests \/ f = NoFile
  <2>1. Read(f) = Nothing
    BY <1>2, <1>4 DEF Read
  <2>2. Nothing \in Contents
    BY DEF Contents
  <2>3. QED
    BY <1>1, <2>1, <2>2
<1>5. QED
  BY <1>3, <1>4

\* The parts of TypeOK.
Flags == writing \in BOOLEAN /\ missed \in BOOLEAN /\ present \in BOOLEAN /\ left \in BOOLEAN
Counts == changes \in 0 .. MaxChanges /\ Len(events) <= changes /\ restarts \in 0 .. MaxRestarts
Colors ==
  /\ semfile \in Contents
  /\ request.colors \subseteq Palette /\ currentColor \subseteq Palette /\ light \subseteq Palette
Waits == pc \in {"unlink", "monitor", "wait", "notify"}
Typed == Flags /\ Counts /\ Colors /\ Waits /\ request.forever \in BOOLEAN

LEMMA FlagsStep == ASSUME Flags, [Next]_vars PROVE Flags'
<1>1. CASE Open \/ (\E r \in Requests : CloseWrite(r) \/ MovedTo(r)) \/ Delete
  <2>1. PICK f, e : Change(f, e)
    BY <1>1, Zenon DEF Open, CloseWrite, MovedTo, Delete
  <2>2. missed' \in BOOLEAN /\ present' = present /\ left' = left
    BY <2>1, Zenon DEF Change, device, Flags
  <2>3. writing' \in BOOLEAN
    BY <1>1, Zenon DEF Open, CloseWrite, MovedTo, Delete, Flags
  <2>4. QED
    BY <2>2, <2>3, Zenon DEF Flags
<1>2. CASE Daemon
  BY <1>2, Zenon DEF Daemon, Unlink, Monitor, file_created, file_deleted, Notify, file, device, Flags
<1>3. CASE Leave \/ Return
  BY <1>3, Zenon DEF Leave, Return, file, Flags
<1>4. CASE UNCHANGED vars
  BY <1>4, Zenon DEF vars, file, device, Flags
<1>5. QED
  BY <1>1, <1>2, <1>3, <1>4, Zenon DEF Next

LEMMA CountsStep == ASSUME StackInv, Counts, [Next]_vars PROVE Counts'
<1> USE StacklightAssumption DEF StackInv, Counts
<1>1. ASSUME NEW f, NEW e \in Events, Change(f, <<e>>) PROVE Counts'
  <2>1. Len(events \o <<e>>) = Len(events) + 1
    BY OneMore
  <2>2. QED
    BY <1>1, <2>1, LenProperties DEF Change, device
<1>2. CASE Open
  <2>1. events \o <<>> = events
    BY ConcatEmptySeq
  <2>2. QED
    BY <1>2, <2>1, LenProperties DEF Open, Change, device
<1>3. ASSUME NEW r \in Requests, CloseWrite(r) \/ MovedTo(r) PROVE Counts'
  BY <1>1, <1>3 DEF CloseWrite, MovedTo, Events
<1>4. CASE Delete
  BY <1>1, <1>4 DEF Delete, Events
<1>5. CASE file_created \/ file_deleted
  <2>1. /\ events # <<>> /\ events' = Tail(events)
        /\ UNCHANGED <<changes, restarts>>
    BY <1>5 DEF file_created, file_deleted, device
  <2>2. Len(Tail(events)) = Len(events) - 1
    BY <2>1, OneLess
  <2>3. QED
    BY <2>1, <2>2, LenProperties
<1>6. CASE Unlink \/ Monitor \/ Notify \/ Leave \/ Return \/ UNCHANGED vars
  BY <1>6 DEF Unlink, Monitor, Notify, Leave, Return, vars, file, device
<1>7. QED
  BY <1>2, <1>3, <1>4, <1>5, <1>6 DEF Next, Daemon

LEMMA ColorsStep ==
  ASSUME Colors, request.forever \in BOOLEAN, [Next]_vars
  PROVE  Colors' /\ request'.forever \in BOOLEAN
<1> USE DEF Colors
<1>1. CASE Open \/ (\E r \in Requests : CloseWrite(r) \/ MovedTo(r)) \/ Delete
  <2>1. PICK f \in Contents : \E e : Change(f, e)
    BY <1>1, Zenon DEF Open, CloseWrite, MovedTo, Delete, Contents
  <2>2. QED
    BY <2>1 DEF Change, daemon, device
<1>2. CASE Unlink
  BY <1>2 DEF Unlink, device, Contents
<1>3. CASE file_created
  BY <1>3, ContentsShown DEF file_created, device
<1>4. CASE file_deleted
  BY <1>4 DEF file_deleted, device
<1>5. CASE Notify
  BY <1>5 DEF Notify, Lit, Dark, file
<1>6. CASE Monitor \/ Leave \/ Return \/ UNCHANGED vars
  BY <1>6 DEF Monitor, Leave, Return, vars, file, daemon, device, Dark
<1>7. QED
  BY <1>1, <1>2, <1>3, <1>4, <1>5, <1>6 DEF Next, Daemon

\* Type correctness for all requests and bounds.
THEOREM StackTypeCorrect == Spec => []TypeOK
<1>1. Init => Typed
  <2> SUFFICES ASSUME Init PROVE Typed
    OBVIOUS
  <2>1. Flags
    BY Zenon DEF Init, Flags
  <2>2. Counts
    BY StacklightAssumption, EmptySeq DEF Init, Counts
  <2>3. Colors
    BY DEF Init, Colors, Contents, Nothing, Dark, Palette
  <2>4. Waits
    BY DEF Init, Waits
  <2>5. request.forever \in BOOLEAN
    BY DEF Init, Nothing
  <2>6. QED
    BY <2>1, <2>2, <2>3, <2>4, <2>5 DEF Typed
<1>2. StackInv /\ Typed /\ [Next]_vars => Typed'
  <2> SUFFICES ASSUME StackInv, Typed, [Next]_vars PROVE Typed'
    OBVIOUS
  <2>1. Waits'
    BY DEF Typed, Waits, Next, Open, CloseWrite, MovedTo, Delete, Change, Daemon, Unlink, Monitor,
           file_created, file_deleted, Notify, Leave, Return, vars, file, daemon, device
  <2>2. QED
    BY <2>1, FlagsStep, CountsStep, ColorsStep DEF Typed
<1>3. StackInv /\ Typed => TypeOK
  <2> SUFFICES ASSUME StackInv, Typed PROVE TypeOK
    OBVIOUS
  <2>1. \A k \in DOMAIN events : events[k] \in {"created", "deleted"}
    BY LenProperties DEF StackInv, Events
  <2>2. QED
    BY <2>1, Zenon DEF Typed, Flags, Counts, Colors, Waits, TypeOK, Contents
<1>4. QED
  BY <1>1, <1>2, <1>3, StackInductive, PTL DEF Spec
=============================================================================
