----------------------------- MODULE Stacklight -----------------------------
(***************************************************************************)
(* The daemon perl/stacklightd/stacklightd: it removes the file            *)
(* /tmp/stacklight and then watches it; programs write, replace and remove *)
(* the file, the daemon is told of each change in turn, reads the file     *)
(* when it gets to it, and commands the light over USB.  The light itself  *)
(* is another device of the family, external here, that shows the last     *)
(* notification it was sent (AttenSwitch.pm:478).                          *)
(***************************************************************************)
EXTENDS Naturals, Sequences

CONSTANTS
  Requests,     \* what is written: records [colors, forever]
  MaxChanges,   \* bound on the changes to the file
  MaxRestarts   \* bound on how often the light goes off the bus

Dark == {}
Nothing == [colors |-> {}, forever |-> TRUE] \* what an empty or missing file amounts to
NoFile == [colors |-> {"none"}, forever |-> FALSE] \* no program writes this

ASSUME StacklightAssumption ==
  /\ \A r \in Requests : DOMAIN r = {"colors", "forever"} /\ r.forever \in BOOLEAN
  /\ MaxChanges \in Nat /\ MaxRestarts \in Nat

VARIABLES
  semfile,      \* NoFile or a request; Nothing while a program writes it
  writing,      \* whether a program has it open
  events,       \* what inotify has to tell the daemon: "created", "deleted"
  pc,           \* "unlink" and "monitor" at the start; "wait"; "notify", about to send
  request,      \* what file_created has read
  currentColor,
  light,        \* the colors that stay lit
  present,      \* whether the light is on the bus
  missed,       \* history: the last change was made before the watch
  left,         \* history: the light has been off the bus since it was last sent anything
  changes, restarts

file == <<semfile, writing, events, missed, changes>>
daemon == <<pc, request, currentColor>>
device == <<light, present, left, restarts>>
vars == <<file, daemon, device>>

\* chase_down has left the light dark; a file may be there from before.
Init ==
  /\ semfile \in Requests \cup {NoFile} /\ writing = FALSE /\ events = <<>>
  /\ pc = "unlink" /\ request = Nothing /\ currentColor = {"G"}
  /\ light = Dark /\ present = TRUE
  /\ missed = FALSE /\ left = FALSE /\ changes = 0 /\ restarts = 0

Read(f) == IF f = NoFile THEN Nothing ELSE f
Lit(r) == IF r.forever THEN r.colors ELSE Dark

-----------------------------------------------------------------------------
(* The programs that use the light.                                         *)

Change(f, e) ==
  /\ changes < MaxChanges /\ changes' = changes + 1
  /\ semfile' = f
  /\ IF pc \in {"unlink", "monitor"} THEN events' = events /\ missed' = TRUE
     ELSE events' = events \o e /\ missed' = (missed /\ e = <<>>)
  /\ UNCHANGED <<daemon, device>>

\* Opening the file for writing empties it, and is no event.
Open == ~writing /\ writing' = TRUE /\ Change(Nothing, <<>>)
CloseWrite(r) == writing /\ writing' = FALSE /\ Change(r, <<"created">>)
MovedTo(r) == ~writing /\ Change(r, <<"created">>) /\ UNCHANGED writing
Delete == ~writing /\ semfile # NoFile /\ Change(NoFile, <<"deleted">>) /\ UNCHANGED writing

-----------------------------------------------------------------------------
(* The daemon.                                                              *)

\* _start: unlink.  A program that has the file open goes on writing to a file
\* without a name.
Unlink ==
  /\ pc = "unlink" /\ pc' = "monitor"
  /\ semfile' = NoFile /\ writing' = FALSE /\ missed' = FALSE
  /\ UNCHANGED <<events, changes, request, currentColor, device>>

\* _start: monitor, from which on changes are told.
Monitor ==
  /\ pc = "monitor" /\ pc' = "wait"
  /\ UNCHANGED <<file, request, currentColor, device>>

\* Mutant: the color is noted after it has been sent.
file_createdLate ==
  /\ pc = "wait" /\ events # <<>> /\ Head(events) = "created"
  /\ events' = Tail(events) /\ pc' = "notify"
  /\ request' = [Read(semfile) EXCEPT !.colors = currentColor]
  /\ currentColor' = Read(semfile).colors
  /\ UNCHANGED <<semfile, writing, missed, changes, device>>

file_created ==
  /\ pc = "wait" /\ events # <<>> /\ Head(events) = "created"
  /\ events' = Tail(events) /\ pc' = "notify"
  /\ request' = Read(semfile)
  /\ currentColor' = Read(semfile).colors
  /\ UNCHANGED <<semfile, writing, missed, changes, device>>

\* Mutant: a count of 0, which means for ever.
file_deletedForever ==
  /\ pc = "wait" /\ events # <<>> /\ Head(events) = "deleted"
  /\ events' = Tail(events) /\ pc' = "notify"
  /\ request' = [colors |-> currentColor, forever |-> TRUE]
  /\ UNCHANGED <<semfile, writing, missed, changes, currentColor, device>>

\* One flash of 1 ms.
file_deleted ==
  /\ pc = "wait" /\ events # <<>> /\ Head(events) = "deleted"
  /\ events' = Tail(events) /\ pc' = "notify"
  /\ request' = [colors |-> currentColor, forever |-> FALSE]
  /\ UNCHANGED <<semfile, writing, missed, changes, currentColor, device>>

\* connect, stacklightNotify and disconnect; nothing more happens when connect
\* finds no device.
Notify ==
  /\ pc = "notify" /\ pc' = "wait"
  /\ light' = IF present THEN Lit(request) ELSE light
  /\ left' = (left /\ ~present)
  /\ UNCHANGED <<file, request, currentColor, present, restarts>>

-----------------------------------------------------------------------------
(* The light goes off the bus when it is reset or unplugged, and comes back *)
(* dark.                                                                    *)
Leave ==
  /\ present /\ restarts < MaxRestarts /\ restarts' = restarts + 1
  /\ present' = FALSE /\ light' = Dark /\ left' = TRUE
  /\ UNCHANGED <<file, daemon>>

Return == ~present /\ present' = TRUE /\ UNCHANGED <<file, daemon, light, left, restarts>>

Daemon == Unlink \/ Monitor \/ file_created \/ file_deleted \/ Notify

Next == Open \/ (\E r \in Requests : CloseWrite(r) \/ MovedTo(r)) \/ Delete
          \/ Daemon \/ Leave \/ Return
Spec == Init /\ [][Next]_vars
FairSpec == Spec /\ WF_vars(Daemon)

-----------------------------------------------------------------------------
Palette == {"G"} \cup UNION {r.colors : r \in Requests}
Settled == pc = "wait" /\ events = <<>> /\ ~writing

\* Every variable stays in its range, and no more events are outstanding than
\* changes were made.
TypeOK ==
  /\ semfile \in Requests \cup {NoFile, Nothing} /\ writing \in BOOLEAN
  /\ changes \in 0 .. MaxChanges /\ Len(events) <= changes
  /\ \A k \in DOMAIN events : events[k] \in {"created", "deleted"}
  /\ pc \in {"unlink", "monitor", "wait", "notify"}
  /\ missed \in BOOLEAN /\ left \in BOOLEAN /\ request.forever \in BOOLEAN
  /\ request.colors \subseteq Palette /\ currentColor \subseteq Palette
  /\ light \subseteq Palette /\ present \in BOOLEAN /\ restarts \in 0 .. MaxRestarts

\* The daemon reads the file when it gets to an event and not when the event
\* happened: still, once it has dealt with them all the light shows the file.  It
\* may be dark instead, but never shows what is out of date, when the light has
\* been off the bus since the last notification that reached it, for each is sent
\* once, and when the file was written between its removal at the start and the
\* watch, and not since.
SettledShowsFile ==
  Settled => light = Lit(Read(semfile)) \/ ((left \/ missed) /\ light = Dark)

\* A file that stays removed ends in darkness, restarts or not.
RemovalExtinguishes == semfile = NoFile ~> light = Dark \/ semfile # NoFile
=============================================================================
