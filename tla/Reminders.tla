----------------------------- MODULE Reminders -----------------------------
(***************************************************************************)
(* What the server says by itself before something is due                 *)
(* (server/src/index.ts, todos.ts): every minute the appointments of each  *)
(* participant, every ten minutes the deadlines of the todos.  What has    *)
(* been said of an appointment is remembered in memory, what has been said *)
(* of a todo in two flags of its row.                                      *)
(***************************************************************************)
EXTENDS Integers, FiniteSets, Group

CONSTANTS
    Events,         \* rows of meeting_events
    Meetings,       \* meetings with a start of their own (starts_at)
    Titles,         \* of meetings
    Todos,
    Unset,          \* no row; no date
    DayLength,      \* minutes of a day
    Morning,        \* the minute of the day all-day events are told from
    Default,        \* minutes before the start: thirty and ten
    Choices,        \* the leads a user may choose instead; 0 is never
    MaxSteps,       \* days tried of an event that repeats (500)
    LastMinute      \* bound: the clock stops

Appointments == Events \cup Meetings

ASSUME RemindersAssumption ==
    /\ DayLength \in Nat \ {0} /\ Morning \in 0 .. DayLength - 1
    /\ Default \subseteq Nat \ {0} /\ Choices \subseteq Nat
    /\ MaxSteps \in Nat \ {0} /\ IsFiniteSet(Appointments)
    /\ LastMinute \in Nat /\ Unset \notin Nat
    /\ Events \cap (Meetings \cup Titles) = {}

VARIABLES
    minute,     \* the clock, in minutes
    appt,       \* appt[a]: the event or the meeting as it stands, or Unset
    notified,   \* in memory: <<person, key>>
    told,       \* <<person, label, appointment, start>>, since the server started
    swept,      \* whether the sweep of this minute has run
    todo,       \* todo[t]: row t of todos
    heard       \* heard[t]: <<person, phase>> for the deadline as it stands

remindersVars == <<minute, members, appt, notified, told, swept, todo, heard>>
events == <<members, appt, notified, told, swept>>
todos == <<todo, heard>>

Minutes == 0 .. LastMinute
Day(t) == t \div DayLength
Days == 0 .. Day(LastMinute) + 1
Today == Day(minute)
Phases == {"soon", "overdue"}
Leads == Default \cup Choices

\* What an appointment is remembered by: a meeting's title, an event's id.
Labels == Events \cup Titles

\* daily: recur, to the day until; of an all-day event the start is a minute of its day.
Appointment(a) ==
    [label : IF a \in Meetings THEN Titles ELSE {a}, start : Minutes, daily : BOOLEAN,
     until : Days \cup {Unset}, timed : BOOLEAN, leads : SUBSET Leads]

Todo == [due : Days \cup {Unset}, done : BOOLEAN, assignees : SUBSET People,
         flags : SUBSET Phases, late : SUBSET (People \X Phases)]

\* The threshold, the day of the occurrence, or that it is about the whole day.
Key == Labels \X (Days \cup {Unset}) \X (Leads \cup {Unset})

RemindersTypeOK ==
    /\ minute \in Minutes
    /\ members \subseteq People
    /\ \A a \in Appointments : appt[a] = Unset \/ appt[a] \in Appointment(a)
    /\ notified \subseteq People \X Key
    /\ told \subseteq People \X Labels \X Appointments \X Nat
    /\ swept \in BOOLEAN
    /\ todo \in [Todos -> Todo]
    /\ heard \in [Todos -> SUBSET (People \X Phases)]

NoTodo == [due |-> Unset, done |-> FALSE, assignees |-> {}, flags |-> {}, late |-> {}]

RemindersInit ==
    /\ minute = 0
    /\ members \in SUBSET People
    /\ appt = [a \in Appointments |-> Unset]
    /\ notified = {} /\ told = {} /\ swept = FALSE
    /\ todo = [t \in Todos |-> NoTodo]
    /\ heard = [t \in Todos |-> {}]

MinutePasses ==
    /\ minute < LastMinute
    /\ minute' = minute + 1 /\ swept' = FALSE
    /\ UNCHANGED <<members, appt, notified, told, todos>>

\* Minutes may pass until it is up again.
ServerRestarts ==
    /\ notified # {}
    /\ notified' = {} /\ told' = {}
    /\ UNCHANGED <<minute, members, appt, swept, todos>>

InviteeJoins(p) ==
    /\ Joins(p)
    /\ UNCHANGED <<minute, appt, notified, told, swept, todos>>

InviteeLeaves(p) ==
    /\ Leaves(p)
    /\ UNCHANGED <<minute, appt, notified, told, swept, todos>>

-----------------------------------------------------------------------------
(* Appointments.                                                           *)

\* POST and PATCH /:code/events: the event is made, moved or changed.  An id is
\* not given twice.
SetEvent(e, s, daily, until, timed, leads) ==
    /\ appt[e] # Unset \/ \A x \in told : x[3] # e
    /\ daily \/ until = Unset
    /\ appt' = [appt EXCEPT ![e] = [label |-> e, start |-> s, daily |-> daily,
                                    until |-> until, timed |-> timed, leads |-> leads]]
    /\ UNCHANGED <<minute, members, notified, told, swept, todos>>

\* POST / and PATCH /:code
SetMeeting(m, title, s, daily) ==
    /\ appt' = [appt EXCEPT ![m] = [label |-> title, start |-> s, daily |-> daily,
                                    until |-> Unset, timed |-> TRUE, leads |-> Default]]
    /\ UNCHANGED <<minute, members, notified, told, swept, todos>>

Cancel(a) ==
    /\ appt[a] # Unset
    /\ appt' = [appt EXCEPT ![a] = Unset]
    /\ UNCHANGED <<minute, members, notified, told, swept, todos>>

First(a) == Day(appt[a].start)

Over(a, d) == appt[a].until # Unset /\ d > appt[a].until

\* Of a meeting starts_at alone is read.  Of an event, eventOccurrenceOnOrAfter: its
\* first day that is not before today, unless it is over by then or the loop gives up.
OccursOn(a) ==
    LET next == IF First(a) < Today THEN Today ELSE First(a)
    IN  IF a \in Meetings \/ ~appt[a].daily THEN First(a)
        ELSE IF Over(a, next) \/ next - First(a) >= MaxSteps THEN Unset
        ELSE next

\* The start on that day.
Start(a) == OccursOn(a) * DayLength + (appt[a].start % DayLength)

\* Mutant: an event has one key whatever its day, as a meeting has.
KeyOfTitle(a, l) == <<appt[a].label, Unset, l>>

\* A meeting's key is its title, an event's its id and the day.
KeyOf(a, l) == <<appt[a].label, IF a \in Meetings THEN Unset ELSE OccursOn(a), l>>

\* min <= t && min > 0: a sweep that comes late still tells.
Met(a, l) == Start(a) - minute <= l /\ Start(a) - minute > 0

\* What is to be said of a; of an all-day event, once on its day.
ToSay(p, a) ==
    IF appt[a] = Unset \/ OccursOn(a) = Unset THEN {}
    ELSE {k \in IF appt[a].timed THEN {KeyOf(a, l) : l \in {l \in appt[a].leads : Met(a, l)}}
                ELSE IF OccursOn(a) = Today /\ minute % DayLength >= Morning
                     THEN {<<appt[a].label, Today, Unset>>} ELSE {} :
             <<p, k>> \notin notified}

\* The orders in which the appointments of a person are gone through.
Orders == {f \in [Appointments -> 1 .. Cardinality(Appointments)] :
              \A a, b \in Appointments : f[a] = f[b] => a = b}

\* What is left of it once those before a, in order f, have had their say.
Says(p, a, f) == ToSay(p, a) \ UNION {ToSay(p, b) : b \in {c \in Appointments : f[c] < f[a]}}

\* runMeetingReminders
MeetingSweep ==
    /\ ~swept /\ swept' = TRUE
    /\ \E f \in Orders :
           /\ notified' = notified \cup
                  UNION {{<<p, k>> : k \in UNION {ToSay(p, a) : a \in Appointments}} : p \in members}
           /\ told' = told \cup
                  UNION {{<<p, appt[a].label, a, Start(a)>> :
                             a \in {b \in Appointments : Says(p, b, f) # {}}} : p \in members}
    /\ UNCHANGED <<minute, members, appt, todos>>

-----------------------------------------------------------------------------
(* Todos.                                                                  *)

\* PATCH with due_at; a todo is made with or without one.  Mutant: the flags
\* stay.
DueKeepsFlags(t, d) == [todo[t] EXCEPT !.due = d, !.late = {}]

DueAgain(t, d) == [todo[t] EXCEPT !.due = d, !.flags = {}, !.late = {}]

SetDue(t, d) ==
    /\ todo' = [todo EXCEPT ![t] = DueAgain(t, d)]
    /\ heard' = [heard EXCEPT ![t] = {}]
    /\ UNCHANGED <<minute, events>>

SetDone(t, b) ==
    /\ todo' = [todo EXCEPT ![t].done = b]
    /\ UNCHANGED <<minute, events, heard>>

\* setAssignees, of the participants; late: who comes when a flag is set.  They
\* are told that the todo is theirs now, not when it is due.
Assign(t, A) ==
    /\ A \subseteq members
    /\ todo' = [todo EXCEPT ![t].assignees = A,
                            ![t].late = (@ \cap (A \X Phases)) \cup
                                ((A \ todo[t].assignees) \X todo[t].flags)]
    /\ UNCHANGED <<minute, events, heard>>

\* Mutant: the day itself is a phase of its own, for which there is no flag.
PhaseOfDay(d) == IF d < Today THEN "overdue" ELSE IF d = Today THEN "today" ELSE "soon"

\* The phase of a deadline: a day ahead and on its day, or later.
PhaseOf(d) == IF d < Today THEN "overdue" ELSE "soon"

Pressing(t) ==
    /\ ~todo[t].done /\ todo[t].due # Unset /\ todo[t].due <= Today + 1
    /\ PhaseOf(todo[t].due) \notin todo[t].flags

\* runTodoReminders: the flag is set even if the todo is nobody's.
TodoSweep ==
    /\ \E t \in Todos : Pressing(t)
    /\ todo' = [t \in Todos |->
                  IF Pressing(t)
                  THEN [todo[t] EXCEPT !.flags = @ \cup {PhaseOf(todo[t].due)}] ELSE todo[t]]
    /\ heard' = [t \in Todos |->
                   IF Pressing(t)
                   THEN heard[t] \cup (todo[t].assignees \X {PhaseOf(todo[t].due)}) ELSE heard[t]]
    /\ UNCHANGED <<minute, events>>

RemindersNext ==
    \/ MinutePasses \/ ServerRestarts \/ MeetingSweep \/ TodoSweep
    \/ \E p \in People : InviteeJoins(p) \/ InviteeLeaves(p)
    \/ \E e \in Events, s \in Minutes, d \in BOOLEAN, u \in Days \cup {Unset},
          L \in {Default} \cup {{l} \ {0} : l \in Choices} : SetEvent(e, s, d, u, TRUE, L)
    \/ \E e \in Events, d \in Days, r \in BOOLEAN, u \in Days \cup {Unset} :
           d * DayLength \in Minutes /\ SetEvent(e, d * DayLength, r, u, FALSE, Default)
    \/ \E m \in Meetings, n \in Titles, s \in Minutes, d \in BOOLEAN : SetMeeting(m, n, s, d)
    \/ \E a \in Appointments : Cancel(a)
    \/ \E t \in Todos, d \in Days \cup {Unset} : SetDue(t, d)
    \/ \E t \in Todos, b \in BOOLEAN : SetDone(t, b)
    \/ \E t \in Todos, A \in SUBSET People : Assign(t, A)

RemindersSpec == RemindersInit /\ [][RemindersNext]_remindersVars

-----------------------------------------------------------------------------
(* Properties.                                                             *)

\* What a user takes for the next start: of a daily one, the first to come.
Coming(a) ==
    LET s == appt[a].start
    IN  IF ~appt[a].daily \/ s > minute THEN s
        ELSE CHOOSE u \in minute + 1 .. minute + DayLength : u % DayLength = s % DayLength

FallsOn(a, d) == IF appt[a].daily THEN First(a) <= d /\ ~Over(a, d) ELSE d = First(a)

\* It is time to remind of a.
Imminent(a) ==
    /\ appt[a] # Unset
    /\ IF appt[a].timed
       THEN /\ Coming(a) > minute /\ FallsOn(a, Day(Coming(a)))
            /\ \E l \in appt[a].leads : Coming(a) - minute <= l
       ELSE FallsOn(a, Today) /\ minute % DayLength >= Morning

Upcoming(a) ==
    IF appt[a].timed THEN Coming(a) ELSE Today * DayLength + (appt[a].start % DayLength)

\* Who has been told of another start that day is not told that it has moved; of a
\* meeting, whatever the day, nor who has been told of another meeting of its title.
ToldOfAnother(p, a, T) ==
    \E x \in T : /\ x[1] = p /\ x[2] = appt[a].label /\ <<x[3], x[4]>> # <<a, Upcoming(a)>>
                 /\ a \in Meetings \/ Day(x[4]) = Day(Upcoming(a))

\* While today's start of a daily event is the first that is not before today,
\* nobody looks at tomorrow's.
AcrossMidnight(a) == appt[a].timed /\ appt[a].daily /\ Day(Coming(a)) > Today
                     /\ First(a) <= Today

\* An event that began MaxSteps days ago is not found any more.
WornOut(a) == appt[a].daily /\ Day(Upcoming(a)) - First(a) >= MaxSteps

\* That a meeting repeats is not read.
Repeated(a) == a \in Meetings /\ Upcoming(a) # appt[a].start

\* After a sweep, every participant has been told of whatever is about to start,
\* however often it was moved and whenever they joined, but for these cases.
RemindedInTime ==
    [][MeetingSweep => \A p \in members, a \in Appointments :
                    Imminent(a) => \/ <<p, appt[a].label, a, Upcoming(a)>> \in told'
                                   \/ ToldOfAnother(p, a, told')
                                   \/ AcrossMidnight(a) \/ WornOut(a) \/ Repeated(a)]_remindersVars

\* A flag that keeps a deadline from being told again means that everybody it
\* concerns has been told of this deadline, but for who got the todo afterwards.
FlagMeansTold ==
    \A t \in Todos, f \in Phases, p \in People :
        f \in todo[t].flags /\ p \in todo[t].assignees =>
            <<p, f>> \in heard[t] \cup todo[t].late
=============================================================================
