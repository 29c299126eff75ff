-------------------------- MODULE Reminders_proof --------------------------
(***************************************************************************)
(* For any number of workers, accounts and occurrences, any families and   *)
(* channels, and however many sends fail, processes die and owners edit:   *)
(* the job runs once at a time, a row is written about at most once, but   *)
(* for stamps that were lost or withdrawn and pushes that failed halfway,  *)
(* and no stamp is there for nothing.                                      *)
(***************************************************************************)
EXTENDS Reminders, FiniteSetTheorems, TLAPS

-----------------------------------------------------------------------------
(* The invariant.                                                          *)

Job == [phase : Phases, on : 0 .. LastDay, round : 0 .. Rounds,
        entries : SUBSET (Occurrences \X Nat), batch : SUBSET (Occurrences \X Nat)]

\* A job has rows in hand in the phases that need them only, each in one place;
\* a row that was made since is in nobody's hands.
HandsAreInOrder ==
    \A w \in Workers :
        /\ job[w].phase \in {"load", "send", "stamp"} => job[w].round \in 1 .. Rounds
        /\ job[w].phase \notin {"send", "stamp"} => job[w].entries = {}
        /\ job[w].phase # "stamp" => job[w].batch = {}
        /\ job[w].entries \cap job[w].batch = {}
        /\ \A e \in job[w].entries \cup job[w].batch : e[2] <= row[e[1]]

\* What is about to be written about, or was a moment ago, has no stamp.
HandsAreUnstamped ==
    \A w \in Workers, o \in Occurrences :
        <<o, row[o]>> \in job[w].entries \cup job[w].batch =>
            RoundKey(job[w].round) \notin log[o]

\* A message in flight is one that left, and that is excused only if the deadline
\* it warns of was moved since.
FlightsHaveLeft ==
    \A w \in Workers, o \in Occurrences, key \in Keys :
        InFlight(w, o, key) =>
            /\ delivered[o][key] > 0
            /\ delivered[o][key] > excused[o][key] \/ key \in crossed[o]

\* A message that is not excused, or whose excuse was an edit made while it was
\* in flight, is in the log or still in flight.
HasATrace(o, key) == key \in log[o] \/ \E w \in Workers : InFlight(w, o, key)

\* Every message but the excused ones has a trace.
MessagesAreAccountedFor ==
    \A o \in Occurrences, key \in Keys :
        \/ delivered[o][key] = excused[o][key]
        \/ delivered[o][key] = 1 + excused[o][key] /\ HasATrace(o, key)

\* So does a warning that crossed an edit of its deadline, which excused it.
CrossedHaveATrace ==
    \A o \in Occurrences : \A key \in crossed[o] :
        /\ key[1] = "action_required"
        /\ delivered[o][key] = excused[o][key]
        /\ HasATrace(o, key)

ReminderInv ==
    /\ TypeOK
    /\ OneJob
    /\ HandsAreInOrder
    /\ HandsAreUnstamped
    /\ FlightsHaveLeft
    /\ MessagesAreAccountedFor
    /\ CrossedHaveATrace
    /\ StampMeansSent

-----------------------------------------------------------------------------
(* Rounds.                                                                 *)

\* A round divides into a channel and a family.
LEMMA Quotient ==
    ASSUME NEW c \in Nat, NEW f \in Nat \ {0}, NEW m \in Nat, m < c * f
    PROVE  m \div f \in 0 .. c - 1
  <1> DEFINE q == m \div f
             r == m % f
  <1>1. q \in Int /\ r \in 0 .. f - 1 /\ m = f * q + r
    OBVIOUS
  <1> HIDE DEF q, r
  <1>2. ASSUME NEW k \in Int, k <= -1
        PROVE  f * k <= -f
    BY <1>2
  <1>3. q >= 0
    BY <1>1, <1>2
  <1>4. ASSUME NEW k \in Int, k >= c
        PROVE  f * k >= c * f
    BY <1>4
  <1>5. q < c
    BY <1>1, <1>4
  <1>6. QED
    BY <1>1, <1>3, <1>5 DEF q

LEMMA ListsAreThere ==
    /\ Families \in Seq(Kinds) /\ Channels \in Seq({"email", "push"})
    /\ Len(Families) \in Nat \ {0} /\ Len(Channels) \in Nat \ {0}
  <1>1. /\ Families \in Seq(Kinds) /\ Channels \in Seq({"email", "push"})
        /\ Rounds \in Nat \ {0}
    BY ReminderAssumption
  <1>2. Len(Families) \in Nat /\ Len(Channels) \in Nat
    BY <1>1
  <1>3. QED
    BY <1>1, <1>2 DEF Rounds

LEMMA RoundKeyType ==
    ASSUME NEW n \in 1 .. Rounds
    PROVE  RoundKey(n) \in Keys
  <1> DEFINE f == Len(Families)
             c == Len(Channels)
             m == n - 1
  <1>1. f \in Nat \ {0} /\ c \in Nat \ {0} /\ Families \in Seq(Kinds)
        /\ Channels \in Seq({"email", "push"})
    BY ListsAreThere
  <1>2. m \in Nat /\ m < c * f
    BY <1>1 DEF Rounds
  <1>3. m \div f \in 0 .. c - 1
    BY <1>1, <1>2, Quotient
  <1>4. m % f \in 0 .. f - 1
    BY <1>1, <1>2
  <1>5. RoundKind(n) \in Kinds
    <2>1. (m % f) + 1 \in 1 .. f
      BY <1>1, <1>4
    <2>2. QED
      BY <1>1, <2>1 DEF RoundKind
  <1>6. RoundChannel(n) \in {Channels[k] : k \in DOMAIN Channels}
    <2>1. (m \div f) + 1 \in 1 .. c
      BY <1>1, <1>3
    <2>2. QED
      BY <1>1, <2>1 DEF RoundChannel
  <1>7. QED
    BY <1>5, <1>6 DEF RoundKey, Keys

-----------------------------------------------------------------------------
(* The sorts of steps.                                                     *)

LEMMA JobType ==
    ASSUME ReminderInv
    PROVE  /\ job \in [Workers -> Job] /\ \A w \in Workers : job[w] \in Job
           /\ row \in [Occurrences -> Nat]
           /\ log \in [Occurrences -> SUBSET Keys]
           /\ delivered \in [Occurrences -> [Keys -> Nat]]
           /\ excused \in [Occurrences -> [Keys -> Nat]]
           /\ crossed \in [Occurrences -> SUBSET Keys]
           /\ lock \in Workers \cup {None} /\ None \notin Workers
  BY ReminderAssumption DEF ReminderInv, TypeOK, Job

\* An idle job has nothing in hand.
LEMMA IdleType ==
    /\ Idle \in Job
    /\ Idle.phase = "idle" /\ Idle.entries = {} /\ Idle.batch = {}
  <1>1. 0 \in 0 .. LastDay /\ 0 \in 0 .. Rounds
    BY ReminderAssumption
  <1>2. QED
    BY <1>1 DEF Idle, Job, Phases

\* The worker that runs is alone.
LEMMA Alone ==
    ASSUME ReminderInv, NEW w \in Workers, job[w].phase # "idle",
           NEW v \in Workers \ {w}
    PROVE  job[v].phase = "idle" /\ job[v].batch = {} /\ job[v].entries = {}
  BY DEF ReminderInv, OneJob, HandsAreInOrder

\* A step that touches neither the tables nor what the jobs have in hand.
LEMMA QuietStep ==
    ASSUME ReminderInv, TypeOK', UNCHANGED <<row, log, history, job, lock>>
    PROVE  ReminderInv'
  <1> USE DEF ReminderInv
  <1>1. OneJob' /\ HandsAreInOrder' /\ HandsAreUnstamped'
    BY DEF OneJob, HandsAreInOrder, HandsAreUnstamped
  <1>2. /\ FlightsHaveLeft' /\ MessagesAreAccountedFor' /\ CrossedHaveATrace'
        /\ StampMeansSent'
    BY DEF FlightsHaveLeft, MessagesAreAccountedFor, CrossedHaveATrace, HasATrace,
           StampMeansSent, InFlight, history
  <1>3. QED
    BY <1>1, <1>2

\* A step of a job that has no message in flight, and sends none.
LEMMA JobStep ==
    ASSUME ReminderInv, TypeOK', OneJob', NEW w \in Workers,
           UNCHANGED <<row, log, history>>,
           \A v \in Workers \ {w} : job'[v] = job[v],
           job[w].phase # "stamp", job'[w].phase # "stamp", job'[w].batch = {},
           job'[w].phase \in {"load", "send"} => job'[w].round \in 1 .. Rounds,
           job'[w].phase # "send" => job'[w].entries = {},
           \A e \in job'[w].entries : e[2] <= row[e[1]],
           \A o \in Occurrences :
              <<o, row[o]>> \in job'[w].entries => RoundKey(job'[w].round) \notin log[o]
    PROVE  ReminderInv'
  <1> USE DEF ReminderInv
  <1>1. job[w].batch = {}
    BY DEF HandsAreInOrder
  <1>2. HandsAreInOrder'
    BY DEF HandsAreInOrder
  <1>3. HandsAreUnstamped'
    BY DEF HandsAreUnstamped
  <1>4. \A v \in Workers, o \in Occurrences, key \in Keys :
          InFlight(v, o, key)' <=> InFlight(v, o, key)
    BY <1>1 DEF InFlight
  <1>5. FlightsHaveLeft' /\ StampMeansSent'
    BY <1>4 DEF FlightsHaveLeft, StampMeansSent, history
  <1>6. MessagesAreAccountedFor' /\ CrossedHaveATrace'
    <2>1. \A o \in Occurrences, key \in Keys : HasATrace(o, key)' <=> HasATrace(o, key)
      BY <1>4 DEF HasATrace
    <2>2. \A o \in Occurrences : crossed[o] \subseteq Keys
      BY JobType
    <2>3. QED
      BY <2>1, <2>2 DEF MessagesAreAccountedFor, CrossedHaveATrace, history
  <1>7. QED
    BY <1>2, <1>3, <1>5, <1>6

\* A message leaves.
LEMMA DeliverStep ==
    ASSUME ReminderInv, NEW w \in Workers, NEW a \in Accounts, Deliver(w, a)
    PROVE  ReminderInv'
  <1> USE DEF ReminderInv
  <1> DEFINE key == RoundKey(job[w].round)
             mine == Entries(w, a)
             count(o) == IF <<o, row[o]>> \in mine
                         THEN [delivered[o] EXCEPT ![key] = @ + 1] ELSE delivered[o]
  <1>1. /\ job[w].phase = "send"
        /\ job' = [job EXCEPT ![w].phase = "stamp", ![w].batch = mine,
                              ![w].entries = @ \ mine]
        /\ delivered' = [o \in Occurrences |-> count(o)]
        /\ UNCHANGED <<day, tables, lock, failures, crashes, edits, excused, crossed>>
    BY DEF Deliver, Sending
  <1>2. /\ job[w].round \in 1 .. Rounds /\ job[w].batch = {}
        /\ mine \subseteq job[w].entries
    BY <1>1 DEF HandsAreInOrder, Entries
  <1>3. key \in Keys
    BY <1>2, RoundKeyType
  <1>4. \A o \in Occurrences : count(o) \in [Keys -> Nat]
    BY <1>3, JobType
  <1>5. job[w] \in Job /\ job \in [Workers -> Job] /\ w \in Workers
    BY JobType
  <1> HIDE DEF mine, count
  <1>6. job'[w] = [job[w] EXCEPT !.phase = "stamp", !.batch = mine, !.entries = @ \ mine]
    BY <1>1, <1>5
  <1>7. /\ job'[w].phase = "stamp" /\ job'[w].batch = mine
        /\ job'[w].entries = job[w].entries \ mine
        /\ job'[w].round = job[w].round
        /\ job'[w] \in Job
        /\ \A v \in Workers \ {w} : job'[v] = job[v]
    BY <1>1, <1>2, <1>5, <1>6 DEF Job, Phases
  <1>8. TypeOK'
    <2>1. job' \in [Workers -> Job]
      BY <1>1, <1>5, <1>7
    <2>2. delivered' \in [Occurrences -> [Keys -> Nat]]
      BY <1>1, <1>4
    <2>3. QED
      BY <1>1, <2>1, <2>2 DEF TypeOK, Job, tables
  <1>9. /\ row' = row /\ log' = log /\ excused' = excused /\ crossed' = crossed
        /\ lock' = lock
    BY <1>1 DEF tables
  <1>10. OneJob'
    BY <1>1, <1>7, <1>9 DEF OneJob
  <1>11. HandsAreInOrder'
    BY <1>2, <1>7, <1>9 DEF HandsAreInOrder
  <1>12. HandsAreUnstamped'
    BY <1>2, <1>7, <1>9 DEF HandsAreUnstamped
  <1>13. ASSUME NEW o \in Occurrences, NEW k \in Keys
         PROVE  /\ delivered[o][k] \in Nat /\ excused[o][k] \in Nat
                /\ delivered'[o][k] \in Nat /\ delivered'[o][k] >= delivered[o][k]
                /\ InFlight(w, o, k)' =>
                      delivered'[o][k] = delivered[o][k] + 1 /\ k \notin log[o]
                /\ ~InFlight(w, o, k)' => delivered'[o][k] = delivered[o][k]
    <2>1. delivered[o] \in [Keys -> Nat] /\ excused[o] \in [Keys -> Nat]
      BY JobType
    <2>2. InFlight(w, o, k)' <=> <<o, row[o]>> \in mine /\ k = key
      BY <1>7, <1>9 DEF InFlight
    <2>3. CASE <<o, row[o]>> \in mine
      <3>1. delivered'[o] = [delivered[o] EXCEPT ![key] = @ + 1]
        BY <1>1, <2>3 DEF count
      <3>2. key \notin log[o]
        BY <1>2, <2>3 DEF HandsAreUnstamped
      <3>3. QED
        BY <1>3, <2>1, <2>2, <2>3, <3>1, <3>2
    <2>4. CASE <<o, row[o]>> \notin mine
      BY <1>1, <2>1, <2>2, <2>4 DEF count
    <2>5. QED
      BY <2>3, <2>4
  <1>14. \A v \in Workers, o \in Occurrences, k \in Keys : ~InFlight(v, o, k)
    BY <1>1, <1>2, Alone DEF InFlight
  <1>15. \A v \in Workers \ {w}, o \in Occurrences, k \in Keys : ~InFlight(v, o, k)'
    BY <1>1, <1>7, Alone DEF InFlight
  <1>16. ASSUME NEW o \in Occurrences, NEW k \in Keys
         PROVE  \/ /\ delivered[o][k] = excused[o][k]
                   /\ k \in crossed[o] => k \in log[o]
                \/ delivered[o][k] = 1 + excused[o][k] /\ k \in log[o] /\ k \notin crossed[o]
    <2>1. HasATrace(o, k) <=> k \in log[o]
      BY <1>14 DEF HasATrace
    <2>2. delivered[o][k] \in Nat /\ excused[o][k] \in Nat
      BY <1>13
    <2>3. QED
      BY <2>1, <2>2 DEF MessagesAreAccountedFor, CrossedHaveATrace
  <1>17. FlightsHaveLeft'
    <2> SUFFICES ASSUME NEW o \in Occurrences, NEW k \in Keys, InFlight(w, o, k)'
                 PROVE  delivered'[o][k] > 0 /\ delivered'[o][k] > excused[o][k]
      BY <1>9, <1>15 DEF FlightsHaveLeft
    <2>1. QED
      BY <1>13, <1>16
  <1>18. MessagesAreAccountedFor' /\ CrossedHaveATrace'
    <2>1. ASSUME NEW o \in Occurrences, NEW k \in Keys
          PROVE  /\ HasATrace(o, k)' <=> k \in log[o] \/ InFlight(w, o, k)'
                 /\ \/ delivered'[o][k] = excused[o][k]
                    \/ delivered'[o][k] = 1 + excused[o][k] /\ HasATrace(o, k)'
                 /\ k \in crossed[o] => delivered'[o][k] = excused[o][k] /\ HasATrace(o, k)'
      <3>1. HasATrace(o, k)' <=> k \in log[o] \/ InFlight(w, o, k)'
        BY <1>9, <1>15 DEF HasATrace
      <3>2. QED
        BY <1>13, <1>16, <3>1
    <2>2. \A o \in Occurrences : crossed[o] \subseteq Keys
      BY JobType
    <2>3. QED
      BY <1>9, <2>1, <2>2 DEF MessagesAreAccountedFor, CrossedHaveATrace
  <1>19. StampMeansSent'
    <2> SUFFICES ASSUME NEW o \in Occurrences, NEW k \in log[o]
                 PROVE  \/ delivered'[o][k] > excused[o][k]
                        \/ k \in crossed[o]
                        \/ /\ k[1] = "notice"
                           /\ delivered'[o][<<"action_required", k[2]>>] > 0
      BY <1>9 DEF StampMeansSent
    <2>1. k \in Keys /\ <<"action_required", k[2]>> \in Keys
      BY JobType DEF Keys, Kinds
    <2>2. QED
      BY <1>13, <2>1 DEF StampMeansSent
  <1>20. QED
    BY <1>8, <1>10, <1>11, <1>12, <1>17, <1>18, <1>19

\* A push that reached some of the devices and then failed: the message has left,
\* and is excused at once.
LEMMA FailHalfwayStep ==
    ASSUME ReminderInv, NEW w \in Workers, NEW a \in Accounts, FailHalfway(w, a)
    PROVE  ReminderInv'
  <1> USE DEF ReminderInv
  <1> DEFINE key == RoundKey(job[w].round)
             mine == Entries(w, a)
             next == [job[w] EXCEPT !.entries = @ \ mine]
             more(counts, o) == IF <<o, row[o]>> \in mine
                                THEN [counts[o] EXCEPT ![key] = @ + 1] ELSE counts[o]
  <1>1. /\ job[w].phase = "send"
        /\ job' = [job EXCEPT ![w] = next]
        /\ delivered' = [o \in Occurrences |-> more(delivered, o)]
        /\ excused' = [o \in Occurrences |-> more(excused, o)]
        /\ failures' = failures + 1 /\ failures < MaxFailures
        /\ UNCHANGED <<day, tables, lock, crashes, edits, crossed>>
    BY JobType DEF FailHalfway, Sending
  <1>2. /\ job[w].round \in 1 .. Rounds /\ job[w].batch = {}
        /\ mine \subseteq job[w].entries
    BY <1>1 DEF HandsAreInOrder, Entries
  <1>3. key \in Keys
    BY <1>2, RoundKeyType
  <1>4. \A o \in Occurrences : more(delivered, o) \in [Keys -> Nat]
                             /\ more(excused, o) \in [Keys -> Nat]
    BY <1>3, JobType
  <1>5. job[w] \in Job /\ job \in [Workers -> Job]
    BY JobType
  <1>6. ASSUME NEW o \in Occurrences, NEW k \in Keys
        PROVE  /\ delivered[o][k] \in Nat /\ excused[o][k] \in Nat
               /\ \/ delivered'[o][k] = delivered[o][k] /\ excused'[o][k] = excused[o][k]
                  \/ /\ delivered'[o][k] = delivered[o][k] + 1
                     /\ excused'[o][k] = excused[o][k] + 1
    <2>1. delivered[o] \in [Keys -> Nat] /\ excused[o] \in [Keys -> Nat]
      BY JobType
    <2>2. delivered'[o] = more(delivered, o) /\ excused'[o] = more(excused, o)
      BY <1>1
    <2> HIDE DEF mine, key
    <2>3. QED
      BY <1>3, <2>1, <2>2
  <1> HIDE DEF mine, more
  <1>7. /\ job'[w] = next /\ job' \in [Workers -> Job] /\ next \in Job
        /\ next.phase = "send" /\ next.batch = {} /\ next.round = job[w].round
        /\ next.entries \subseteq job[w].entries
        /\ \A v \in Workers \ {w} : job'[v] = job[v]
    BY <1>1, <1>2, <1>5 DEF Job
  <1> HIDE DEF next
  <1>8. TypeOK'
    <2>1. /\ delivered' \in [Occurrences -> [Keys -> Nat]]
          /\ excused' \in [Occurrences -> [Keys -> Nat]]
      BY <1>1, <1>4
    <2>2. failures' \in 0 .. MaxFailures
      BY <1>1, ReminderAssumption DEF TypeOK
    <2>3. QED
      BY <1>1, <1>7, <2>1, <2>2 DEF TypeOK, Job, tables
  <1>9. row' = row /\ log' = log /\ crossed' = crossed /\ lock' = lock
    BY <1>1 DEF tables
  <1>10. OneJob'
    BY <1>1, <1>7, <1>9 DEF OneJob
  <1>11. HandsAreInOrder'
    BY <1>1, <1>2, <1>7, <1>9 DEF HandsAreInOrder
  <1>12. HandsAreUnstamped'
    BY <1>2, <1>7, <1>9 DEF HandsAreUnstamped
  <1>13. \A v \in Workers, o \in Occurrences, k \in Keys :
           ~InFlight(v, o, k) /\ ~InFlight(v, o, k)'
    BY <1>1, <1>2, <1>7, Alone DEF InFlight
  <1>14. FlightsHaveLeft'
    BY <1>13 DEF FlightsHaveLeft
  <1>15. \A o \in Occurrences, k \in Keys :
           /\ HasATrace(o, k) <=> k \in log[o]
           /\ HasATrace(o, k)' <=> k \in log[o]
    BY <1>9, <1>13 DEF HasATrace
  <1>16. MessagesAreAccountedFor'
    <2> SUFFICES ASSUME NEW o \in Occurrences, NEW k \in Keys
                 PROVE  \/ delivered'[o][k] = excused'[o][k]
                        \/ delivered'[o][k] = 1 + excused'[o][k] /\ k \in log[o]
      BY <1>15 DEF MessagesAreAccountedFor
    <2>1. \/ delivered[o][k] = excused[o][k]
          \/ delivered[o][k] = 1 + excused[o][k] /\ k \in log[o]
      BY <1>15 DEF MessagesAreAccountedFor
    <2>2. QED
      BY <1>6, <2>1
  <1>17. CrossedHaveATrace'
    <2> SUFFICES ASSUME NEW o \in Occurrences, NEW k \in crossed[o]
                 PROVE  /\ k \in Keys /\ k[1] = "action_required"
                        /\ delivered'[o][k] = excused'[o][k] /\ k \in log[o]
      BY <1>9, <1>15 DEF CrossedHaveATrace
    <2>1. k \in Keys
      BY JobType
    <2>2. k[1] = "action_required" /\ delivered[o][k] = excused[o][k] /\ k \in log[o]
      BY <1>15, <2>1 DEF CrossedHaveATrace
    <2>3. QED
      BY <1>6, <2>1, <2>2
  <1>18. StampMeansSent'
    <2> SUFFICES ASSUME NEW o \in Occurrences, NEW k \in log[o]
                 PROVE  \/ delivered'[o][k] > excused'[o][k]
                        \/ k \in crossed[o]
                        \/ /\ k[1] = "notice"
                           /\ delivered'[o][<<"action_required", k[2]>>] > 0
      BY <1>9 DEF StampMeansSent
    <2>1. k \in Keys /\ <<"action_required", k[2]>> \in Keys
      BY JobType DEF Keys, Kinds
    <2>2. QED
      BY <1>6, <2>1 DEF StampMeansSent
  <1>19. QED
    BY <1>8, <1>10, <1>11, <1>12, <1>14, <1>16, <1>17, <1>18

\* The stamps of a message are its own and, for a warning, that of the notice.
LEMMA StampsOfAMessage ==
    ASSUME NEW o, NEW key \in Keys, NEW on
    PROVE  /\ key \in Stamps(o, key, on)
           /\ Stamps(o, key, on) \subseteq Keys
           /\ \A k \in Stamps(o, key, on) :
                 \/ k = key
                 \/ /\ k[1] = "notice"
                    /\ <<"action_required", k[2]>> = key
  <1>1. key = <<key[1], key[2]>> /\ <<"notice", key[2]>> \in Keys
    BY DEF Keys, Kinds
  <1>2. QED
    BY <1>1 DEF Stamps

\* The stamps of a batch are committed.
LEMMA StampStep ==
    ASSUME ReminderInv, NEW w \in Workers, Stamp(w)
    PROVE  ReminderInv'
  <1> USE DEF ReminderInv
  <1> DEFINE key == RoundKey(job[w].round)
             on == job[w].on
             Stamped(o) == IF <<o, row[o]>> \in job[w].batch
                           THEN log[o] \cup Stamps(o, key, on) ELSE log[o]
  <1>1. /\ job[w].phase = "stamp"
        /\ job' = [job EXCEPT ![w].phase = "send", ![w].batch = {}]
        /\ log' = [o \in Occurrences |-> Stamped(o)]
        /\ UNCHANGED <<day, status, row, listening, lock, failures, crashes, edits, history>>
    BY DEF Stamp
  <1>2. job[w].round \in 1 .. Rounds
    BY <1>1 DEF HandsAreInOrder
  <1>3. key \in Keys
    BY <1>2, RoundKeyType
  <1>4. \A o \in Occurrences : Stamped(o) \in SUBSET Keys
    BY <1>3, JobType, StampsOfAMessage
  <1>5. job[w] \in Job /\ job \in [Workers -> Job]
    BY JobType
  <1> HIDE DEF Stamped, key, on
  <1>6. job'[w] = [job[w] EXCEPT !.phase = "send", !.batch = {}]
    BY <1>1, <1>5
  <1>7. /\ job'[w].phase = "send" /\ job'[w].batch = {}
        /\ job'[w].entries = job[w].entries
        /\ job'[w].round = job[w].round
        /\ job'[w] \in Job
        /\ \A v \in Workers \ {w} : job'[v] = job[v]
    BY <1>1, <1>5, <1>6 DEF Job, Phases
  <1>8. TypeOK'
    <2>1. job' \in [Workers -> Job]
      BY <1>1, <1>5, <1>7
    <2>2. log' \in [Occurrences -> SUBSET Keys]
      BY <1>1, <1>4
    <2>3. QED
      BY <1>1, <2>1, <2>2 DEF TypeOK, Job, history
  <1>9. OneJob' /\ HandsAreInOrder'
    BY <1>1, <1>2, <1>7 DEF OneJob, HandsAreInOrder
  <1>10. \A v \in Workers \ {w} : job[v].batch = {} /\ job[v].entries = {}
    BY <1>1, Alone
  <1>11. HandsAreUnstamped'
    <2> SUFFICES ASSUME NEW o \in Occurrences, <<o, row[o]>> \in job[w].entries
                 PROVE  RoundKey(job[w].round) \notin log'[o]
      BY <1>1, <1>7, <1>10 DEF HandsAreUnstamped
    <2>1. <<o, row[o]>> \notin job[w].batch
      BY DEF HandsAreInOrder
    <2>2. QED
      BY <1>1, <2>1 DEF HandsAreUnstamped, Stamped
  <1>12. \A v \in Workers, o \in Occurrences, k \in Keys : ~InFlight(v, o, k)'
    BY <1>7, <1>10 DEF InFlight
  <1>13. \A o \in Occurrences, k \in Keys :
           k \in log[o] \/ (\E v \in Workers : InFlight(v, o, k)) => k \in log'[o]
    BY <1>1, <1>3, <1>10, StampsOfAMessage DEF InFlight, Stamped, key
  <1>14. FlightsHaveLeft' /\ MessagesAreAccountedFor' /\ CrossedHaveATrace'
    <2>1. \A o \in Occurrences : crossed[o] \subseteq Keys
      BY JobType
    <2>2. \A o \in Occurrences, k \in Keys : HasATrace(o, k) => HasATrace(o, k)'
      BY <1>13 DEF HasATrace
    <2>3. QED
      BY <1>1, <1>12, <2>1, <2>2
      DEF FlightsHaveLeft, MessagesAreAccountedFor, CrossedHaveATrace, history
  <1>15. StampMeansSent'
    <2> SUFFICES ASSUME NEW o \in Occurrences, NEW k \in log'[o], k \notin log[o]
                 PROVE  \/ delivered[o][k] > excused[o][k]
                        \/ k \in crossed[o]
                        \/ /\ k[1] = "notice"
                           /\ delivered[o][<<"action_required", k[2]>>] > 0
      BY <1>1 DEF StampMeansSent, history
    <2>1. <<o, row[o]>> \in job[w].batch /\ k \in Stamps(o, key, on)
      BY <1>1 DEF Stamped
    <2>2. /\ delivered[o][key] > 0
          /\ delivered[o][key] > excused[o][key] \/ key \in crossed[o]
      BY <1>3, <2>1 DEF FlightsHaveLeft, InFlight, key
    <2>3. QED
      BY <1>3, <2>1, <2>2, StampsOfAMessage
  <1>16. QED
    BY <1>8, <1>9, <1>11, <1>14, <1>15

\* A job ends in the middle of things; what it had in flight is excused, once.
LEMMA LostStep ==
    ASSUME ReminderInv, NEW w \in Workers, job[w].phase # "idle",
           LoseBatch(w), Release(w), job' = [job EXCEPT ![w] = Idle],
           UNCHANGED <<day, tables, failures, edits, delivered>>,
           crashes' \in 0 .. MaxCrashes
    PROVE  ReminderInv'
  <1> USE DEF ReminderInv
  <1>1. /\ job[w] \in Job /\ job \in [Workers -> Job]
        /\ row' = row /\ log' = log /\ delivered' = delivered
    BY JobType DEF tables
  <1>2. /\ job'[w] = Idle /\ \A v \in Workers \ {w} : job'[v] = job[v]
        /\ job' \in [Workers -> Job]
    BY <1>1, IdleType
  <1>3. /\ job'[w].phase = "idle" /\ job'[w].batch = {} /\ job'[w].entries = {}
    BY <1>2, IdleType
  <1>4. ASSUME NEW o \in Occurrences, NEW k \in Keys
        PROVE  /\ excused[o][k] \in Nat /\ delivered[o][k] \in Nat
               /\ excused'[o][k] = IF InFlight(w, o, k) /\ k \notin crossed[o]
                                   THEN excused[o][k] + 1 ELSE excused[o][k]
               /\ k \in crossed'[o] <=> k \in crossed[o] /\ ~InFlight(w, o, k)
    BY JobType DEF LoseBatch
  <1>5. /\ excused' \in [Occurrences -> [Keys -> Nat]]
        /\ crossed' \in [Occurrences -> SUBSET Keys]
    BY JobType DEF LoseBatch
  <1>6. TypeOK'
    <2>1. lock' \in Workers \cup {None}
      BY JobType DEF Release
    <2>2. QED
      BY <1>2, <1>5, <2>1 DEF TypeOK, Job, tables
  <1>7. lock = w /\ lock' = None /\ \A v \in Workers : v # None
    BY JobType DEF OneJob, Release
  <1>8. \A v \in Workers \ {w} : job[v].phase = "idle" /\ job[v].batch = {} /\ job[v].entries = {}
    BY Alone
  <1>9. OneJob'
    BY <1>2, <1>3, <1>7, <1>8 DEF OneJob
  <1>10. HandsAreInOrder' /\ HandsAreUnstamped'
    BY <1>1, <1>2, <1>3, <1>8 DEF HandsAreInOrder, HandsAreUnstamped
  <1>11. \A v \in Workers, o \in Occurrences, k \in Keys :
           /\ ~InFlight(v, o, k)'
           /\ v # w => ~InFlight(v, o, k)
    BY <1>2, <1>3, <1>8 DEF InFlight
  <1>12. FlightsHaveLeft'
    BY <1>11 DEF FlightsHaveLeft
  <1>13. ASSUME NEW o \in Occurrences, NEW k \in Keys
         PROVE  /\ HasATrace(o, k) <=> k \in log[o] \/ InFlight(w, o, k)
                /\ HasATrace(o, k)' <=> k \in log[o]
                /\ InFlight(w, o, k) => delivered[o][k] > excused[o][k] \/ k \in crossed[o]
                /\ \/ delivered[o][k] = excused[o][k]
                   \/ delivered[o][k] = 1 + excused[o][k] /\ HasATrace(o, k)
                /\ k \in crossed[o] => delivered[o][k] = excused[o][k] /\ HasATrace(o, k)
    <2>1. /\ HasATrace(o, k) <=> k \in log[o] \/ InFlight(w, o, k)
          /\ HasATrace(o, k)' <=> k \in log[o]
      BY <1>1, <1>11 DEF HasATrace
    <2>2. QED
      BY <2>1 DEF FlightsHaveLeft, MessagesAreAccountedFor, CrossedHaveATrace
  <1>14. MessagesAreAccountedFor' /\ CrossedHaveATrace'
    <2>1. ASSUME NEW o \in Occurrences, NEW k \in Keys
          PROVE  /\ \/ delivered'[o][k] = excused'[o][k]
                    \/ delivered'[o][k] = 1 + excused'[o][k] /\ HasATrace(o, k)'
                 /\ k \in crossed'[o] => delivered'[o][k] = excused'[o][k] /\ HasATrace(o, k)'
      <3>1. delivered'[o][k] = delivered[o][k]
        BY <1>1
      <3>2. QED
        BY <1>4, <1>13, <3>1
    <2>2. \A o \in Occurrences : \A k \in crossed'[o] : k \in Keys /\ k[1] = "action_required"
      BY <1>4, <1>5, JobType DEF CrossedHaveATrace
    <2>3. QED
      BY <2>1, <2>2 DEF MessagesAreAccountedFor, CrossedHaveATrace
  <1>15. StampMeansSent'
    <2> SUFFICES ASSUME NEW o \in Occurrences, NEW k \in log[o]
                 PROVE  \/ delivered[o][k] > excused'[o][k]
                        \/ k \in crossed'[o]
                        \/ /\ k[1] = "notice"
                           /\ delivered[o][<<"action_required", k[2]>>] > 0
      BY <1>1 DEF StampMeansSent
    <2>1. k \in Keys
      BY JobType
    <2>2. ~InFlight(w, o, k)
      BY <1>8, <2>1 DEF HandsAreUnstamped, InFlight
    <2>3. QED
      BY <1>4, <2>1, <2>2 DEF StampMeansSent
  <1>16. QED
    BY <1>6, <1>9, <1>10, <1>12, <1>14, <1>15

\* A row is made anew, or goes for good.
LEMMA NewRowStep ==
    ASSUME ReminderInv, NEW o \in Occurrences, NewRow(o),
           UNCHANGED <<day, listening, lock, job, failures, crashes>>,
           status' \in [Occurrences -> {"pending", "settled", "gone"}],
           edits' \in 0 .. MaxEdits
    PROVE  ReminderInv'
  <1> USE DEF ReminderInv
  <1> DEFINE none == [key \in Keys |-> 0]
  <1>1. /\ row' = [row EXCEPT ![o] = @ + 1] /\ log' = [log EXCEPT ![o] = {}]
        /\ delivered' = [delivered EXCEPT ![o] = none]
        /\ excused' = [excused EXCEPT ![o] = none]
        /\ crossed' = [crossed EXCEPT ![o] = {}]
    BY DEF NewRow
  <1>2. none \in [Keys -> Nat] /\ \A k \in Keys : none[k] = 0
    OBVIOUS
  <1> HIDE DEF none
  <1>3. /\ row[o] \in Nat /\ row'[o] = row[o] + 1 /\ log'[o] = {}
        /\ delivered'[o] = none /\ excused'[o] = none /\ crossed'[o] = {}
        /\ \A p \in Occurrences \ {o} :
              /\ row'[p] = row[p] /\ log'[p] = log[p]
              /\ delivered'[p] = delivered[p] /\ excused'[p] = excused[p]
              /\ crossed'[p] = crossed[p]
    BY <1>1, JobType
  <1>4. TypeOK'
    BY <1>1, <1>2, <1>3, JobType DEF TypeOK, Job
  <1>5. \A w \in Workers :
          <<o, row'[o]>> \notin job[w].entries /\ <<o, row'[o]>> \notin job[w].batch
    <2> SUFFICES ASSUME NEW w \in Workers, NEW e \in job[w].entries \cup job[w].batch,
                        e = <<o, row'[o]>>
                 PROVE  FALSE
      OBVIOUS
    <2>1. e[1] = o /\ e[2] = row[o] + 1
      BY <1>3
    <2>2. e[2] <= row[o]
      BY <2>1 DEF HandsAreInOrder
    <2>3. QED
      BY <1>3, <2>1, <2>2
  <1>6. OneJob'
    BY DEF OneJob
  <1>7. HandsAreInOrder'
    <2>1. ASSUME NEW w \in Workers, NEW e \in job[w].entries \cup job[w].batch
          PROVE  e[2] <= row'[e[1]]
      <3>1. e \in Occurrences \X Nat
        BY JobType DEF Job
      <3>2. e[1] \in Occurrences /\ e[2] \in Nat /\ e[2] <= row[e[1]]
        BY <3>1 DEF HandsAreInOrder
      <3>3. QED
        BY <1>3, <3>2
    <2>2. QED
      BY <2>1 DEF HandsAreInOrder
  <1>8. HandsAreUnstamped'
    BY <1>3, <1>5 DEF HandsAreUnstamped
  <1>9. ASSUME NEW w \in Workers, NEW k \in Keys
        PROVE  /\ ~InFlight(w, o, k)'
               /\ \A p \in Occurrences \ {o} : InFlight(w, p, k)' <=> InFlight(w, p, k)
    BY <1>3, <1>5 DEF InFlight
  <1>10. FlightsHaveLeft'
    BY <1>3, <1>9 DEF FlightsHaveLeft
  <1>11. MessagesAreAccountedFor' /\ CrossedHaveATrace'
    <2>1. ASSUME NEW p \in Occurrences, NEW k \in Keys
          PROVE  /\ \/ delivered'[p][k] = excused'[p][k]
                    \/ delivered'[p][k] = 1 + excused'[p][k] /\ HasATrace(p, k)'
                 /\ k \in crossed'[p] => delivered'[p][k] = excused'[p][k] /\ HasATrace(p, k)'
      <3>1. CASE p = o
        BY <1>2, <1>3, <3>1
      <3>2. CASE p # o
        <4>1. HasATrace(p, k)' <=> HasATrace(p, k)
          BY <1>3, <1>9, <3>2 DEF HasATrace
        <4>2. QED
          BY <1>3, <3>2, <4>1 DEF MessagesAreAccountedFor, CrossedHaveATrace
      <3>3. QED
        BY <3>1, <3>2
    <2>2. \A p \in Occurrences : \A k \in crossed'[p] : k \in Keys /\ k[1] = "action_required"
      BY <1>3, JobType DEF CrossedHaveATrace
    <2>3. QED
      BY <2>1, <2>2 DEF MessagesAreAccountedFor, CrossedHaveATrace
  <1>12. StampMeansSent'
    BY <1>3 DEF StampMeansSent
  <1>13. QED
    BY <1>4, <1>6, <1>7, <1>8, <1>10, <1>11, <1>12

\* The stamps of a deadline are withdrawn with it, and its messages excused: those
\* in flight cross the edit.
LEMMA MoveDeadlineStep ==
    ASSUME ReminderInv, NEW o \in Occurrences, MoveDeadline(o)
    PROVE  ReminderInv'
  <1> USE DEF ReminderInv
  <1> DEFINE Warned(key) == key[1] = "action_required"
             stamps == {key \in log[o] : ~Warned(key)}
             pardon == [key \in Keys |-> IF Warned(key) THEN delivered[o][key]
                                                        ELSE excused[o][key]]
             flying == {key \in Keys : Warned(key) /\ \E w \in Workers : InFlight(w, o, key)}
  <1>1. /\ log' = [log EXCEPT ![o] = stamps] /\ excused' = [excused EXCEPT ![o] = pardon]
        /\ crossed' = [crossed EXCEPT ![o] = flying]
        /\ UNCHANGED <<day, status, row, listening, lock, job, failures, crashes, delivered>>
        /\ edits < MaxEdits /\ edits' = edits + 1
    BY DEF MoveDeadline, Edit
  <1>2. /\ stamps \in SUBSET Keys /\ stamps \subseteq log[o]
        /\ pardon \in [Keys -> Nat] /\ flying \in SUBSET Keys
        /\ \A k \in Keys :
              /\ Warned(k) => pardon[k] = delivered[o][k]
              /\ ~Warned(k) => pardon[k] = excused[o][k]
              /\ k \in stamps <=> ~Warned(k) /\ k \in log[o]
              /\ k \in flying <=> Warned(k) /\ \E w \in Workers : InFlight(w, o, k)
    <2>1. log[o] \in SUBSET Keys /\ delivered[o] \in [Keys -> Nat] /\ excused[o] \in [Keys -> Nat]
      BY JobType
    <2>2. QED
      BY <2>1
  <1> HIDE DEF stamps, pardon, flying, Warned
  <1>3. /\ log'[o] = stamps /\ excused'[o] = pardon /\ crossed'[o] = flying
        /\ \A p \in Occurrences \ {o} :
              log'[p] = log[p] /\ excused'[p] = excused[p] /\ crossed'[p] = crossed[p]
    BY <1>1, JobType
  <1>4. TypeOK'
    <2>1. /\ log' \in [Occurrences -> SUBSET Keys] /\ excused' \in [Occurrences -> [Keys -> Nat]]
          /\ crossed' \in [Occurrences -> SUBSET Keys]
      BY <1>1, <1>2, JobType
    <2>2. edits' \in 0 .. MaxEdits
      BY <1>1, ReminderAssumption DEF TypeOK
    <2>3. QED
      BY <1>1, <2>1, <2>2 DEF TypeOK
  <1>5. OneJob' /\ HandsAreInOrder'
    BY <1>1 DEF OneJob, HandsAreInOrder
  <1>6. \A p \in Occurrences : log'[p] \subseteq log[p]
    BY <1>2, <1>3
  <1>7. HandsAreUnstamped'
    BY <1>1, <1>6 DEF HandsAreUnstamped
  <1>8. \A w \in Workers, p \in Occurrences, k \in Keys : InFlight(w, p, k)' <=> InFlight(w, p, k)
    BY <1>1 DEF InFlight
  <1>9. ASSUME NEW p \in Occurrences, NEW k \in Keys
        PROVE  /\ delivered[p][k] \in Nat /\ excused[p][k] \in Nat
               /\ \/ delivered[p][k] = excused[p][k]
                  \/ delivered[p][k] = 1 + excused[p][k] /\ HasATrace(p, k)
               /\ k \in crossed[p] => delivered[p][k] = excused[p][k] /\ HasATrace(p, k)
               /\ HasATrace(p, k) <=> k \in log[p] \/ \E w \in Workers : InFlight(w, p, k)
               /\ HasATrace(p, k)' <=> k \in log'[p] \/ \E w \in Workers : InFlight(w, p, k)
    BY <1>8, JobType DEF MessagesAreAccountedFor, CrossedHaveATrace, HasATrace
  <1>10. FlightsHaveLeft'
    <2> SUFFICES ASSUME NEW w \in Workers, NEW p \in Occurrences, NEW k \in Keys,
                        InFlight(w, p, k)
                 PROVE  /\ delivered[p][k] > 0
                        /\ delivered[p][k] > excused'[p][k] \/ k \in crossed'[p]
      BY <1>1, <1>8 DEF FlightsHaveLeft
    <2>1. delivered[p][k] > 0 /\ (delivered[p][k] > excused[p][k] \/ k \in crossed[p])
      BY DEF FlightsHaveLeft
    <2>2. CASE p = o /\ Warned(k)
      BY <1>2, <1>3, <2>1, <2>2
    <2>3. CASE p = o /\ ~Warned(k)
      BY <1>2, <1>3, <2>1, <2>3 DEF CrossedHaveATrace, Warned
    <2>4. CASE p # o
      BY <1>3, <2>1, <2>4
    <2>5. QED
      BY <2>2, <2>3, <2>4
  <1>11. MessagesAreAccountedFor' /\ CrossedHaveATrace'
    <2>1. ASSUME NEW p \in Occurrences, NEW k \in Keys
          PROVE  /\ \/ delivered[p][k] = excused'[p][k]
                    \/ delivered[p][k] = 1 + excused'[p][k] /\ HasATrace(p, k)'
                 /\ k \in crossed'[p] => delivered[p][k] = excused'[p][k] /\ HasATrace(p, k)'
      <3>1. CASE p = o /\ Warned(k)
        BY <1>2, <1>3, <1>9, <3>1
      <3>2. CASE p = o /\ ~Warned(k)
        BY <1>2, <1>3, <1>9, <3>2
      <3>3. CASE p # o
        BY <1>3, <1>9, <3>3
      <3>4. QED
        BY <3>1, <3>2, <3>3
    <2>2. \A p \in Occurrences : \A k \in crossed'[p] : k \in Keys /\ k[1] = "action_required"
      BY <1>2, <1>3, JobType DEF CrossedHaveATrace, Warned
    <2>3. QED
      BY <1>1, <2>1, <2>2 DEF MessagesAreAccountedFor, CrossedHaveATrace
  <1>12. StampMeansSent'
    <2> SUFFICES ASSUME NEW p \in Occurrences, NEW k \in log'[p]
                 PROVE  \/ delivered[p][k] > excused'[p][k]
                        \/ k \in crossed'[p]
                        \/ /\ k[1] = "notice"
                           /\ delivered[p][<<"action_required", k[2]>>] > 0
      BY <1>1 DEF StampMeansSent
    <2>1. k \in log[p] /\ k \in Keys
      BY <1>6, JobType
    <2>2. \/ delivered[p][k] > excused[p][k]
          \/ k \in crossed[p]
          \/ k[1] = "notice" /\ delivered[p][<<"action_required", k[2]>>] > 0
      BY <2>1 DEF StampMeansSent
    <2>3. CASE p # o
      BY <1>3, <2>2, <2>3
    <2>4. CASE p = o
      <3>1. ~Warned(k)
        BY <1>2, <1>3, <2>1, <2>4
      <3>2. k \notin crossed[o]
        BY <3>1 DEF CrossedHaveATrace, Warned
      <3>3. QED
        BY <1>2, <1>3, <2>1, <2>2, <2>4, <3>1, <3>2
    <2>5. QED
      BY <2>3, <2>4
  <1>13. QED
    BY <1>4, <1>5, <1>7, <1>10, <1>11, <1>12

-----------------------------------------------------------------------------
(* Every action is a step of one of the sorts.                             *)

\* The worker that gets the lock is alone to start.
LEMMA StartSound ==
    ASSUME ReminderInv, NEW w \in Workers, Start(w)
    PROVE  ReminderInv'
  <1> USE DEF ReminderInv
  <1> DEFINE next == [Idle EXCEPT !.phase = "prepare", !.on = day]
  <1>1. /\ job[w].phase = "idle" /\ lock = None /\ lock' = w
        /\ job' = [job EXCEPT ![w] = next]
        /\ UNCHANGED <<day, tables, failures, crashes, edits, history>>
    BY DEF Start
  <1>2. /\ next \in Job /\ next.phase = "prepare" /\ next.entries = {} /\ next.batch = {}
    BY IdleType DEF Job, Phases, TypeOK
  <1> HIDE DEF next
  <1>3. /\ job'[w] = next /\ job' \in [Workers -> Job]
        /\ \A v \in Workers \ {w} : job'[v] = job[v]
    BY <1>1, <1>2, JobType
  <1>4. TypeOK'
    BY <1>1, <1>3 DEF TypeOK, Job, tables, history
  <1>5. OneJob'
    BY <1>1, <1>2, <1>3, JobType DEF OneJob
  <1>6. QED
    BY <1>1, <1>2, <1>3, <1>4, <1>5, JobStep DEF tables, history

\* A job goes from one thing to the next, with no message in flight.
LEMMA GoesOn ==
    ASSUME ReminderInv, NEW w \in Workers, NEW next \in Job,
           job[w].phase \notin {"idle", "stamp"}, next.phase \notin {"idle", "stamp"},
           job' = [job EXCEPT ![w] = next],
           UNCHANGED <<day, tables, lock, crashes, edits, history>>,
           failures' \in 0 .. MaxFailures,
           next.batch = {},
           next.phase # "prepare" => next.round \in 1 .. Rounds,
           next.phase # "send" => next.entries = {},
           \A e \in next.entries : e[2] <= row[e[1]],
           \A o \in Occurrences :
              <<o, row[o]>> \in next.entries => RoundKey(next.round) \notin log[o]
    PROVE  ReminderInv'
  <1>1. /\ job'[w] = next /\ job' \in [Workers -> Job]
        /\ \A v \in Workers \ {w} : job'[v] = job[v]
    BY JobType
  <1>2. TypeOK'
    BY <1>1 DEF ReminderInv, TypeOK, Job, tables, history
  <1>3. OneJob'
    BY <1>1 DEF ReminderInv, OneJob
  <1>4. QED
    BY <1>1, <1>2, <1>3, JobStep DEF tables, history

LEMMA PrepareSound ==
    ASSUME ReminderInv, NEW w \in Workers, Prepare(w)
    PROVE  ReminderInv'
  <1> DEFINE next == [job[w] EXCEPT !.phase = "load", !.round = 1]
  <1>1. job[w] \in Job /\ job \in [Workers -> Job] /\ job[w].phase = "prepare"
    BY JobType DEF Prepare
  <1>2. job' = [job EXCEPT ![w] = next]
    BY <1>1 DEF Prepare
  <1>3. job[w].batch = {} /\ job[w].entries = {}
    BY <1>1 DEF ReminderInv, HandsAreInOrder
  <1>4. 1 \in 1 .. Rounds /\ 1 \in 0 .. Rounds
    BY ReminderAssumption
  <1>5. next \in Job /\ next.phase = "load" /\ next.round = 1 /\ next.batch = {} /\ next.entries = {}
    BY <1>1, <1>3, <1>4 DEF Job, Phases
  <1>6. /\ UNCHANGED <<day, tables, lock, crashes, edits, history>>
        /\ failures' \in 0 .. MaxFailures
    BY DEF Prepare, ReminderInv, TypeOK
  <1> HIDE DEF next
  <1>7. QED
    BY <1>1, <1>2, <1>4, <1>5, <1>6, GoesOn

LEMMA LoadSound ==
    ASSUME ReminderInv, NEW w \in Workers, Load(w)
    PROVE  ReminderInv'
  <1> DEFINE key == RoundKey(job[w].round)
             found == {<<o, row[o]>> : o \in Unreminded(key, job[w].on)}
             next == [job[w] EXCEPT !.phase = "send", !.entries = found]
  <1>1. job[w] \in Job /\ job \in [Workers -> Job] /\ job[w].phase = "load"
    BY JobType DEF Load
  <1>2. job' = [job EXCEPT ![w] = next]
    BY <1>1 DEF Load
  <1>3. job[w].batch = {} /\ job[w].round \in 1 .. Rounds
    BY <1>1 DEF ReminderInv, HandsAreInOrder
  <1>4. /\ found \in SUBSET (Occurrences \X Nat)
        /\ \A e \in found : e[2] <= row[e[1]]
        /\ \A o \in Occurrences : <<o, row[o]>> \in found => key \notin log[o]
    BY JobType DEF Unreminded
  <1> HIDE DEF found, key
  <1>5. /\ next \in Job /\ next.phase = "send" /\ next.round = job[w].round
        /\ next.batch = {} /\ next.entries = found
    BY <1>1, <1>3, <1>4 DEF Job, Phases
  <1>6. /\ UNCHANGED <<day, tables, lock, crashes, edits, history>>
        /\ failures' \in 0 .. MaxFailures
    BY DEF Load, ReminderInv, TypeOK
  <1> HIDE DEF next
  <1>7. QED
    BY <1>1, <1>2, <1>3, <1>4, <1>5, <1>6, GoesOn DEF key

\* An account that is not written to, or cannot be, is left aside.
LEMMA LeaveAsideSound ==
    ASSUME ReminderInv, NEW w \in Workers, NEW a \in Accounts, Skip(w, a) \/ Fail(w, a)
    PROVE  ReminderInv'
  <1> DEFINE mine == Entries(w, a)
             next == [job[w] EXCEPT !.entries = @ \ mine]
  <1>1. job[w] \in Job /\ job \in [Workers -> Job] /\ job[w].phase = "send"
    BY JobType DEF Skip, Fail, Sending
  <1>2. job' = [job EXCEPT ![w] = next]
    BY <1>1 DEF Skip, Fail
  <1>3. job[w].batch = {} /\ job[w].round \in 1 .. Rounds
    BY <1>1 DEF ReminderInv, HandsAreInOrder
  <1> HIDE DEF mine
  <1>4. /\ next \in Job /\ next.phase = "send" /\ next.round = job[w].round
        /\ next.batch = {} /\ next.entries \subseteq job[w].entries
    BY <1>1, <1>3 DEF Job
  <1>5. /\ UNCHANGED <<day, tables, lock, crashes, edits, history>>
    BY DEF Skip, Fail
  <1>6. failures' \in 0 .. MaxFailures
    BY ReminderAssumption DEF Skip, Fail, ReminderInv, TypeOK
  <1>7. /\ \A e \in next.entries : e[2] <= row[e[1]]
        /\ \A o \in Occurrences :
              <<o, row[o]>> \in next.entries => RoundKey(next.round) \notin log[o]
    BY <1>4 DEF ReminderInv, HandsAreInOrder, HandsAreUnstamped
  <1> HIDE DEF next
  <1>8. QED
    BY <1>1, <1>2, <1>3, <1>4, <1>5, <1>6, <1>7, GoesOn

LEMMA EndRoundSound ==
    ASSUME ReminderInv, NEW w \in Workers, EndRound(w)
    PROVE  ReminderInv'
  <1> DEFINE next == [job[w] EXCEPT !.phase = "load", !.round = @ + 1]
  <1>1. /\ job[w] \in Job /\ job \in [Workers -> Job] /\ job[w].phase = "send"
        /\ job[w].entries = {} /\ job[w].round < Rounds
    BY JobType DEF EndRound
  <1>2. job' = [job EXCEPT ![w] = next]
    BY <1>1 DEF EndRound
  <1>3. job[w].batch = {} /\ job[w].round \in 1 .. Rounds
    BY <1>1 DEF ReminderInv, HandsAreInOrder
  <1>4. job[w].round + 1 \in 1 .. Rounds /\ job[w].round + 1 \in 0 .. Rounds
    BY <1>1, <1>3, ReminderAssumption
  <1>5. PICK n \in 1 .. Rounds : n = job[w].round + 1 /\ n \in 0 .. Rounds
    BY <1>4
  <1>6. next = [job[w] EXCEPT !.phase = "load", !.round = n]
    BY <1>5
  <1>7. /\ next \in Job /\ next.phase = "load" /\ next.round = n
        /\ next.batch = {} /\ next.entries = {}
    BY <1>1, <1>3, <1>5, <1>6 DEF Job, Phases
  <1>8. /\ UNCHANGED <<day, tables, lock, crashes, edits, history>>
        /\ failures' \in 0 .. MaxFailures
    BY DEF EndRound, ReminderInv, TypeOK
  <1> HIDE DEF next
  <1>9. QED
    BY <1>1, <1>2, <1>5, <1>7, <1>8, GoesOn

LEMMA FinishSound ==
    ASSUME ReminderInv, NEW w \in Workers, Finish(w)
    PROVE  ReminderInv'
  <1> USE DEF ReminderInv
  <1>1. /\ job[w].phase = "send" /\ job' = [job EXCEPT ![w] = Idle]
        /\ UNCHANGED <<day, tables, failures, crashes, edits, history>>
    BY DEF Finish
  <1>2. /\ job'[w] = Idle /\ job' \in [Workers -> Job]
        /\ \A v \in Workers \ {w} : job'[v] = job[v]
    BY <1>1, JobType, IdleType
  <1>3. job'[w].phase = "idle" /\ job'[w].entries = {} /\ job'[w].batch = {}
    BY <1>2, IdleType
  <1>4. lock = w /\ lock' = None /\ \A v \in Workers : v # None
    BY <1>1, JobType DEF OneJob, Finish, Release
  <1>5. TypeOK'
    BY <1>1, <1>2, <1>4 DEF TypeOK, Job, tables, history
  <1>6. OneJob'
    BY <1>1, <1>2, <1>3, <1>4, Alone DEF OneJob
  <1>7. QED
    BY <1>1, <1>2, <1>3, <1>5, <1>6, JobStep DEF tables, history

LEMMA EndsSound ==
    ASSUME ReminderInv, NEW w \in Workers, StampRefused(w) \/ Crash(w)
    PROVE  ReminderInv'
  <1>1. /\ job[w].phase # "idle" /\ LoseBatch(w) /\ Release(w)
        /\ job' = [job EXCEPT ![w] = Idle]
        /\ UNCHANGED <<day, tables, failures, edits, delivered>>
    BY DEF StampRefused, Crash
  <1>2. crashes' \in 0 .. MaxCrashes
    BY ReminderAssumption DEF StampRefused, Crash, ReminderInv, TypeOK
  <1>3. QED
    BY <1>1, <1>2, LostStep

LEMMA OwnersAndDaysSound ==
    ASSUME ReminderInv, Owners \/ Midnight \/ UNCHANGED vars
    PROVE  ReminderInv'
  <1>1. /\ edits \in Nat /\ MaxEdits \in Nat /\ edits \in 0 .. MaxEdits
        /\ status \in [Occurrences -> {"pending", "settled", "gone"}]
    BY ReminderAssumption DEF ReminderInv, TypeOK
  <1>2. Edit => edits' \in 0 .. MaxEdits
    BY <1>1 DEF Edit
  <1>3. ASSUME NEW o \in Occurrences, Settle(o) \/ Reopen(o)
        PROVE  ReminderInv'
    <2>1. PICK from, to \in {"pending", "settled"} : SetStatus(o, from, to)
      BY <1>3 DEF Settle, Reopen
    <2>2. status' \in [Occurrences -> {"pending", "settled", "gone"}]
      BY <1>1, <2>1 DEF SetStatus
    <2>3. TypeOK'
      BY <1>2, <2>1, <2>2 DEF SetStatus, ReminderInv, TypeOK, history
    <2>4. QED
      BY <2>1, <2>3, QuietStep DEF SetStatus
  <1>4. ASSUME NEW o \in Occurrences, Reschedule(o)
        PROVE  ReminderInv'
    BY <1>1, <1>2, <1>4, NewRowStep DEF Reschedule
  <1>5. ASSUME NEW o \in Occurrences, Erase(o)
        PROVE  ReminderInv'
    <2>1. status' \in [Occurrences -> {"pending", "settled", "gone"}]
      BY <1>1, <1>5 DEF Erase
    <2>2. QED
      BY <1>2, <1>5, <2>1, NewRowStep DEF Erase
  <1>6. ASSUME NEW a \in Accounts, Switch(a)
        PROVE  ReminderInv'
    <2>1. TypeOK'
      BY <1>2, <1>6 DEF Switch, ReminderInv, TypeOK, history
    <2>2. QED
      BY <1>6, <2>1, QuietStep DEF Switch
  <1>7. CASE Midnight
    <2>1. day' \in 0 .. LastDay
      BY <1>7, ReminderAssumption DEF Midnight, ReminderInv, TypeOK
    <2>2. TypeOK'
      BY <1>7, <2>1 DEF Midnight, tables, ReminderInv, TypeOK, history
    <2>3. QED
      BY <1>7, <2>2, QuietStep DEF Midnight, tables
  <1>8. CASE UNCHANGED vars
    <2>1. TypeOK'
      BY <1>8 DEF vars, tables, ReminderInv, TypeOK, history
    <2>2. QED
      BY <1>8, <2>1, QuietStep DEF vars, tables
  <1>9. QED
    BY <1>3, <1>4, <1>5, <1>6, <1>7, <1>8, MoveDeadlineStep DEF Owners

LEMMA ReminderStep == ReminderInv /\ [Next]_vars => ReminderInv'
  <1> SUFFICES ASSUME ReminderInv, [Next]_vars PROVE ReminderInv'
    OBVIOUS
  <1>1. ASSUME NEW w \in Workers, Work(w)
        PROVE  ReminderInv'
    BY <1>1, PrepareSound, LoadSound, StampStep, EndsSound, EndRoundSound, FinishSound,
       LeaveAsideSound, DeliverStep, FailHalfwayStep DEF Work
  <1>2. QED
    BY <1>1, StartSound, EndsSound, OwnersAndDaysSound DEF Next

\* Nothing was sent at first.
LEMMA ReminderInit == Init => ReminderInv
  <1> SUFFICES ASSUME Init PROVE ReminderInv
    OBVIOUS
  <1>1. TypeOK
    <2>1. /\ 0 \in 0 .. LastDay /\ 0 \in 0 .. MaxFailures /\ 0 \in 0 .. MaxCrashes
          /\ 0 \in 0 .. MaxEdits
      BY ReminderAssumption
    <2>2. QED
      BY <2>1, IdleType DEF Init, TypeOK, Job
  <1>2. OneJob /\ HandsAreInOrder /\ HandsAreUnstamped
    BY IdleType, ReminderAssumption DEF Init, OneJob, HandsAreInOrder, HandsAreUnstamped
  <1>3. FlightsHaveLeft /\ MessagesAreAccountedFor /\ CrossedHaveATrace /\ StampMeansSent
    BY IdleType DEF Init, FlightsHaveLeft, MessagesAreAccountedFor, CrossedHaveATrace,
                    StampMeansSent, InFlight
  <1>4. QED
    BY <1>1, <1>2, <1>3 DEF ReminderInv

LEMMA RemindersSound == Spec => []ReminderInv
  BY ReminderInit, ReminderStep, PTL DEF Spec

-----------------------------------------------------------------------------
(* What holds of every behaviour.                                          *)

\* Tables, lock and jobs keep their types (jobs/daily.py, reminder_service.py).
THEOREM RemindersTyped == Spec => []TypeOK
  <1>1. ReminderInv => TypeOK
    BY DEF ReminderInv
  <1>2. QED
    BY <1>1, RemindersSound, PTL

\* Whoever launches the job and however it ends, it runs once at a time and the
\* lock is held exactly as long (jobs/daily.py, main).
THEOREM OneJobTheorem == Spec => []OneJob
  <1>1. ReminderInv => OneJob
    BY DEF ReminderInv
  <1>2. QED
    BY <1>1, RemindersSound, PTL

\* A family writes about a row once on a channel, but for messages whose stamp
\* was lost with its transaction or withdrawn with its deadline and for pushes
\* that failed halfway through the devices, and none is excused twice
\* (reminder_service._dispatch and _deliver_push, mark_reminders_sent).
THEOREM OnceTheorem == Spec => []AtMostOnce
  <1>1. ReminderInv => AtMostOnce
    <2> SUFFICES ASSUME ReminderInv, NEW o \in Occurrences, NEW key \in Keys
                 PROVE  /\ delivered[o][key] <= 1 + excused[o][key]
                        /\ excused[o][key] <= delivered[o][key]
      BY DEF AtMostOnce
    <2>1. delivered[o][key] \in Nat /\ excused[o][key] \in Nat
      BY JobType
    <2>2. QED
      BY <2>1 DEF ReminderInv, MessagesAreAccountedFor
  <1>2. QED
    BY <1>1, RemindersSound, PTL

\* No stamp is there for nothing: the message it stands for has left and still
\* counts, or a warning of the trial stands for it, or it was under way when its
\* deadline was moved (mark_reminders_sent, clear_reminders).
THEOREM StampTheorem == Spec => []StampMeansSent
  <1>1. ReminderInv => StampMeansSent
    BY DEF ReminderInv
  <1>2. QED
    BY <1>1, RemindersSound, PTL

\* A row that gains a message has just had one delivered, to all the devices or to
\* some of them.
LEMMA DeliveredByDeliver ==
    ASSUME ReminderInv, [Next]_vars, NEW o \in Occurrences, NEW key \in log[o],
           delivered'[o][key] > delivered[o][key]
    PROVE  \E w \in Workers, a \in Accounts : Deliver(w, a) \/ FailHalfway(w, a)
  <1>1. delivered' # delivered /\ key \in Keys /\ delivered[o][key] \in Nat
    BY JobType
  <1>2. ASSUME NEW p \in Occurrences, NewRow(p)
        PROVE  FALSE
    <2>1. delivered'[o] = delivered[o] \/ delivered'[o] = [k \in Keys |-> 0]
      BY <1>2, JobType DEF NewRow
    <2>2. QED
      BY <1>1, <2>1
  <1>3. ASSUME NEW p \in Occurrences,
               \/ Settle(p) \/ Reopen(p) \/ Reschedule(p) \/ Erase(p) \/ MoveDeadline(p)
        PROVE  FALSE
    BY <1>1, <1>2, <1>3
    DEF Settle, Reopen, SetStatus, Reschedule, Erase, MoveDeadline, history
  <1>4. ASSUME NEW a \in Accounts, Switch(a)
        PROVE  FALSE
    BY <1>1, <1>4 DEF Switch, history
  <1>5. ASSUME NEW w \in Workers,
               \/ Start(w) \/ Crash(w) \/ Prepare(w) \/ Load(w) \/ Stamp(w)
               \/ StampRefused(w) \/ EndRound(w) \/ Finish(w)
               \/ \E a \in Accounts : Skip(w, a) \/ Fail(w, a)
        PROVE  FALSE
    BY <1>1, <1>5 DEF Start, Crash, Prepare, Load, Stamp, StampRefused, EndRound, Finish,
                      Skip, Fail, history
  <1>6. ~Midnight /\ ~UNCHANGED vars
    BY <1>1 DEF Midnight, vars, history
  <1>7. QED
    BY <1>3, <1>4, <1>5, <1>6 DEF Next, Work, Owners

\* It is not one whose stamp is in the log, whatever happened since the job read
\* it.
LEMMA DeliverSpares ==
    ASSUME ReminderInv, NEW w \in Workers, NEW a \in Accounts,
           Deliver(w, a) \/ FailHalfway(w, a), NEW o \in Occurrences, NEW key \in log[o]
    PROVE  delivered'[o][key] <= delivered[o][key]
  <1> DEFINE current == RoundKey(job[w].round)
             mine == Entries(w, a)
  <1>1. /\ delivered[o] \in [Keys -> Nat] /\ key \in Keys
    BY JobType
  <1>2. delivered'[o] = IF <<o, row[o]>> \in mine
                        THEN [delivered[o] EXCEPT ![current] = @ + 1] ELSE delivered[o]
    BY DEF Deliver, FailHalfway
  <1>3. <<o, row[o]>> \in mine => key # current
    BY DEF Entries, ReminderInv, HandsAreUnstamped
  <1> HIDE DEF mine, current
  <1>4. delivered'[o][key] = delivered[o][key]
    BY <1>1, <1>2, <1>3
  <1>5. QED
    BY <1>1, <1>4

\* What the log says was written about is not written about again, even by a job
\* that read its rows before they changed (commitment_repository._unreminded).
THEOREM NeverAgainTheorem == Spec => NeverAgainOnceStamped
  <1>1. ReminderInv /\ [Next]_vars =>
          [\A o \in Occurrences : \A key \in log[o] :
              delivered'[o][key] <= delivered[o][key]]_vars
    <2> SUFFICES ASSUME ReminderInv, ReminderInv', [Next]_vars,
                        NEW o \in Occurrences, NEW key \in log[o],
                        ~(delivered'[o][key] <= delivered[o][key])
                 PROVE  FALSE
      BY ReminderStep
    <2>1. key \in Keys /\ delivered[o][key] \in Nat
      BY JobType
    <2>2. delivered'[o][key] \in Nat
      BY <2>1 DEF ReminderInv, TypeOK
    <2>3. QED
      BY <2>1, <2>2, DeliveredByDeliver, DeliverSpares
  <1>2. QED
    BY <1>1, RemindersSound, PTL DEF Spec, NeverAgainOnceStamped

-----------------------------------------------------------------------------
(* Where a row is written about twice.                                     *)

\* No process is killed, no batch is refused because a row it writes about went
\* away, no push fails when it has reached a device, and no deadline is edited.
Undisturbed ==
    [][/\ \A w \in Workers : ~Crash(w) /\ ~StampRefused(w)
       /\ \A w \in Workers, a \in Accounts : ~FailHalfway(w, a)
       /\ \A o \in Occurrences : ~MoveDeadline(o)]_vars

NothingIsExcused ==
    \A o \in Occurrences, key \in Keys : excused[o][key] = 0

LEMMA NothingIsExcusedStep ==
    ASSUME ReminderInv, NothingIsExcused, [Next]_vars,
           [/\ \A w \in Workers : ~Crash(w) /\ ~StampRefused(w)
            /\ \A w \in Workers, a \in Accounts : ~FailHalfway(w, a)
            /\ \A o \in Occurrences : ~MoveDeadline(o)]_vars
    PROVE  NothingIsExcused'
  <1>1. CASE UNCHANGED vars
    BY <1>1 DEF vars, history, NothingIsExcused
  <1>2. ASSUME NEW p \in Occurrences, Reschedule(p) \/ Erase(p)
        PROVE  NothingIsExcused'
    <2>1. excused' = [excused EXCEPT ![p] = [key \in Keys |-> 0]]
      BY <1>2 DEF Reschedule, Erase, NewRow
    <2>2. QED
      BY <2>1, JobType DEF NothingIsExcused
  <1>3. ASSUME NEW w \in Workers,
               \/ Start(w) \/ Prepare(w) \/ Load(w) \/ Stamp(w) \/ EndRound(w) \/ Finish(w)
               \/ \E a \in Accounts : Skip(w, a) \/ Deliver(w, a) \/ Fail(w, a)
        PROVE  NothingIsExcused'
    <2>1. excused' = excused
      BY <1>3 DEF Start, Prepare, Load, Stamp, EndRound, Finish, Skip, Deliver, Fail, history
    <2>2. QED
      BY <2>1 DEF NothingIsExcused
  <1>4. ASSUME \/ \E p \in Occurrences : Settle(p) \/ Reopen(p)
               \/ \E a \in Accounts : Switch(a)
               \/ Midnight
        PROVE  NothingIsExcused'
    <2>1. excused' = excused
      BY <1>4 DEF Settle, Reopen, SetStatus, Switch, Midnight, history
    <2>2. QED
      BY <2>1 DEF NothingIsExcused
  <1>5. QED
    BY <1>1, <1>2, <1>3, <1>4 DEF Next, Work, Owners

\* "A mid-run failure does not resend to those already reached" (README, Daily
\* job) fails for four reasons only: a process killed between a message and its
\* stamp, a row deleted there, an edited deadline, and a push that fails at one
\* device when another has it.  Other sends that fail, for accounts that can be
\* reached or not, are no such reason, nor are the requests that settle rows or
\* switch the reminders off.
THEOREM ReachedOnceTheorem == Spec /\ Undisturbed => []ReachedOnce
  <1>1. Init => NothingIsExcused
    BY DEF Init, NothingIsExcused
  <1>2. /\ ReminderInv /\ NothingIsExcused /\ [Next]_vars
        /\ [/\ \A w \in Workers : ~Crash(w) /\ ~StampRefused(w)
            /\ \A w \in Workers, a \in Accounts : ~FailHalfway(w, a)
            /\ \A o \in Occurrences : ~MoveDeadline(o)]_vars
        => NothingIsExcused'
    BY NothingIsExcusedStep
  <1>3. ReminderInv /\ NothingIsExcused => ReachedOnce
    <2> SUFFICES ASSUME ReminderInv, NothingIsExcused, NEW o \in Occurrences, NEW key \in Keys
                 PROVE  delivered[o][key] <= 1
      BY DEF ReachedOnce
    <2>1. delivered[o][key] \in Nat /\ excused[o][key] = 0
      BY JobType DEF NothingIsExcused
    <2>2. QED
      BY <2>1 DEF ReminderInv, MessagesAreAccountedFor
  <1>4. QED
    BY <1>1, <1>2, <1>3, RemindersSound, PTL DEF Spec, Undisturbed

-----------------------------------------------------------------------------
(* Why a job ends.                                                         *)

\* A job has at most one entry for each occurrence.
EntriesAreFew ==
    \A w \in Workers :
        /\ IsFiniteSet(job[w].entries)
        /\ Cardinality(job[w].entries) <= Cardinality(Occurrences)

LEMMA OccurrencesAreFinite == IsFiniteSet(Occurrences) /\ Cardinality(Occurrences) \in Nat
  BY ReminderAssumption, FS_CardinalityType

\* Rows found in the tables, with their identities, are as few.
LEMMA FoundAreFew ==
    ASSUME NEW S \in SUBSET Occurrences, NEW f
    PROVE  LET found == {<<o, f[o]>> : o \in S}
           IN  /\ IsFiniteSet(found)
               /\ Cardinality(found) <= Cardinality(Occurrences)
  <1> DEFINE found == {<<o, f[o]>> : o \in S}
             tag == [o \in S |-> <<o, f[o]>>]
  <1>1. /\ IsFiniteSet(S) /\ Cardinality(S) \in Nat
        /\ Cardinality(S) <= Cardinality(Occurrences) /\ Cardinality(Occurrences) \in Nat
    BY OccurrencesAreFinite, FS_Subset, FS_CardinalityType
  <1>2. tag \in Surjection(S, found)
    BY DEF Surjection
  <1> HIDE DEF tag, found
  <1>3. IsFiniteSet(found) /\ Cardinality(found) <= Cardinality(S)
    BY <1>1, <1>2, FS_Surjection
  <1>4. Cardinality(found) \in Nat
    BY <1>3, FS_CardinalityType
  <1>5. QED
    BY <1>1, <1>3, <1>4 DEF found

\* What a step does to one worker.
LEMMA WorkerStep ==
    ASSUME ReminderInv, [Next]_vars, NEW w \in Workers
    PROVE  Start(w) \/ Work(w) \/ Crash(w) \/ job'[w] = job[w]
  <1>1. ASSUME NEW v \in Workers \ {w}, Start(v) \/ Work(v) \/ Crash(v)
        PROVE  job'[w] = job[w]
    BY <1>1, JobType DEF Start, Work, Crash, Prepare, Load, Stamp, StampRefused, EndRound,
                         Finish, Skip, Deliver, Fail, FailHalfway
  <1>2. ASSUME Owners \/ Midnight \/ UNCHANGED vars
        PROVE  job' = job
    BY <1>2 DEF Owners, Settle, Reopen, SetStatus, Reschedule, Erase, MoveDeadline, Switch,
                Midnight, vars
  <1>3. QED
    BY <1>1, <1>2 DEF Next

\* What its own steps leave it with.
LEMMA StartLeaves ==
    ASSUME ReminderInv, NEW w \in Workers, Start(w)
    PROVE  job'[w].entries = {}
  <1>1. job'[w] = [Idle EXCEPT !.phase = "prepare", !.on = day]
    BY JobType DEF Start
  <1>2. QED
    BY <1>1 DEF Idle

LEMMA EndLeaves ==
    ASSUME ReminderInv, NEW w \in Workers, Crash(w) \/ StampRefused(w) \/ Finish(w)
    PROVE  job[w].phase # "idle" /\ job'[w].phase = "idle" /\ job'[w].entries = {}
  <1>1. job'[w] = Idle /\ job[w].phase # "idle"
    BY JobType DEF Crash, StampRefused, Finish
  <1>2. QED
    BY <1>1 DEF Idle

LEMMA PrepareLeaves ==
    ASSUME ReminderInv, NEW w \in Workers, Prepare(w)
    PROVE  /\ job[w].phase = "prepare" /\ job'[w].phase = "load"
           /\ job'[w].round = 1 /\ job'[w].entries = job[w].entries
  <1>1. job[w] \in Job /\ job[w].phase = "prepare"
        /\ job'[w] = [job[w] EXCEPT !.phase = "load", !.round = 1]
    BY JobType DEF Prepare
  <1>2. QED
    BY <1>1 DEF Job

LEMMA LoadLeaves ==
    ASSUME ReminderInv, NEW w \in Workers, Load(w)
    PROVE  /\ job[w].phase = "load" /\ job'[w].phase = "send"
           /\ job'[w].round = job[w].round
           /\ IsFiniteSet(job'[w].entries)
           /\ Cardinality(job'[w].entries) <= Cardinality(Occurrences)
  <1> DEFINE chosen == Unreminded(RoundKey(job[w].round), job[w].on)
             found == {<<o, row[o]>> : o \in chosen}
  <1>1. /\ job[w] \in Job /\ job[w].phase = "load"
        /\ job'[w] = [job[w] EXCEPT !.phase = "send", !.entries = found]
    BY JobType DEF Load
  <1>2. chosen \in SUBSET Occurrences
    BY DEF Unreminded
  <1> HIDE DEF chosen
  <1>3. IsFiniteSet(found) /\ Cardinality(found) <= Cardinality(Occurrences)
    BY <1>2, FoundAreFew
  <1> HIDE DEF found
  <1>4. QED
    BY <1>1, <1>3 DEF Job

LEMMA StampLeaves ==
    ASSUME ReminderInv, NEW w \in Workers, Stamp(w)
    PROVE  /\ job[w].phase = "stamp" /\ job'[w].phase = "send"
           /\ job'[w].round = job[w].round /\ job'[w].entries = job[w].entries
  <1>1. job[w] \in Job /\ job[w].phase = "stamp"
        /\ job'[w] = [job[w] EXCEPT !.phase = "send", !.batch = {}]
    BY JobType DEF Stamp
  <1>2. QED
    BY <1>1 DEF Job

LEMMA EndRoundLeaves ==
    ASSUME ReminderInv, NEW w \in Workers, EndRound(w)
    PROVE  /\ job[w].phase = "send" /\ job'[w].phase = "load"
           /\ job[w].round < Rounds /\ job'[w].round = job[w].round + 1
           /\ job[w].entries = {} /\ job'[w].entries = {}
  <1>1. /\ job[w] \in Job /\ job[w].phase = "send" /\ job[w].entries = {}
        /\ job[w].round < Rounds
        /\ job'[w] = [job[w] EXCEPT !.phase = "load", !.round = @ + 1]
    BY JobType DEF EndRound
  <1>2. QED
    BY <1>1 DEF Job

LEMMA AccountLeaves ==
    ASSUME ReminderInv, NEW w \in Workers, NEW a \in Accounts,
           Skip(w, a) \/ Deliver(w, a) \/ Fail(w, a) \/ FailHalfway(w, a)
    PROVE  /\ job[w].phase = "send" /\ job'[w].phase \in {"send", "stamp"}
           /\ job'[w].round = job[w].round
           /\ job'[w].entries \subseteq job[w].entries
           /\ job'[w].entries # job[w].entries
  <1> DEFINE mine == Entries(w, a)
  <1>1. /\ job[w] \in Job /\ job[w].phase = "send"
        /\ mine \subseteq job[w].entries /\ mine # {}
        /\ \/ job'[w] = [job[w] EXCEPT !.entries = @ \ mine]
           \/ job'[w] = [job[w] EXCEPT !.phase = "stamp", !.batch = mine,
                                       !.entries = @ \ mine]
    BY JobType DEF Skip, Deliver, Fail, FailHalfway, Sending, Entries
  <1> HIDE DEF mine
  <1>2. /\ job'[w].phase \in {"send", "stamp"} /\ job'[w].round = job[w].round
        /\ job'[w].entries = job[w].entries \ mine
    BY <1>1 DEF Job
  <1>3. QED
    BY <1>1, <1>2

LEMMA EntriesAreFewStep ==
    ASSUME ReminderInv, EntriesAreFew, [Next]_vars
    PROVE  EntriesAreFew'
  <1> SUFFICES ASSUME NEW w \in Workers
               PROVE  /\ IsFiniteSet(job'[w].entries)
                      /\ Cardinality(job'[w].entries) <= Cardinality(Occurrences)
    BY DEF EntriesAreFew
  <1>1. /\ IsFiniteSet(job[w].entries) /\ Cardinality(job[w].entries) \in Nat
        /\ Cardinality(job[w].entries) <= Cardinality(Occurrences)
        /\ Cardinality(Occurrences) \in Nat
    BY OccurrencesAreFinite, FS_CardinalityType DEF EntriesAreFew
  <1>2. Load(w) \/ job'[w].entries \subseteq job[w].entries
    <2>1. CASE Work(w)
      <3>1. ASSUME NEW a \in Accounts,
                   Skip(w, a) \/ Deliver(w, a) \/ Fail(w, a) \/ FailHalfway(w, a)
            PROVE  job'[w].entries \subseteq job[w].entries
        BY <3>1, AccountLeaves
      <3>2. Prepare(w) \/ Stamp(w) => job'[w].entries = job[w].entries
        BY PrepareLeaves, StampLeaves
      <3>3. StampRefused(w) \/ EndRound(w) \/ Finish(w) => job'[w].entries = {}
        BY EndLeaves, EndRoundLeaves
      <3>4. QED
        BY <2>1, <3>1, <3>2, <3>3 DEF Work
    <2>2. Start(w) \/ Crash(w) => job'[w].entries = {}
      BY StartLeaves, EndLeaves
    <2>3. QED
      BY <2>1, <2>2, WorkerStep
  <1>3. ASSUME job'[w].entries \subseteq job[w].entries
        PROVE  /\ IsFiniteSet(job'[w].entries)
               /\ Cardinality(job'[w].entries) <= Cardinality(job[w].entries)
               /\ Cardinality(job'[w].entries) \in Nat
    BY <1>1, <1>3, FS_Subset, FS_CardinalityType
  <1>4. QED
    BY <1>1, <1>2, <1>3, LoadLeaves

LEMMA EntriesAreFewAlways == Spec => []EntriesAreFew
  <1>1. Init => EntriesAreFew
    <2>1. Init => \A w \in Workers : job[w].entries = {}
      BY IdleType DEF Init
    <2>2. IsFiniteSet({}) /\ Cardinality({}) = 0
      BY FS_EmptySet
    <2>3. QED
      BY <2>1, <2>2, OccurrencesAreFinite DEF EntriesAreFew
  <1>2. ReminderInv /\ EntriesAreFew /\ [Next]_vars => EntriesAreFew'
    BY EntriesAreFewStep
  <1>3. QED
    BY <1>1, <1>2, RemindersSound, PTL DEF Spec

\* The measure of a job, in parts.
Span == 2 * Cardinality(Occurrences) + 3
Later(j) == (Rounds - j.round) * Span
Few(j) ==
    IsFiniteSet(j.entries) /\ Cardinality(j.entries) <= Cardinality(Occurrences)

\* Rounds to come are counted by a natural number.
LEMMA LaterIsNat ==
    ASSUME NEW rounds \in Nat, NEW n \in 0 .. rounds, NEW span \in Nat
    PROVE  (rounds - n) * span \in Nat
  <1>1. rounds - n \in Nat
    OBVIOUS
  <1>2. \A m \in Nat : m * span \in Nat
    OBVIOUS
  <1>3. QED
    BY <1>1, <1>2

\* A product of positive numbers is one.
LEMMA AtLeastOneEach ==
    ASSUME NEW m \in Nat \ {0}, NEW n \in Nat \ {0}
    PROVE  m * n \in Nat /\ m * n > 0
  OBVIOUS

\* What is left to a job, by what it is doing.
LEMMA LeftByPhase ==
    ASSUME NEW j \in Job, Few(j)
    PROVE  /\ Span \in Nat /\ Later(j) \in Nat /\ Cardinality(j.entries) \in Nat
           /\ 2 * Cardinality(j.entries) + 3 <= Span
           /\ j.phase \in Phases
           /\ j.phase = "idle" => Left(j) = 0
           /\ j.phase = "prepare" => Left(j) = Rounds * Span
           /\ j.phase = "load" => Left(j) = Later(j) + Span - 1
           /\ j.phase = "send" => Left(j) = Later(j) + 2 * Cardinality(j.entries) + 1
           /\ j.phase = "stamp" => Left(j) = Later(j) + 2 * Cardinality(j.entries) + 2
  <1>1. /\ Cardinality(Occurrences) \in Nat /\ Cardinality(j.entries) \in Nat
        /\ Cardinality(j.entries) <= Cardinality(Occurrences)
    BY OccurrencesAreFinite, FS_CardinalityType DEF Few
  <1>2. Span \in Nat /\ 2 * Cardinality(j.entries) + 3 <= Span
    BY <1>1 DEF Span
  <1>3. Later(j) \in Nat
    BY <1>2, LaterIsNat, ReminderAssumption DEF Later, Job
  <1>4. j.phase \in Phases
    BY DEF Job
  <1>5. Left(j) = CASE j.phase = "idle"    -> 0
                    [] j.phase = "prepare" -> Rounds * Span
                    [] j.phase = "load"    -> Later(j) + Span - 1
                    [] j.phase = "send"    -> Later(j) + 2 * Cardinality(j.entries) + 1
                    [] j.phase = "stamp"   -> Later(j) + 2 * Cardinality(j.entries) + 2
    BY DEF Left, Later, Span
  <1> HIDE DEF Left, Later, Span
  <1>6. QED
    BY <1>1, <1>2, <1>3, <1>4, <1>5 DEF Phases

\* Work is left to whoever has the lock, and to nobody else.
LEMMA LeftWithTheLock ==
    ASSUME ReminderInv, EntriesAreFew, NEW w \in Workers
    PROVE  WorkLeft(w) \in Nat /\ (WorkLeft(w) > 0 <=> lock = w)
  <1> DEFINE j == job[w]
  <1>1. j \in Job /\ Few(j)
    BY JobType DEF EntriesAreFew, Few
  <1>2. j.phase # "idle" <=> lock = w
    BY DEF ReminderInv, OneJob
  <1> HIDE DEF j
  <1>3. WorkLeft(w) = Left(j)
    BY DEF WorkLeft, j
  <1>4. Rounds * Span \in Nat /\ Rounds * Span > 0
    <2>1. Rounds \in Nat \ {0} /\ Span \in Nat \ {0}
      BY <1>1, LeftByPhase, ReminderAssumption DEF Few
    <2>2. QED
      BY <2>1, AtLeastOneEach
  <1>5. QED
    BY <1>1, <1>2, <1>3, <1>4, LeftByPhase DEF Phases

\* Each step of the job leaves it less.
LEMMA LessIsLeft ==
    ASSUME ReminderInv, ReminderInv', EntriesAreFew, EntriesAreFew', NEW w \in Workers, Work(w)
    PROVE  WorkLeft(w)' < WorkLeft(w)
  <1> DEFINE j == job[w]
             k == job'[w]
  <1>1. /\ j \in Job /\ k \in Job /\ Few(j) /\ Few(k)
    BY JobType DEF ReminderInv, TypeOK, Job, EntriesAreFew, Few
  <1>2. WorkLeft(w) = Left(j) /\ WorkLeft(w)' = Left(k)
    BY DEF WorkLeft
  <1>3. ASSUME NEW a \in Accounts,
               Skip(w, a) \/ Deliver(w, a) \/ Fail(w, a) \/ FailHalfway(w, a)
        PROVE  Left(k) < Left(j)
    <2>1. /\ j.phase = "send" /\ k.phase \in {"send", "stamp"} /\ k.round = j.round
          /\ k.entries \subseteq j.entries /\ k.entries # j.entries
      BY <1>3, AccountLeaves
    <2> HIDE DEF j, k
    <2>2. Cardinality(k.entries) < Cardinality(j.entries)
      BY <1>1, <2>1, FS_Subset, FS_CardinalityType DEF Few
    <2>3. Later(k) = Later(j)
      BY <2>1 DEF Later
    <2>4. QED
      BY <1>1, <2>1, <2>2, <2>3, LeftByPhase
  <1>4. ASSUME Prepare(w)
        PROVE  Left(k) < Left(j)
    <2>1. j.phase = "prepare" /\ k.phase = "load" /\ k.round = 1
      BY <1>4, PrepareLeaves
    <2> HIDE DEF j, k
    <2>2. Rounds * Span = Later(k) + Span
      <3>1. Span \in Int /\ Rounds \in Int
        BY <1>1, LeftByPhase, ReminderAssumption
      <3>2. QED
        BY <2>1, <3>1 DEF Later
    <2>3. QED
      BY <1>1, <2>1, <2>2, LeftByPhase
  <1>5. ASSUME Load(w)
        PROVE  Left(k) < Left(j)
    <2>1. j.phase = "load" /\ k.phase = "send" /\ k.round = j.round
      BY <1>5, LoadLeaves
    <2> HIDE DEF j, k
    <2>2. Later(k) = Later(j)
      BY <2>1 DEF Later
    <2>3. QED
      BY <1>1, <2>1, <2>2, LeftByPhase
  <1>6. ASSUME Stamp(w)
        PROVE  Left(k) < Left(j)
    <2>1. j.phase = "stamp" /\ k.phase = "send" /\ k.round = j.round /\ k.entries = j.entries
      BY <1>6, StampLeaves
    <2> HIDE DEF j, k
    <2>2. Later(k) = Later(j)
      BY <2>1 DEF Later
    <2>3. QED
      BY <1>1, <2>1, <2>2, LeftByPhase
  <1>7. ASSUME EndRound(w)
        PROVE  Left(k) < Left(j)
    <2>1. /\ j.phase = "send" /\ k.phase = "load" /\ k.round = j.round + 1
          /\ j.entries = {} /\ j.round \in Int
      BY <1>1, <1>7, EndRoundLeaves DEF Job
    <2> HIDE DEF j, k
    <2>2. Later(j) = Later(k) + Span
      <3>1. Span \in Int /\ Rounds \in Int
        BY <1>1, LeftByPhase, ReminderAssumption
      <3>2. QED
        BY <2>1, <3>1 DEF Later
    <2>3. QED
      BY <1>1, <2>1, <2>2, LeftByPhase
  <1>8. ASSUME StampRefused(w) \/ Finish(w)
        PROVE  Left(k) < Left(j)
    <2>1. Left(j) > 0
      BY <1>2, <1>8, EndLeaves, LeftWithTheLock DEF ReminderInv, OneJob
    <2>2. k.phase = "idle"
      BY <1>8, EndLeaves
    <2> HIDE DEF j, k
    <2>3. QED
      BY <1>1, <2>1, <2>2, LeftByPhase
  <1>9. QED
    BY <1>2, <1>3, <1>4, <1>5, <1>6, <1>7, <1>8 DEF Work

\* A job ends because each of its steps leaves it less to do, and nothing gives it
\* more, whatever fails and whatever the owners do meanwhile; when nothing is left
\* the lock is free again (jobs/daily.py, main; ReminderService._dispatch).
THEOREM JobAdvancesTheorem ==
    Spec => /\ [](\A w \in Workers : WorkLeft(w) \in Nat /\ (WorkLeft(w) > 0 <=> lock = w))
            /\ JobAdvances
  <1>1. ReminderInv /\ EntriesAreFew =>
           \A w \in Workers : WorkLeft(w) \in Nat /\ (WorkLeft(w) > 0 <=> lock = w)
    BY LeftWithTheLock
  <1>2. /\ ReminderInv /\ ReminderInv' /\ EntriesAreFew /\ EntriesAreFew' /\ [Next]_vars
        => [\A w \in Workers :
              /\ Work(w) => WorkLeft(w)' < WorkLeft(w)
              /\ ~Start(w) => WorkLeft(w)' <= WorkLeft(w)]_vars
    <2> SUFFICES ASSUME ReminderInv, ReminderInv', EntriesAreFew, EntriesAreFew', [Next]_vars,
                        NEW w \in Workers
                 PROVE  /\ Work(w) => WorkLeft(w)' < WorkLeft(w)
                        /\ ~Start(w) => WorkLeft(w)' <= WorkLeft(w)
      OBVIOUS
    <2>1. WorkLeft(w) \in Nat
      BY LeftWithTheLock
    <2>2. job'[w] \in Job /\ Few(job'[w])
      BY DEF ReminderInv, TypeOK, Job, EntriesAreFew, Few
    <2>3. Work(w) => WorkLeft(w)' < WorkLeft(w)
      BY LessIsLeft
    <2>4. Crash(w) => WorkLeft(w)' <= WorkLeft(w)
      <3>1. Crash(w) => job'[w].phase = "idle"
        BY EndLeaves
      <3>2. job'[w].phase = "idle" => Left(job'[w]) = 0
        BY <2>2, LeftByPhase
      <3>3. QED
        BY <2>1, <3>1, <3>2 DEF WorkLeft
    <2>5. job'[w] = job[w] => WorkLeft(w)' <= WorkLeft(w)
      <3>1. job'[w] = job[w] => WorkLeft(w)' = WorkLeft(w)
        BY DEF WorkLeft
      <3>2. QED
        BY <2>1, <3>1
    <2>6. WorkLeft(w)' \in Nat
      <3>1. \A k : k \in Job /\ Few(k) => Left(k) \in Nat
        <4> SUFFICES ASSUME NEW k, k \in Job, Few(k) PROVE Left(k) \in Nat
          OBVIOUS
        <4>1. k.phase \in {"idle", "prepare", "load", "send", "stamp"} /\ Rounds * Span \in Nat
          BY LeftByPhase, AtLeastOneEach, ReminderAssumption DEF Phases, Span
        <4>2. QED
          BY <4>1, LeftByPhase
      <3>2. QED
        BY <2>2, <3>1 DEF WorkLeft
    <2>7. QED
      BY <2>1, <2>3, <2>4, <2>5, <2>6, WorkerStep
  <1>3. QED
    BY <1>1, <1>2, RemindersSound, EntriesAreFewAlways, PTL DEF Spec, JobAdvances
=============================================================================
