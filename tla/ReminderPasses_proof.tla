------------------------ MODULE ReminderPasses_proof ------------------------
(***************************************************************************)
(* For windows, purge bounds and terms of any size: the query of a family  *)
(* misses nothing that its predicate wants, and no family writes twice     *)
(* about an occurrence, purged log or not.                                 *)
(***************************************************************************)
EXTENDS ReminderPasses, TLAPS

\* "The SQL casts wide, the predicate decides": a due date that is_due wants on
\* a person's day is brought back by the query of the server's day, for every
\* family, as long as the two days are within TIMEZONE_SPREAD_DAYS.
THEOREM QueryCastsWide ==
    ASSUME NEW kind \in Kinds, NEW due_date \in Int, NEW lead \in Nat,
           NEW on_date \in Int, NEW day \in Int,
           on_date - TimezoneSpreadDays <= day,
           day <= on_date + TimezoneSpreadDays,
           IsDue(kind, due_date, lead, day)
    PROVE  InQuery(kind, due_date, lead, on_date)
  <1>1. CASE kind = "notice"
    BY <1>1, WindowAssumption DEF IsDue, InQuery, QueryBounds, Bounds
  <1>2. CASE kind = "overdue"
    BY <1>2, WindowAssumption DEF IsDue, InQuery, QueryBounds, Bounds
  <1>3. CASE kind = "action_required"
    BY <1>3, WindowAssumption DEF IsDue, InQuery, QueryBounds, Bounds
  <1>4. QED
    BY <1>1, <1>2, <1>3 DEF Kinds

\* action_window keeps one window at most.
LEMMA OneWindowKept ==
    ASSUME NEW c \in Terms, NEW due_date \in Int, NEW ref \in Int,
           NEW v \in KeptWindows(c, due_date, ref), NEW w \in KeptWindows(c, due_date, ref)
    PROVE  v.reason = w.reason /\ v.reason \in {"trial", "cancellation"}
  <1>1. \A x \in LiveWindows(c, due_date, ref) :
           x.reason \in {"trial", "cancellation"} /\ x.deadline \in Int
    <2>1. \A x \in TrialWindow(c, due_date) : x.reason = "trial" /\ x.deadline \in Int
      BY PassAssumption DEF TrialWindow
    <2>2. \A x \in CancellationWindow(c, due_date) :
            x.reason = "cancellation" /\ x.deadline \in Int
      BY PassAssumption DEF CancellationWindow
    <2>3. QED
      BY <2>1, <2>2 DEF LiveWindows
  <1>2. v \in LiveWindows(c, due_date, ref) /\ w \in LiveWindows(c, due_date, ref)
    BY DEF KeptWindows
  <1>3. \A x \in LiveWindows(c, due_date, ref) :
           \/ v.deadline < x.deadline
           \/ v.deadline = x.deadline /\ (v.reason = "cancellation" \/ v = x)
    BY DEF KeptWindows
  <1>4. \A x \in LiveWindows(c, due_date, ref) :
           \/ w.deadline < x.deadline
           \/ w.deadline = x.deadline /\ (w.reason = "cancellation" \/ w = x)
    BY DEF KeptWindows
  <1>5. /\ \/ v.deadline < w.deadline
           \/ v.deadline = w.deadline /\ (v.reason = "cancellation" \/ v = w)
        /\ \/ w.deadline < v.deadline
           \/ w.deadline = v.deadline /\ (w.reason = "cancellation" \/ w = v)
    BY <1>2, <1>3, <1>4
  <1>6. /\ v.reason \in {"trial", "cancellation"} /\ v.deadline \in Int
        /\ w.reason \in {"trial", "cancellation"} /\ w.deadline \in Int
    BY <1>1, <1>2
  <1>7. QED
    BY <1>5, <1>6

\* Past the purge bound, every window is closed for every account.
Forgotten == Due < reference - PurgeRemindersAfterDays

LEMMA ForgottenIsNotDue ==
    ASSUME TypeOK, Forgotten, NEW kind \in Kinds
    PROVE  ~IsDue(kind, Due, terms.reminder_days_before, today)
  <1>1. /\ shift \in Int /\ -TimezoneSpreadDays <= shift
        /\ reference \in Int /\ today = reference + shift
        /\ terms.reminder_days_before \in Nat
    BY PassAssumption, WindowAssumption DEF TypeOK, today
  <1>2. CASE kind = "notice"
    BY <1>1, <1>2, PassAssumption, WindowAssumption DEF Forgotten, IsDue, Bounds
  <1>3. CASE kind = "overdue"
    BY <1>1, <1>3, PassAssumption, WindowAssumption DEF Forgotten, IsDue, Bounds
  <1>4. CASE kind = "action_required"
    BY <1>1, <1>4, PassAssumption, WindowAssumption DEF Forgotten, IsDue, Bounds
  <1>5. QED
    BY <1>2, <1>3, <1>4 DEF Kinds

\* A distance only grows as time goes by.
LEMMA FurtherAway ==
    ASSUME NEW a \in Int, NEW b \in Int, NEW c \in Int, NEW d \in Int,
           a < b - c, b <= d
    PROVE  a < d - c
  OBVIOUS

\* A due date does not come back into the windows.
LEMMA ForgottenStays ==
    ASSUME TypeOK, reference' \in Int, reference <= reference', Forgotten
    PROVE  Forgotten'
  <1>1. reference \in Int /\ Due \in Int /\ PurgeRemindersAfterDays \in Int
    BY PassAssumption DEF TypeOK
  <1>2. Due < reference - PurgeRemindersAfterDays
    BY DEF Forgotten
  <1>3. Due < reference' - PurgeRemindersAfterDays
    BY <1>1, <1>2, FurtherAway
  <1>4. QED
    BY <1>3 DEF Forgotten

\* What was delivered is stamped, or is past the purge bound.
StampedOrForgotten ==
    /\ emails["notice"] >= 1 => "notice" \in log \/ Forgotten
    /\ emails["overdue"] >= 1 => "overdue" \in log \/ Forgotten
    /\ emails["trial"] + emails["cancellation"] >= 1 =>
            "action_required" \in log \/ Forgotten

PassInv == TypeOK /\ OncePerFamily /\ StampedOrForgotten

LEMMA PassInvInit == Init => PassInv
  BY PassAssumption DEF Init, PassInv, TypeOK, OncePerFamily, StampedOrForgotten, Messages

-----------------------------------------------------------------------------
(* A pass, family after family.                                            *)

KeptLog == AfterPurge(log)
Acted   == StampAction(KeptLog)
Noticed == Stamp("notice", Acted)
Said    == {w.reason : w \in ActionsToSend(KeptLog)}
                \cup {k \in {"notice"} : Sends(k, Acted)}
                \cup {k \in {"overdue"} : Sends(k, Noticed)}

\* What is stamped, family by family.
LEMMA PassStamps ==
    ASSUME TypeOK, Pass
    PROVE  /\ KeptLog \subseteq log /\ (KeptLog = log \/ Forgotten)
           /\ "action_required" \in log' <=>
                  "action_required" \in KeptLog \/ ActionsToSend(KeptLog) # {}
           /\ "notice" \in log' <=> "notice" \in Acted \/ Sends("notice", Acted)
           /\ "notice" \in Acted <=>
                  \/ "notice" \in KeptLog
                  \/ \E w \in ActionsToSend(KeptLog) : w.reason = "trial"
           /\ "overdue" \in log' <=> "overdue" \in KeptLog \/ Sends("overdue", Noticed)
           /\ "overdue" \in Noticed <=> "overdue" \in KeptLog
           /\ log' \subseteq Kinds
  <1>1. KeptLog \subseteq log /\ (KeptLog = log \/ Forgotten)
    BY DEF KeptLog, AfterPurge, Forgotten
  <1>2. log' = Stamp("overdue", Noticed)
    BY DEF Pass, KeptLog, Acted, Noticed
  <1>3. /\ "action_required" \in Acted <=>
               "action_required" \in KeptLog \/ ActionsToSend(KeptLog) # {}
        /\ "notice" \in Acted <=>
               \/ "notice" \in KeptLog
               \/ \E w \in ActionsToSend(KeptLog) : w.reason = "trial"
        /\ "overdue" \in KeptLog <=> "overdue" \in Acted
        /\ Acted \subseteq KeptLog \cup Kinds
    BY DEF Acted, StampAction, Kinds
  <1>4. /\ "notice" \in Noticed <=> "notice" \in Acted \/ Sends("notice", Acted)
        /\ "action_required" \in Noticed <=> "action_required" \in Acted
        /\ "overdue" \in Noticed <=> "overdue" \in Acted
        /\ Noticed \subseteq Acted \cup Kinds
    BY DEF Noticed, Stamp, Kinds
  <1>5. /\ "overdue" \in log' <=> "overdue" \in Noticed \/ Sends("overdue", Noticed)
        /\ "action_required" \in log' <=> "action_required" \in Noticed
        /\ "notice" \in log' <=> "notice" \in Noticed
        /\ log' \subseteq Noticed \cup Kinds
    BY <1>2 DEF Stamp, Kinds
  <1>6. log \subseteq Kinds
    BY DEF TypeOK
  <1> HIDE DEF KeptLog, Acted, Noticed
  <1>7. QED
    BY <1>1, <1>3, <1>4, <1>5, <1>6

\* What leaves, family by family, and in which case.
LEMMA PassMessages ==
    ASSUME TypeOK, Pass
    PROVE  /\ "notice" \in Said <=> Sends("notice", Acted)
           /\ "overdue" \in Said <=> Sends("overdue", Noticed)
           /\ "trial" \in Said <=> \E w \in ActionsToSend(KeptLog) : w.reason = "trial"
           /\ "cancellation" \in Said <=>
                  \E w \in ActionsToSend(KeptLog) : w.reason = "cancellation"
           /\ ~("trial" \in Said /\ "cancellation" \in Said)
           /\ ActionsToSend(KeptLog) # {} => "action_required" \notin KeptLog /\ ~Forgotten
           /\ Sends("notice", Acted) => "notice" \notin Acted /\ ~Forgotten
           /\ Sends("overdue", Noticed) => "overdue" \notin Noticed /\ ~Forgotten
           /\ \A m \in Messages :
                  emails'[m] = IF m \in Said THEN emails[m] + 1 ELSE emails[m]
           /\ emails' \in [Messages -> Nat]
  <1>1. \A w \in ActionsToSend(KeptLog) : w.reason \in {"trial", "cancellation"}
    BY OneWindowKept, PassAssumption DEF ActionsToSend, TypeOK
  <1>2. /\ "notice" \in Said <=> Sends("notice", Acted)
        /\ "overdue" \in Said <=> Sends("overdue", Noticed)
        /\ "trial" \in Said <=> \E w \in ActionsToSend(KeptLog) : w.reason = "trial"
        /\ "cancellation" \in Said <=>
               \E w \in ActionsToSend(KeptLog) : w.reason = "cancellation"
    BY <1>1 DEF Said
  <1>3. ~("trial" \in Said /\ "cancellation" \in Said)
    BY <1>2, OneWindowKept, PassAssumption DEF ActionsToSend, TypeOK
  <1>4. ActionsToSend(KeptLog) # {} => "action_required" \notin KeptLog /\ ~Forgotten
    BY ForgottenIsNotDue DEF ActionsToSend, Kinds
  <1>5. /\ Sends("notice", Acted) => "notice" \notin Acted /\ ~Forgotten
        /\ Sends("overdue", Noticed) => "overdue" \notin Noticed /\ ~Forgotten
    BY ForgottenIsNotDue DEF Sends, Kinds
  <1>6. emails' = [m \in Messages |-> IF m \in Said THEN emails[m] + 1 ELSE emails[m]]
    BY DEF Pass, Said, KeptLog, Acted, Noticed
  <1> HIDE DEF KeptLog, Acted, Noticed, Said
  <1>7. emails' \in [Messages -> Nat]
    BY <1>6 DEF TypeOK
  <1>8. \A m \in Messages : emails'[m] = IF m \in Said THEN emails[m] + 1 ELSE emails[m]
    BY <1>6
  <1>9. QED
    BY <1>2, <1>3, <1>4, <1>5, <1>7, <1>8

\* Time goes on, and the rest stays.
LEMMA TimeGoesOn ==
    ASSUME TypeOK, [Next]_vars
    PROVE  /\ reference \in Int /\ reference' \in {reference, reference + 1}
           /\ UNCHANGED <<terms, shift, born>>
           /\ shift \in Int /\ -TimezoneSpreadDays <= shift /\ shift <= TimezoneSpreadDays
           /\ Due \in Int /\ born \in Int /\ terms \in Terms
           /\ terms.reminder_days_before \in Nat
           /\ terms.reminder_days_before <= MaxReminderDays
           /\ Forgotten => Forgotten'
  <1>1. /\ reference \in Int /\ reference' \in {reference, reference + 1}
        /\ UNCHANGED <<terms, shift, born>>
    BY DEF TypeOK, Next, Pass, PassMissed, vars
  <1>2. reference' \in Int /\ reference <= reference'
    BY <1>1
  <1>3. Forgotten => Forgotten'
    BY <1>2, ForgottenStays
  <1>4. /\ shift \in Int /\ -TimezoneSpreadDays <= shift /\ shift <= TimezoneSpreadDays
        /\ Due \in Int /\ born \in Int /\ terms \in Terms
        /\ terms.reminder_days_before \in Nat
        /\ terms.reminder_days_before <= MaxReminderDays
    BY PassAssumption, WindowAssumption DEF TypeOK
  <1>5. QED
    BY <1>1, <1>3, <1>4

LEMMA PassInvStep == PassInv /\ [Next]_vars => PassInv'
  <1> SUFFICES ASSUME PassInv, [Next]_vars PROVE PassInv'
    OBVIOUS
  <1> USE DEF PassInv
  <1>1. CASE Pass
    <2>1. Forgotten => Forgotten'
      BY TimeGoesOn
    <2>2. /\ emails["notice"] \in Nat /\ emails["overdue"] \in Nat
          /\ emails["trial"] \in Nat /\ emails["cancellation"] \in Nat
      BY DEF TypeOK, Messages
    <2>3. \A m \in Messages : emails'[m] = IF m \in Said THEN emails[m] + 1 ELSE emails[m]
      BY <1>1, PassMessages
    <2>4. /\ emails'["notice"] = IF "notice" \in Said THEN emails["notice"] + 1
                                                      ELSE emails["notice"]
          /\ emails'["overdue"] = IF "overdue" \in Said THEN emails["overdue"] + 1
                                                        ELSE emails["overdue"]
          /\ emails'["trial"] = IF "trial" \in Said THEN emails["trial"] + 1
                                                    ELSE emails["trial"]
          /\ emails'["cancellation"] = IF "cancellation" \in Said
                                       THEN emails["cancellation"] + 1
                                       ELSE emails["cancellation"]
      BY <2>3 DEF Messages
    <2>5. TypeOK'
      <3>1. emails' \in [Messages -> Nat] /\ log' \subseteq Kinds
        BY <1>1, PassMessages, PassStamps
      <3>2. reference' \in Int /\ missed' = 0 /\ UNCHANGED <<terms, shift, born>>
        BY <1>1, TimeGoesOn DEF Pass
      <3>3. QED
        BY <3>1, <3>2, PassAssumption DEF TypeOK
    <2>6. /\ emails'["notice"] <= 1
          /\ emails'["notice"] >= 1 => "notice" \in log' \/ Forgotten'
      BY <1>1, <2>1, <2>2, <2>4, PassStamps, PassMessages
         DEF OncePerFamily, StampedOrForgotten
    <2>7. /\ emails'["overdue"] <= 1
          /\ emails'["overdue"] >= 1 => "overdue" \in log' \/ Forgotten'
      BY <1>1, <2>1, <2>2, <2>4, PassStamps, PassMessages
         DEF OncePerFamily, StampedOrForgotten
    <2>8. /\ emails'["trial"] + emails'["cancellation"] <= 1
          /\ emails'["trial"] + emails'["cancellation"] >= 1 =>
                "action_required" \in log' \/ Forgotten'
      <3>1. CASE ActionsToSend(KeptLog) = {}
        <4>1. "trial" \notin Said /\ "cancellation" \notin Said
          BY <1>1, <3>1, PassMessages
        <4>2. QED
          BY <1>1, <4>1, <2>1, <2>2, <2>4, PassStamps DEF OncePerFamily, StampedOrForgotten
      <3>2. CASE ActionsToSend(KeptLog) # {}
        <4>1. emails["trial"] + emails["cancellation"] = 0
          BY <1>1, <3>2, <2>2, PassStamps, PassMessages DEF StampedOrForgotten
        <4>2. "action_required" \in log'
          BY <1>1, <3>2, PassStamps
        <4>3. ~("trial" \in Said /\ "cancellation" \in Said)
          BY <1>1, PassMessages
        <4>4. QED
          BY <4>1, <4>2, <4>3, <2>2, <2>4
      <3>3. QED
        BY <3>1, <3>2
    <2>9. QED
      BY <2>5, <2>6, <2>7, <2>8 DEF OncePerFamily, StampedOrForgotten
  <1>2. CASE PassMissed
    <2>1. Forgotten => Forgotten'
      BY TimeGoesOn
    <2>2. QED
      BY <1>2, <2>1, PassAssumption
         DEF PassMissed, TypeOK, OncePerFamily, StampedOrForgotten
  <1>3. CASE UNCHANGED vars
    BY <1>3 DEF vars, TypeOK, OncePerFamily, StampedOrForgotten, Forgotten
  <1>4. QED
    BY <1>1, <1>2, <1>3 DEF Next

\* However the daily passes run, and although purge_reminders erases the log of
\* old due dates, a family writes at most once about an occurrence.
THEOREM NoFamilyRepeats == Spec => []OncePerFamily
  <1>1. PassInv => OncePerFamily
    BY DEF PassInv
  <1>2. QED
    BY <1>1, PassInvInit, PassInvStep, PTL DEF Spec

-----------------------------------------------------------------------------
(* In its window.                                                          *)

\* The windows of a commitment, one for each reason.
LEMMA WindowsByReason ==
    ASSUME TypeOK, NEW w \in TrialWindow(terms, Due) \cup CancellationWindow(terms, Due)
    PROVE  /\ w.deadline \in Int /\ w.lead_days \in Nat
           /\ w.lead_days >= terms.reminder_days_before
           /\ w.deadline <= Due
           /\ w.reason \in {"trial", "cancellation"}
           /\ w.reason = "trial" =>
                 /\ terms.trial_ends_on \in Int /\ terms.trial_ends_on # None
                 /\ Due = terms.starts_on
                 /\ w \in TrialWindow(terms, Due) /\ w.deadline = terms.trial_ends_on
                 /\ w.lead_days = Longer(terms.reminder_days_before, MinTrialNoticeDays)
           /\ w.reason = "cancellation" =>
                 /\ terms.cancellation_notice_days \in Nat
                 /\ terms.cancellation_notice_days # None
                 /\ w.deadline = Due - terms.cancellation_notice_days
                 /\ w.lead_days = terms.reminder_days_before
  <1>1. /\ terms \in Terms /\ Due \in Int /\ terms.starts_on \in Int
        /\ terms.reminder_days_before \in Nat /\ MinTrialNoticeDays \in Nat
        /\ terms.trial_ends_on # None =>
              terms.trial_ends_on \in Int /\ terms.trial_ends_on <= terms.starts_on
        /\ terms.cancellation_notice_days # None => terms.cancellation_notice_days \in Nat
    BY PassAssumption, WindowAssumption DEF TypeOK
  <1>2. CASE w \in TrialWindow(terms, Due)
    <2>1. /\ terms.trial_ends_on # None /\ Due = terms.starts_on
          /\ w.deadline = terms.trial_ends_on /\ w.reason = "trial"
          /\ w.lead_days = Longer(terms.reminder_days_before, MinTrialNoticeDays)
      BY <1>2 DEF TrialWindow
    <2>2. w.lead_days \in Nat /\ w.lead_days >= terms.reminder_days_before
      BY <1>1, <2>1 DEF Longer
    <2>3. QED
      BY <1>1, <1>2, <2>1, <2>2
  <1>3. CASE w \in CancellationWindow(terms, Due)
    <2>1. /\ terms.cancellation_notice_days # None
          /\ w.deadline = Due - terms.cancellation_notice_days
          /\ w.reason = "cancellation" /\ w.lead_days = terms.reminder_days_before
      BY <1>3 DEF CancellationWindow
    <2>2. QED
      BY <1>1, <2>1
  <1>4. QED
    BY <1>2, <1>3

\* What is sent is open: its window has begun and its deadline is ahead.
LEMMA OpenWhenSent ==
    ASSUME TypeOK, NEW stamps, NEW w \in ActionsToSend(stamps)
    PROVE  /\ w \in TrialWindow(terms, Due) \cup CancellationWindow(terms, Due)
           /\ w.deadline - w.lead_days <= today
           /\ today <= w.deadline
  BY DEF ActionsToSend, KeptWindows, LiveWindows, IsOpen

\* A message leaves on a day of its window, between its first and its last.
THEOREM WindowTheorem == Spec => SentInItsWindow
  <1> DEFINE InTrial == /\ terms.trial_ends_on # None /\ Due = terms.starts_on
                        /\ TrialOpensOn <= today /\ today <= terms.trial_ends_on
             InCancellation ==
                 /\ terms.cancellation_notice_days # None
                 /\ CancellationOpensOn <= today /\ today <= CancellationDeadline
             InNotice == Due - terms.reminder_days_before <= today /\ today <= Due
             InOverdue == /\ Due + OverdueReminderDays <= today
                          /\ today <= Due + OverdueReminderWindowDays
             InTheirs == /\ emails'["notice"] > emails["notice"] => InNotice
                         /\ emails'["overdue"] > emails["overdue"] => InOverdue
                         /\ emails'["trial"] > emails["trial"] => InTrial
                         /\ emails'["cancellation"] > emails["cancellation"]
                               => InCancellation
  <1>1. ASSUME TypeOK, [Next]_vars
        PROVE  InTheirs
    <2>1. /\ emails["notice"] \in Nat /\ emails["overdue"] \in Nat
          /\ emails["trial"] \in Nat /\ emails["cancellation"] \in Nat
      BY <1>1 DEF TypeOK, Messages
    <2>2. CASE UNCHANGED emails
      <3> HIDE DEF InTrial, InCancellation, InNotice, InOverdue
      <3>1. QED
        BY <2>1, <2>2
    <2>3. CASE Pass
      <3>1. \A m \in Messages : emails'[m] > emails[m] => m \in Said
        <4> SUFFICES ASSUME NEW m \in Messages, emails'[m] > emails[m], m \notin Said
                     PROVE  FALSE
          OBVIOUS
        <4>1. emails[m] \in Nat /\ emails'[m] = emails[m]
          BY <1>1, <2>3, PassMessages DEF TypeOK
        <4>2. QED
          BY <4>1
      <3>2. today \in Int /\ Due \in Int /\ terms.reminder_days_before \in Nat
        BY <1>1, TimeGoesOn DEF today
      <3>3. Sends("notice", Acted) => InNotice
        BY <3>2, WindowAssumption DEF Sends, IsDue, Bounds
      <3>4. Sends("overdue", Noticed) => InOverdue
        BY <3>2, WindowAssumption DEF Sends, IsDue, Bounds
      <3>5. ASSUME NEW w \in ActionsToSend(KeptLog)
            PROVE  /\ w.reason = "trial" => InTrial
                   /\ w.reason = "cancellation" => InCancellation
        <4>1. /\ w \in TrialWindow(terms, Due) \cup CancellationWindow(terms, Due)
              /\ w.deadline - w.lead_days <= today /\ today <= w.deadline
          BY <1>1, OpenWhenSent
        <4>2. CASE w.reason = "trial"
          BY <1>1, <4>1, <4>2, WindowsByReason DEF TrialOpensOn
        <4>3. CASE w.reason = "cancellation"
          BY <1>1, <4>1, <4>3, WindowsByReason
             DEF CancellationOpensOn, CancellationDeadline
        <4>4. QED
          BY <4>2, <4>3
      <3> HIDE DEF InTrial, InCancellation, InNotice, InOverdue
      <3>6. QED
        BY <1>1, <2>3, <3>1, <3>3, <3>4, <3>5, PassMessages DEF Messages
    <2>4. QED
      BY <1>1, <2>2, <2>3 DEF Next, PassMissed, vars
  <1>2. PassInv => TypeOK
    BY DEF PassInv
  <1>3. QED
    BY <1>1, <1>2, PassInvInit, PassInvStep, PTL DEF Spec, SentInItsWindow

\* Of the windows that are live, one is kept, and none is tighter.
LEMMA TighterIsKept ==
    ASSUME TypeOK, NEW w \in LiveWindows(terms, Due, reference)
    PROVE  \E k \in KeptWindows(terms, Due, reference) : k.deadline <= w.deadline
  <1> DEFINE trials == TrialWindow(terms, Due)
             notices == CancellationWindow(terms, Due)
             live == LiveWindows(terms, Due, reference)
  <1>1. \A x \in live : x \in trials \cup notices /\ x.deadline \in Int
    BY WindowsByReason DEF LiveWindows
  <1>2. /\ \A x, y \in trials : x = y
        /\ \A x, y \in notices : x = y
        /\ \A x \in notices : x.reason = "cancellation"
    BY DEF TrialWindow, CancellationWindow
  <1>3. \A x \in live : (\A y \in live : \/ x.deadline < y.deadline
                                        \/ /\ x.deadline = y.deadline
                                           /\ x.reason = "cancellation" \/ x = y)
                          => x \in KeptWindows(terms, Due, reference)
    BY DEF KeptWindows
  <1> HIDE DEF live, trials, notices
  <1>4. CASE \A y \in live : y = w
    BY <1>1, <1>3, <1>4 DEF live
  <1>5. CASE \E y \in live : y # w
    <2>1. PICK y \in live : y # w
      BY <1>5
    <2>2. w \in live
      BY DEF live
    <2>3. \A x \in live : x = w \/ x = y
      BY <1>1, <1>2, <2>1, <2>2
    <2>4. w.reason = "cancellation" \/ y.reason = "cancellation"
      BY <1>1, <1>2, <2>1, <2>2
    <2>5. CASE w.deadline < y.deadline
      BY <1>1, <1>3, <2>2, <2>3, <2>5
    <2>6. CASE y.deadline < w.deadline
      BY <1>1, <1>3, <2>1, <2>2, <2>3, <2>6
    <2>7. CASE y.deadline = w.deadline
      BY <1>1, <1>3, <2>1, <2>2, <2>3, <2>4, <2>7
    <2>8. QED
      BY <1>1, <2>1, <2>2, <2>5, <2>6, <2>7
  <1>6. QED
    BY <1>4, <1>5

\* A window that is live, on the server's day, and open, leaves the family stamped.
LEMMA OpenIsStamped ==
    ASSUME TypeOK, Pass, shift = 0,
           NEW w \in LiveWindows(terms, Due, reference),
           Due - terms.reminder_days_before <= today \/ w.deadline = today,
           Due <= today + MaxCancellationNoticeDays + MaxReminderDays,
           today <= Due
    PROVE  "action_required" \in log'
  <1>1. /\ today \in Int /\ today = reference /\ reference \in Int
        /\ Due \in Int /\ terms.reminder_days_before \in Nat
    BY TimeGoesOn DEF today, Next
  <1>2. w.deadline \in Int
    BY WindowsByReason DEF LiveWindows
  <1>3. PICK k \in KeptWindows(terms, Due, reference) : k.deadline <= w.deadline
    BY TighterIsKept
  <1>4. /\ k \in TrialWindow(terms, Due) \cup CancellationWindow(terms, Due)
        /\ reference <= k.deadline
    BY DEF KeptWindows, LiveWindows
  <1>5. /\ k.deadline \in Int /\ k.lead_days \in Nat /\ k.deadline <= Due
        /\ terms.reminder_days_before <= k.lead_days
    BY <1>4, WindowsByReason
  <1>6. IsOpen(k, today)
    <2>1. k.deadline - k.lead_days <= today
      <3>1. CASE w.deadline = today
        BY <1>1, <1>2, <1>3, <1>5, <3>1
      <3>2. CASE Due - terms.reminder_days_before <= today
        BY <1>1, <1>5, <3>2
      <3>3. QED
        BY <3>1, <3>2
    <2>2. QED
      BY <1>1, <1>4, <2>1 DEF IsOpen
  <1>7. IsDue("action_required", Due, terms.reminder_days_before, today)
    BY <1>1, WindowAssumption DEF IsDue, Bounds
  <1>8. InQuery("action_required", Due, terms.reminder_days_before, reference)
    BY <1>1, <1>7, QueryCastsWide, WindowAssumption DEF Kinds
  <1>9. "action_required" \in KeptLog \/ k \in ActionsToSend(KeptLog)
    BY <1>6, <1>7, <1>8 DEF ActionsToSend
  <1>10. QED
    BY <1>9, PassStamps

\* The pass of the last day of a deadline leaves nothing unsaid, for the accounts
\* on the server's day and the deadlines within the bounds of the query.
THEOREM LastDayTheorem == Spec => LastDayIsReached
  <1>1. TypeOK =>
          \A w \in TrialWindow(terms, Due) \cup CancellationWindow(terms, Due) :
             Pass /\ shift = 0 /\ w.deadline = today /\ WithinQuery(w)
                => "action_required" \in log'
    <2> SUFFICES ASSUME TypeOK, Pass, shift = 0,
                        NEW w \in TrialWindow(terms, Due) \cup CancellationWindow(terms, Due),
                        w.deadline = today, WithinQuery(w)
                 PROVE  "action_required" \in log'
      OBVIOUS
    <2>1. /\ today \in Int /\ today = reference /\ Due \in Int
      BY TimeGoesOn DEF today, Next
    <2>2. w.deadline <= Due
      BY WindowsByReason
    <2>3. w \in LiveWindows(terms, Due, reference)
      BY <2>1 DEF LiveWindows
    <2>4. today <= Due /\ Due <= today + MaxCancellationNoticeDays + MaxReminderDays
      BY <2>1, <2>2, WindowAssumption DEF WithinQuery
    <2>5. QED
      BY <2>3, <2>4, OpenIsStamped
  <1>2. PassInv => TypeOK
    BY DEF PassInv
  <1>3. QED
    BY <1>1, <1>2, PassInvInit, PassInvStep, PTL DEF Spec, LastDayIsReached, Windows

-----------------------------------------------------------------------------
(* A charge is announced once.                                             *)

\* The trial's warning can still leave.
TrialAhead ==
    /\ TrialWindow(terms, Due) # {}
    /\ reference <= terms.trial_ends_on

\* A warning stamps the notice; and a notice leaves when the trial's window is
\* open already, or over: the family of warnings is stamped, or has no use.
AnnouncedOnce ==
    /\ emails["trial"] >= 1 => "notice" \in log \/ Forgotten
    /\ shift = 0 /\ emails["notice"] >= 1 =>
          "action_required" \in log \/ Forgotten \/ ~TrialAhead
    /\ NoticeOrTrialOnServerDay

LEMMA AnnouncedOnceInit == Init => AnnouncedOnce
  BY DEF Init, AnnouncedOnce, NoticeOrTrialOnServerDay, NoticeOrTrial, Messages

LEMMA AnnouncedOnceStep == PassInv /\ AnnouncedOnce /\ [Next]_vars => AnnouncedOnce'
  <1> SUFFICES ASSUME PassInv, AnnouncedOnce, [Next]_vars PROVE AnnouncedOnce'
    OBVIOUS
  <1>1. TypeOK /\ OncePerFamily
    BY DEF PassInv
  <1>2. /\ reference \in Int /\ reference' \in {reference, reference + 1}
        /\ UNCHANGED <<terms, shift>>
        /\ Forgotten => Forgotten'
    BY <1>1, TimeGoesOn
  <1>3. ~TrialAhead => ~TrialAhead'
    <2> SUFFICES ASSUME TrialAhead' PROVE TrialAhead
      OBVIOUS
    <2>1. TrialWindow(terms, Due) # {} /\ reference' <= terms.trial_ends_on
      BY <1>2 DEF TrialAhead, TrialWindow
    <2>2. PICK w \in TrialWindow(terms, Due) : TRUE
      BY <2>1
    <2>3. terms.trial_ends_on \in Int
      BY <1>1, <2>2, WindowsByReason DEF TrialWindow
    <2>4. QED
      BY <1>2, <2>1, <2>3 DEF TrialAhead
  <1>4. CASE UNCHANGED <<log, emails>>
    BY <1>2, <1>3, <1>4
       DEF AnnouncedOnce, NoticeOrTrialOnServerDay, NoticeOrTrial
  <1>5. CASE Pass
    <2>1. /\ emails["notice"] \in Nat /\ emails["trial"] \in Nat
          /\ emails["cancellation"] \in Nat
          /\ emails["notice"] <= 1 /\ emails["trial"] <= 1
      BY <1>1 DEF TypeOK, Messages, OncePerFamily
    <2>2. \A m \in Messages : emails'[m] = IF m \in Said THEN emails[m] + 1 ELSE emails[m]
      BY <1>1, <1>5, PassMessages
    <2>3. /\ emails'["notice"] = IF "notice" \in Said THEN emails["notice"] + 1
                                                      ELSE emails["notice"]
          /\ emails'["trial"] = IF "trial" \in Said THEN emails["trial"] + 1
                                                    ELSE emails["trial"]
      BY <2>2 DEF Messages
    <2>4. emails'["notice"] <= 1 /\ emails'["trial"] <= 1
      <3>1. PassInv'
        BY PassInvStep
      <3>2. /\ emails'["trial"] \in Nat /\ emails'["cancellation"] \in Nat
        BY <3>1 DEF PassInv, TypeOK, Messages
      <3>3. QED
        BY <3>1, <3>2 DEF PassInv, OncePerFamily
    <2>5. KeptLog = log \/ Forgotten
      BY <1>1, <1>5, PassStamps
    <2>6. emails'["trial"] >= 1 => "notice" \in log' \/ Forgotten'
      <3>1. CASE "trial" \in Said
        BY <1>1, <1>5, <3>1, PassStamps, PassMessages
      <3>2. CASE "trial" \notin Said
        BY <1>1, <1>2, <1>5, <2>3, <2>5, <3>2, PassStamps DEF AnnouncedOnce
      <3>3. QED
        BY <3>1, <3>2
    <2>7. shift = 0 /\ "notice" \in Said => "action_required" \in log' \/ ~TrialAhead
      <3> SUFFICES ASSUME shift = 0, "notice" \in Said, TrialAhead
                   PROVE  "action_required" \in log'
        OBVIOUS
      <3>1. /\ today \in Int /\ today = reference /\ Due \in Int
            /\ terms.reminder_days_before \in Nat
            /\ terms.reminder_days_before <= MaxReminderDays
        BY <1>1, TimeGoesOn DEF today
      <3>2. today <= Due /\ Due <= today + terms.reminder_days_before
        <4>1. Sends("notice", Acted)
          BY <1>1, <1>5, PassMessages
        <4>2. QED
          BY <3>1, <4>1, WindowAssumption DEF Sends, IsDue, Bounds
      <3>3. PICK w \in TrialWindow(terms, Due) : TRUE
        BY DEF TrialAhead
      <3>4. w.reason = "trial"
        BY <3>3 DEF TrialWindow
      <3>5. w \in LiveWindows(terms, Due, reference)
        BY <1>1, <3>1, <3>3, <3>4, WindowsByReason DEF LiveWindows, TrialAhead
      <3>6. /\ Due - terms.reminder_days_before <= today
            /\ Due <= today + MaxCancellationNoticeDays + MaxReminderDays
        BY <3>1, <3>2, WindowAssumption
      <3>7. QED
        BY <1>1, <1>5, <3>2, <3>5, <3>6, OpenIsStamped
    <2>8. shift' = 0 /\ emails'["notice"] >= 1 =>
             "action_required" \in log' \/ Forgotten' \/ ~TrialAhead'
      <3>1. CASE "notice" \in Said
        BY <1>2, <1>3, <2>7, <3>1
      <3>2. CASE "notice" \notin Said
        BY <1>1, <1>2, <1>3, <1>5, <2>3, <2>5, <3>2, PassStamps DEF AnnouncedOnce
      <3>3. QED
        BY <3>1, <3>2
    <2>9. NoticeOrTrialOnServerDay'
      <3> SUFFICES ASSUME shift = 0, emails'["notice"] >= 1, emails'["trial"] >= 1
                   PROVE  FALSE
        BY <1>2, <2>1, <2>3, <2>4 DEF NoticeOrTrialOnServerDay, NoticeOrTrial
      <3>1. "trial" \in Said => "notice" \notin Said
        BY <1>1, <1>5, PassStamps, PassMessages
      <3>2. CASE "trial" \in Said
        <4>1. emails["notice"] >= 1
          BY <2>1, <2>3, <3>1, <3>2
        <4>2. PICK w \in ActionsToSend(KeptLog) : w.reason = "trial"
          BY <1>1, <1>5, <3>2, PassMessages
        <4>3. "action_required" \notin KeptLog /\ ~Forgotten
          BY <1>1, <1>5, <4>2, PassMessages
        <4>4. ~TrialAhead
          BY <2>5, <4>1, <4>3 DEF AnnouncedOnce
        <4>5. /\ w \in TrialWindow(terms, Due) \cup CancellationWindow(terms, Due)
              /\ today <= w.deadline
          BY <1>1, <4>2, OpenWhenSent
        <4>6. w \in TrialWindow(terms, Due) /\ w.deadline = terms.trial_ends_on
          BY <1>1, <4>2, <4>5, WindowsByReason
        <4>7. today = reference
          BY <1>2 DEF today
        <4>8. QED
          BY <4>4, <4>5, <4>6, <4>7 DEF TrialAhead
      <3>3. CASE "trial" \notin Said
        <4>1. emails["trial"] >= 1
          BY <2>3, <3>3
        <4>2. "notice" \in log \/ Forgotten
          BY <4>1 DEF AnnouncedOnce
        <4>3. "notice" \notin Said
          BY <1>1, <1>5, <2>5, <4>2, PassStamps, PassMessages
        <4>4. emails["notice"] >= 1
          BY <2>3, <4>3
        <4>5. QED
          BY <2>1, <4>1, <4>4 DEF AnnouncedOnce, NoticeOrTrialOnServerDay, NoticeOrTrial
      <3>4. QED
        BY <3>2, <3>3
    <2>10. QED
      BY <2>6, <2>8, <2>9 DEF AnnouncedOnce
  <1>6. QED
    BY <1>4, <1>5 DEF Next, PassMissed, vars

\* For the accounts on the server's day, a charge is announced by a notice or by a
\* trial's warning, never by both, whatever passes are missed.
THEOREM AnnouncedOnceTheorem == Spec => []NoticeOrTrialOnServerDay
  <1>1. AnnouncedOnce => NoticeOrTrialOnServerDay
    BY DEF AnnouncedOnce
  <1>2. QED
    BY <1>1, PassInvInit, PassInvStep, AnnouncedOnceInit, AnnouncedOnceStep, PTL DEF Spec

-----------------------------------------------------------------------------
(* In time.                                                                *)

SaidInTime == emails["notice"] + emails["trial"] >= 1

\* A stamp has its message; and until a family has written, every pass so far was
\* before its window: the passes missed since are too few to have skipped it.
NothingSkipped ==
    /\ "notice" \in log => SaidInTime
    /\ "overdue" \in log => emails["overdue"] >= 1
    /\ /\ born + shift <= Due - terms.reminder_days_before
       /\ MaxMissed <= terms.reminder_days_before
       => SaidInTime \/ today - missed <= Due - terms.reminder_days_before
    /\ /\ born + shift <= Due + OverdueReminderDays
       /\ MaxMissed <= OverdueReminderWindowDays - OverdueReminderDays
       => emails["overdue"] >= 1 \/ today - missed <= Due + OverdueReminderDays

\* The next day, for an account and for the server.
LEMMA NextDay ==
    ASSUME NEW a \in Int, NEW b \in Int, NEW c \in Int, b <= a + 1
    PROVE  b + c <= a + c + 1
  OBVIOUS

LEMMA StillBefore ==
    ASSUME NEW a \in Int, NEW b \in Int, NEW c \in Int, b <= a + 1, a < c
    PROVE  b - 0 <= c
  OBVIOUS

LEMMA NothingSkippedInit == Init => NothingSkipped
  <1> SUFFICES ASSUME Init PROVE NothingSkipped
    OBVIOUS
  <1>1. born \in Int /\ shift \in Int /\ reference = born /\ missed = 0 /\ log = {}
    BY PassAssumption DEF Init
  <1>2. today - missed = born + shift
    BY <1>1 DEF today
  <1>3. QED
    BY <1>1, <1>2 DEF NothingSkipped

LEMMA NothingSkippedStep == PassInv /\ NothingSkipped /\ [Next]_vars => NothingSkipped'
  <1> SUFFICES ASSUME PassInv, NothingSkipped, [Next]_vars PROVE NothingSkipped'
    OBVIOUS
  <1>1. TypeOK
    BY DEF PassInv
  <1>2. /\ reference \in Int /\ reference' \in {reference, reference + 1}
        /\ UNCHANGED <<terms, shift, born>>
        /\ shift \in Int /\ -TimezoneSpreadDays <= shift /\ shift <= TimezoneSpreadDays
        /\ Due \in Int /\ born \in Int
        /\ terms.reminder_days_before \in Nat
        /\ terms.reminder_days_before <= MaxReminderDays
    BY <1>1, TimeGoesOn
  <1>3. /\ today \in Int /\ today' \in Int /\ today' <= today + 1
        /\ reference - TimezoneSpreadDays <= today /\ today <= reference + TimezoneSpreadDays
    <2>1. TimezoneSpreadDays \in Nat /\ reference' \in Int /\ reference' <= reference + 1
      BY <1>2, WindowAssumption
    <2>2. today = reference + shift /\ today' = reference' + shift
      BY <1>2 DEF today
    <2>3. today \in Int /\ today' \in Int
      BY <1>2, <2>1, <2>2
    <2>4. today' <= today + 1
      BY <1>2, <2>1, <2>2, NextDay
    <2>5. reference - TimezoneSpreadDays <= today
      BY <1>2, <2>1, <2>2
    <2>6. today <= reference + TimezoneSpreadDays
      BY <1>2, <2>1, <2>2
    <2>7. QED
      BY <2>3, <2>4, <2>5, <2>6
  <1>4. /\ missed \in Nat /\ missed <= MaxMissed /\ MaxMissed \in Nat
        /\ emails["notice"] \in Nat /\ emails["trial"] \in Nat /\ emails["overdue"] \in Nat
        /\ OverdueReminderDays \in Nat /\ OverdueReminderWindowDays \in Nat
    BY <1>1, PassAssumption, WindowAssumption DEF TypeOK, Messages
  <1>5. CASE Pass
    <2>1. \A m \in Messages : emails'[m] = IF m \in Said THEN emails[m] + 1 ELSE emails[m]
      BY <1>1, <1>5, PassMessages
    <2>2. /\ emails'["notice"] = IF "notice" \in Said THEN emails["notice"] + 1
                                                      ELSE emails["notice"]
          /\ emails'["trial"] = IF "trial" \in Said THEN emails["trial"] + 1
                                                    ELSE emails["trial"]
          /\ emails'["overdue"] = IF "overdue" \in Said THEN emails["overdue"] + 1
                                                        ELSE emails["overdue"]
      BY <2>1 DEF Messages
    <2>3. /\ SaidInTime => SaidInTime'
          /\ "notice" \in Said \/ "trial" \in Said => SaidInTime'
          /\ emails["overdue"] >= 1 => emails'["overdue"] >= 1
          /\ "overdue" \in Said => emails'["overdue"] >= 1
      BY <1>4, <2>2 DEF SaidInTime
    <2>4. /\ "notice" \in log' => SaidInTime'
          /\ "notice" \in Acted => SaidInTime'
      BY <1>1, <1>5, <2>3, PassStamps, PassMessages DEF NothingSkipped
    <2>5. "overdue" \in log' => emails'["overdue"] >= 1
      BY <1>1, <1>5, <2>3, PassStamps, PassMessages DEF NothingSkipped
    <2>6. Due - terms.reminder_days_before <= today /\ today <= Due => SaidInTime'
      <3> SUFFICES ASSUME Due - terms.reminder_days_before <= today, today <= Due,
                          "notice" \notin Acted
                   PROVE  SaidInTime'
        BY <2>4
      <3>1. IsDue("notice", Due, terms.reminder_days_before, today)
        BY <1>2, <1>3, WindowAssumption DEF IsDue, Bounds
      <3>2. InQuery("notice", Due, terms.reminder_days_before, reference)
        BY <1>2, <1>3, <3>1, QueryCastsWide DEF Kinds
      <3>3. "notice" \in Said
        BY <1>1, <1>5, <3>1, <3>2, PassMessages DEF Sends
      <3>4. QED
        BY <2>3, <3>3
    <2>7. /\ Due + OverdueReminderDays <= today
          /\ today <= Due + OverdueReminderWindowDays
          => emails'["overdue"] >= 1
      <3> SUFFICES ASSUME Due + OverdueReminderDays <= today,
                          today <= Due + OverdueReminderWindowDays,
                          "overdue" \notin log'
                   PROVE  FALSE
        BY <2>5
      <3>1. IsDue("overdue", Due, terms.reminder_days_before, today)
        BY <1>2, <1>3, WindowAssumption DEF IsDue, Bounds
      <3>2. InQuery("overdue", Due, terms.reminder_days_before, reference)
        BY <1>2, <1>3, <3>1, QueryCastsWide DEF Kinds
      <3>3. QED
        BY <1>1, <1>5, <3>1, <3>2, PassStamps DEF Sends
    <2>8. missed' = 0
      BY <1>5 DEF Pass
    <2>9. ASSUME born + shift <= Due - terms.reminder_days_before,
                 MaxMissed <= terms.reminder_days_before
          PROVE  SaidInTime' \/ today' - missed' <= Due - terms.reminder_days_before
      <3>1. SaidInTime \/ today - missed <= Due - terms.reminder_days_before
        BY <2>9 DEF NothingSkipped
      <3>2. SaidInTime \/ today <= Due
        BY <1>2, <1>3, <1>4, <2>9, <3>1
      <3>3. CASE today < Due - terms.reminder_days_before
        BY <1>2, <1>3, <2>8, <3>3
      <3>4. CASE Due - terms.reminder_days_before <= today
        BY <2>3, <2>6, <3>2, <3>4
      <3>5. QED
        BY <1>2, <1>3, <3>3, <3>4
    <2>10. ASSUME born + shift <= Due + OverdueReminderDays,
                  MaxMissed <= OverdueReminderWindowDays - OverdueReminderDays
           PROVE  emails'["overdue"] >= 1 \/ today' - missed' <= Due + OverdueReminderDays
      <3>1. emails["overdue"] >= 1 \/ today - missed <= Due + OverdueReminderDays
        BY <2>10 DEF NothingSkipped
      <3>2. emails["overdue"] >= 1 \/ today <= Due + OverdueReminderWindowDays
        BY <1>2, <1>3, <1>4, <2>10, <3>1
      <3>3. CASE today < Due + OverdueReminderDays
        <4>1. Due + OverdueReminderDays \in Int
          BY <1>2, <1>4
        <4>2. today' - 0 <= Due + OverdueReminderDays
          BY <1>3, <3>3, <4>1, StillBefore
        <4>3. QED
          BY <2>8, <4>2
      <3>4. CASE Due + OverdueReminderDays <= today
        BY <2>3, <2>7, <3>2, <3>4
      <3>5. QED
        BY <1>2, <1>3, <1>4, <3>3, <3>4
    <2>11. QED
      BY <1>2, <2>4, <2>5, <2>9, <2>10 DEF NothingSkipped
  <1>6. CASE PassMissed
    <2>1. UNCHANGED <<log, emails>> /\ today' = today + 1 /\ missed' = missed + 1
      BY <1>2, <1>6 DEF PassMissed, today
    <2>2. today' - missed' = today - missed
      BY <1>3, <1>4, <2>1
    <2>3. QED
      BY <1>2, <2>1, <2>2 DEF NothingSkipped, SaidInTime
  <1>7. CASE UNCHANGED vars
    BY <1>7 DEF vars, NothingSkipped, SaidInTime, today
  <1>8. QED
    BY <1>5, <1>6, <1>7 DEF Next

-----------------------------------------------------------------------------
(* The first of two deadlines is warned of.                                *)

\* A commitment, its account and the run are such that the warning is in time.
Warnable(w) ==
    /\ IsTighter(w) /\ OpensWithinQuery(w)
    /\ shift >= 0
    /\ born + shift <= w.deadline - w.lead_days
    /\ MaxMissed <= w.lead_days

\* Until its warning leaves, no other has taken its stamp, and every pass so far
\* was before its window: the passes missed since are too few to have skipped it.
WarningNotSkipped ==
    \A w \in Windows : Warnable(w) =>
        \/ emails[w.reason] >= 1
        \/ "action_required" \notin log /\ today - missed <= w.deadline - w.lead_days

LEMMA WarningNotSkippedInit == Init => WarningNotSkipped
  <1> SUFFICES ASSUME Init PROVE WarningNotSkipped
    OBVIOUS
  <1>1. born \in Int /\ shift \in Int /\ reference = born /\ missed = 0 /\ log = {}
    BY PassAssumption DEF Init
  <1>2. today - missed = born + shift
    BY <1>1 DEF today
  <1>3. QED
    BY <1>1, <1>2 DEF WarningNotSkipped, Warnable

\* Both windows of a commitment are told apart by their reasons.
LEMMA ReasonTellsWindow ==
    ASSUME NEW v \in Windows, NEW w \in Windows, v.reason = w.reason
    PROVE  v = w
  <1>1. /\ \A x, y \in TrialWindow(terms, Due) : x = y
        /\ \A x, y \in CancellationWindow(terms, Due) : x = y
        /\ \A x \in TrialWindow(terms, Due) : x.reason = "trial"
        /\ \A x \in CancellationWindow(terms, Due) : x.reason = "cancellation"
    BY DEF TrialWindow, CancellationWindow
  <1>2. QED
    BY <1>1 DEF Windows

\* As long as it is live, the tighter window is the one that is kept.
LEMMA TighterIsChosen ==
    ASSUME TypeOK, NEW w \in Windows, IsTighter(w), reference <= w.deadline
    PROVE  KeptWindows(terms, Due, reference) = {w}
  <1>1. terms \in Terms /\ Due \in Int /\ reference \in Int
    BY PassAssumption DEF TypeOK
  <1>2. w.deadline \in Int
    BY WindowsByReason DEF Windows
  <1>3. w \in LiveWindows(terms, Due, reference)
    BY <1>1, <1>2 DEF LiveWindows, Windows
  <1>4. LiveWindows(terms, Due, reference) \subseteq Windows
    BY DEF LiveWindows, Windows
  <1>5. w \in KeptWindows(terms, Due, reference)
    BY <1>3, <1>4 DEF KeptWindows, IsTighter
  <1>6. ASSUME NEW v \in KeptWindows(terms, Due, reference)
        PROVE  v = w
    <2>1. v.reason = w.reason
      BY <1>1, <1>5, OneWindowKept
    <2>2. v \in Windows
      BY <1>4 DEF KeptWindows
    <2>3. QED
      BY <2>1, <2>2, ReasonTellsWindow
  <1>7. QED
    BY <1>5, <1>6

\* A pass on the days of the window sends its warning; one before them leaves the
\* family unstamped.
LEMMA WarnableAtPass ==
    ASSUME TypeOK, Pass, NEW w \in Windows, Warnable(w), "action_required" \notin log,
           today - missed <= w.deadline - w.lead_days
    PROVE  \/ w.reason \in Said
           \/ "action_required" \notin log' /\ today < w.deadline - w.lead_days
  <1>1. /\ today \in Int /\ reference \in Int /\ shift \in Int /\ today = reference + shift
        /\ Due \in Int /\ terms.reminder_days_before \in Nat
    BY TimeGoesOn DEF today, Next
  <1>2. /\ w.deadline \in Int /\ w.lead_days \in Nat /\ w.deadline <= Due
        /\ w.reason \in {"trial", "cancellation"}
    BY WindowsByReason DEF Windows
  <1>3. missed \in Nat /\ missed <= MaxMissed /\ MaxMissed \in Nat
    BY PassAssumption DEF TypeOK
  <1>4. today <= w.deadline /\ reference <= w.deadline
    BY <1>1, <1>2, <1>3 DEF Warnable
  <1>5. KeptWindows(terms, Due, reference) = {w}
    BY <1>4, TighterIsChosen DEF Warnable
  <1>6. "action_required" \notin KeptLog
    BY PassStamps
  <1>7. CASE w.deadline - w.lead_days <= today
    <2>1. IsOpen(w, today)
      BY <1>4, <1>7 DEF IsOpen
    <2>2. today <= Due /\ Due <= today + MaxCancellationNoticeDays + MaxReminderDays
      BY <1>1, <1>2, <1>4, <1>7, WindowAssumption DEF Warnable, OpensWithinQuery
    <2>3. IsDue("action_required", Due, terms.reminder_days_before, today)
      BY <1>1, <2>2, WindowAssumption DEF IsDue, Bounds
    <2>4. reference - TimezoneSpreadDays <= today /\ today <= reference + TimezoneSpreadDays
      <3>1. -TimezoneSpreadDays <= shift /\ shift <= TimezoneSpreadDays
        BY TimeGoesOn DEF Next
      <3>2. QED
        BY <1>1, <3>1, WindowAssumption
    <2>5. InQuery("action_required", Due, terms.reminder_days_before, reference)
      BY <1>1, <2>3, <2>4, QueryCastsWide DEF Kinds
    <2>6. w \in ActionsToSend(KeptLog)
      BY <1>5, <1>6, <2>1, <2>3, <2>5 DEF ActionsToSend
    <2>7. QED
      BY <1>2, <2>6, PassMessages
  <1>8. CASE today < w.deadline - w.lead_days
    <2>1. ~IsOpen(w, today)
      BY <1>1, <1>2, <1>8 DEF IsOpen
    <2>2. ActionsToSend(KeptLog) = {}
      BY <1>5, <2>1 DEF ActionsToSend
    <2>3. QED
      BY <1>6, <1>8, <2>2, PassStamps
  <1>9. QED
    BY <1>1, <1>2, <1>7, <1>8

LEMMA WarningNotSkippedStep == TypeOK /\ WarningNotSkipped /\ [Next]_vars => WarningNotSkipped'
  <1> SUFFICES ASSUME TypeOK, WarningNotSkipped, [Next]_vars PROVE WarningNotSkipped'
    OBVIOUS
  <1>0. UNCHANGED <<terms, shift, born>>
    BY TimeGoesOn
  <1> SUFFICES ASSUME NEW w \in Windows, Warnable(w)
               PROVE  \/ emails'[w.reason] >= 1
                      \/ /\ "action_required" \notin log'
                         /\ today' - missed' <= w.deadline - w.lead_days
    BY <1>0 DEF WarningNotSkipped, Windows, Warnable, IsTighter, OpensWithinQuery
  <1>1. \/ emails[w.reason] >= 1
        \/ "action_required" \notin log /\ today - missed <= w.deadline - w.lead_days
    BY DEF WarningNotSkipped
  <1>2. /\ reference \in Int /\ reference' \in {reference, reference + 1}
        /\ shift \in Int /\ shift' = shift /\ missed \in Nat
    BY TimeGoesOn, PassAssumption DEF TypeOK
  <1>3. /\ today = reference + shift /\ today' = reference' + shift
        /\ today \in Int /\ today' \in Int /\ today' <= today + 1
    <2>1. reference' \in Int /\ reference' <= reference + 1
      BY <1>2
    <2>2. today = reference + shift /\ today' = reference' + shift
      BY <1>2 DEF today
    <2>3. today' <= today + 1
      BY <1>2, <2>1, <2>2, NextDay
    <2>4. today \in Int /\ today' \in Int
      BY <1>2, <2>1, <2>2
    <2>5. QED
      BY <2>2, <2>3, <2>4
  <1>4. /\ w.reason \in Messages /\ emails[w.reason] \in Nat
        /\ w.deadline \in Int /\ w.lead_days \in Nat
    BY WindowsByReason DEF Windows, Messages, TypeOK
  <1>5. CASE Pass
    <2>1. emails'[w.reason] = IF w.reason \in Said THEN emails[w.reason] + 1
                                                   ELSE emails[w.reason]
      BY <1>4, <1>5, PassMessages
    <2>2. missed' = 0
      BY <1>5 DEF Pass
    <2>3. CASE emails[w.reason] >= 1
      BY <1>4, <2>1, <2>3
    <2>4. CASE ~(emails[w.reason] >= 1)
      <3>1. \/ w.reason \in Said
            \/ "action_required" \notin log' /\ today < w.deadline - w.lead_days
        BY <1>1, <1>5, <2>4, WarnableAtPass
      <3>2. today < w.deadline - w.lead_days => today' - missed' <= w.deadline - w.lead_days
        BY <1>3, <1>4, <2>2
      <3>3. QED
        BY <1>4, <2>1, <3>1, <3>2
    <2>5. QED
      BY <2>3, <2>4
  <1>6. CASE PassMissed
    <2>1. UNCHANGED <<log, emails>> /\ today' = today + 1 /\ missed' = missed + 1
      BY <1>2, <1>6 DEF PassMissed, today
    <2>2. missed \in Int
      BY <1>2
    <2>3. today' - missed' = today - missed
      BY <1>3, <2>1, <2>2
    <2>4. \/ emails[w.reason] >= 1
          \/ "action_required" \notin log /\ today - missed <= w.deadline - w.lead_days
      BY <1>1
    <2>5. QED
      BY <2>1, <2>3, <2>4
  <1>7. CASE UNCHANGED vars
    BY <1>1, <1>7 DEF vars, today
  <1>8. QED
    BY <1>5, <1>6, <1>7 DEF Next

\* Unless more passes in a row are missed than a window has days, each family
\* writes before its window closes: the notice, the overdue reminder, and the
\* warning of the only deadline or of the first of two.
THEOREM InTimeTheorem == Spec => []EachFamilyInTime
  <1>1. PassInv /\ NothingSkipped /\ WarningNotSkipped => EachFamilyInTime
    <2> SUFFICES ASSUME PassInv, NothingSkipped, WarningNotSkipped PROVE EachFamilyInTime
      OBVIOUS
    <2>1. /\ today \in Int /\ Due \in Int /\ terms.reminder_days_before \in Nat
          /\ missed \in Nat /\ missed <= MaxMissed /\ MaxMissed \in Nat
          /\ OverdueReminderDays \in Nat /\ OverdueReminderWindowDays \in Nat
      <3>1. shift \in Int /\ reference \in Int /\ terms \in Terms
        BY PassAssumption, WindowAssumption DEF PassInv, TypeOK
      <3>2. today \in Int /\ Due \in Int
        BY <3>1, PassAssumption DEF today
      <3>3. missed \in 0 .. MaxMissed /\ terms.reminder_days_before \in 0 .. MaxReminderDays
        BY <3>1, PassAssumption DEF PassInv, TypeOK
      <3>4. QED
        BY <3>2, <3>3, PassAssumption, WindowAssumption
    <2>2. ASSUME born + shift <= Due - terms.reminder_days_before,
                 MaxMissed <= terms.reminder_days_before, today > Due
          PROVE  emails["notice"] + emails["trial"] >= 1
      BY <2>1, <2>2 DEF NothingSkipped, SaidInTime
    <2>3. ASSUME born + shift <= Due + OverdueReminderDays,
                 MaxMissed <= OverdueReminderWindowDays - OverdueReminderDays,
                 today > Due + OverdueReminderWindowDays
          PROVE  emails["overdue"] >= 1
      BY <2>1, <2>3 DEF NothingSkipped
    <2>4. ASSUME NEW w \in Windows, Warnable(w), today > w.deadline
          PROVE  emails[w.reason] >= 1
      <3>1. w.deadline \in Int /\ w.lead_days \in Nat
        BY WindowsByReason DEF Windows, PassInv
      <3>2. QED
        BY <2>1, <2>4, <3>1 DEF WarningNotSkipped, Warnable
    <2>5. QED
      BY <2>2, <2>3, <2>4
      DEF EachFamilyInTime, NoticeInTime, OverdueInTime, WarningInTime, Warnable
  <1>2. PassInv => TypeOK
    BY DEF PassInv
  <1>3. QED
    BY <1>1, <1>2, PassInvInit, PassInvStep, NothingSkippedInit, NothingSkippedStep,
       WarningNotSkippedInit, WarningNotSkippedStep, PTL DEF Spec
=============================================================================
