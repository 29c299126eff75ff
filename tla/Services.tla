------------------------------ MODULE Services ------------------------------
(***************************************************************************)
(* Six parts of the application that share no state, each with the actors  *)
(* that contend for its rows.  A behaviour is the behaviour of one of      *)
(* them, named by served, while the others stay as they started.           *)
(***************************************************************************)
EXTENDS Integers, FiniteSets

CONSTANTS
    None,
    Requests,                                       \* of every part but the ceiling
    Ids, Overlapping, MaxPerType, RestoreFactor, MaxBatch,              \* ceiling
    Addresses, Home, Opening, Wrong, MaxAttempts, MaxResends,           \* codes
        CodeLife, Hour, LastTick, MaxCuts,
    MaxLoginAttempts, LoginWindow, LastLogin,                           \* logins
    Picture, MaxMishaps,                                                \* avatars
    Owners, Endpoints, Limit, MaxCalls, MaxFaults, Job,                 \* devices
    Accounts, WeekLength, LastDay, MaxFailures, MaxCrashes, MaxEdits    \* digest

VARIABLES
    served,
    place, entry, overlapped,
    now, user, tries, rowLock, tryLock, request, cuts,
        mailed, astray, issuedAt, guessed, beside, proof, regained, uncounted,
    clock, account, login, failed, missed,
    owner, holder, files, errand, mishaps, spoiled, strays,
    tick, rows, locked, call, job, dead, stamped, faults, wanted, arrivals, crossed, slack,
    today, due, reader, digests, run, failures, crashes, edits, posted, unmarked

Race == INSTANCE CeilingRace WITH request <- entry, Requests <- Overlapping
OneTime == INSTANCE Codes
Lockout == INSTANCE Logins WITH LastTick <- LastLogin
Photos == INSTANCE Avatars
Pushes == INSTANCE Devices
Digest == INSTANCE WeeklyDigest

ASSUME ServicesAssumption ==
    /\ Race!RaceConstants /\ OneTime!CodesConstants /\ Lockout!LoginsConstants
    /\ Photos!AvatarsConstants /\ Pushes!DevicesConstants /\ Digest!DigestConstants

raceVars == <<place, entry, overlapped>>
codesVars == <<now, user, tries, rowLock, tryLock, request, cuts,
               mailed, astray, issuedAt, guessed, beside, proof, regained, uncounted>>
loginVars == <<clock, account, login, failed, missed>>
avatarVars == <<owner, holder, files, errand, mishaps, spoiled, strays>>
devicesVars == <<tick, rows, locked, call, job, dead, stamped, faults,
                 wanted, arrivals, crossed, slack>>
digestVars == <<today, due, reader, digests, run, failures, crashes, edits, posted, unmarked>>
vars == <<served, raceVars, codesVars, loginVars, avatarVars, devicesVars, digestVars>>

\* A part that is not served has no state.
NoRace == /\ place = None /\ entry = None /\ overlapped = None
NoCodes == /\ now = None /\ user = None /\ tries = None /\ rowLock = None
           /\ tryLock = None /\ request = None /\ cuts = None /\ mailed = None
           /\ astray = None /\ issuedAt = None /\ guessed = None /\ beside = None /\ proof = None
           /\ regained = None /\ uncounted = None
NoLogin == /\ clock = None /\ account = None /\ login = None /\ failed = None
           /\ missed = None
NoAvatar == /\ owner = None /\ holder = None /\ files = None /\ errand = None
            /\ mishaps = None /\ spoiled = None /\ strays = None
NoDevices == /\ tick = None /\ rows = None /\ locked = None /\ call = None
             /\ job = None /\ dead = None /\ stamped = None /\ faults = None
             /\ wanted = None /\ arrivals = None /\ crossed = None /\ slack = None
NoDigest == /\ today = None /\ due = None /\ reader = None /\ digests = None
            /\ run = None /\ failures = None /\ crashes = None /\ edits = None
            /\ posted = None /\ unmarked = None

Init ==
    \/ /\ served = "ceiling" /\ Race!Init
       /\ NoCodes /\ NoLogin /\ NoAvatar /\ NoDevices /\ NoDigest
    \/ /\ served = "codes" /\ OneTime!Init
       /\ NoRace /\ NoLogin /\ NoAvatar /\ NoDevices /\ NoDigest
    \/ /\ served = "logins" /\ Lockout!Init
       /\ NoRace /\ NoCodes /\ NoAvatar /\ NoDevices /\ NoDigest
    \/ /\ served = "avatars" /\ Photos!Init
       /\ NoRace /\ NoCodes /\ NoLogin /\ NoDevices /\ NoDigest
    \/ /\ served = "devices" /\ Pushes!Init
       /\ NoRace /\ NoCodes /\ NoLogin /\ NoAvatar /\ NoDigest
    \/ /\ served = "digest" /\ Digest!Init
       /\ NoRace /\ NoCodes /\ NoLogin /\ NoAvatar /\ NoDevices

Next ==
    /\ UNCHANGED served
    /\ \/ /\ served = "ceiling" /\ Race!Next
          /\ UNCHANGED <<codesVars, loginVars, avatarVars, devicesVars, digestVars>>
       \/ /\ served = "codes" /\ OneTime!Next
          /\ UNCHANGED <<raceVars, loginVars, avatarVars, devicesVars, digestVars>>
       \/ /\ served = "logins" /\ Lockout!Next
          /\ UNCHANGED <<raceVars, codesVars, avatarVars, devicesVars, digestVars>>
       \/ /\ served = "avatars" /\ Photos!Next
          /\ UNCHANGED <<raceVars, codesVars, loginVars, devicesVars, digestVars>>
       \/ /\ served = "devices" /\ Pushes!Next
          /\ UNCHANGED <<raceVars, codesVars, loginVars, avatarVars, digestVars>>
       \/ /\ served = "digest" /\ Digest!Next
          /\ UNCHANGED <<raceVars, codesVars, loginVars, avatarVars, devicesVars>>

Spec == Init /\ [][Next]_vars

-----------------------------------------------------------------------------
(* What each part promises, as its module states it.                       *)

\* The ceiling: what overlapping requests may add to a population is bounded.
OvershootIsBounded == served = "ceiling" => Race!OvershootIsBounded

\* The ceiling: a request that nothing overlaps keeps to it.
OnlyOverlapExceeds == [][served = "ceiling" => Race!AloneKeepsToItsLimit]_vars

\* Codes: an address of the account is one that its code was mailed to.
AddressIsProved == served = "codes" => OneTime!AddressIsProved

\* Codes: no code is compared more often than its tries allow.
TriesAreSpent == served = "codes" => OneTime!TriesAreSpent

\* Codes: no hour has more of them than the limit.
ResendsAreCapped == served = "codes" => OneTime!ResendsAreCapped

\* Codes: what the account holds is a code that was mailed where it should.
StoredCodeWasMailed == served = "codes" => OneTime!StoredCodeWasMailed

\* Codes: issuing and confirming may wait for each other, and nothing else.
DeadlocksAreOfAKind == served = "codes" => OneTime!DeadlocksAreOfAKind

\* Logins: no window has more failures than the limit.
LockoutHolds == served = "logins" => Lockout!LockoutHolds

\* Avatars: the photo that is shown exists.
AvatarIsThere == served = "avatars" => Photos!AvatarIsThere

\* Avatars: no file outlives its use unnoticed.
NothingLeftBehind == served = "avatars" => Photos!NothingLeftBehind

\* Devices: an account keeps to its limit.
LimitHolds == served = "devices" => Pushes!LimitHolds

\* Devices: the ones that came last are those that are kept.
NewestAreKept == served = "devices" => Pushes!NewestAreKept

\* Weekly digest: one a week.
OncePerWeek == served = "digest" => Digest!OncePerWeek
=============================================================================
