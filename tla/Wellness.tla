------------------------------- MODULE Wellness -------------------------------
(***************************************************************************)
(* The digital wellness of one user: the settings that a web page and a    *)
(* phone save, the minutes that the tabs report, and the limits of the     *)
(* user and of his guardians, statement by statement.                      *)
(* Source: apps/api/src/modules/wellness, apps/web wellness/page.tsx and   *)
(* WellnessOverlay.tsx, apps/mobile wellness.tsx, migration 005.           *)
(*                                                                         *)
(* Of the settings, the two limits and the timer are kept: the others are  *)
(* saved with them and read by nothing.  Time is counted in ticks of a     *)
(* minute.                                                                 *)
(***************************************************************************)
EXTENDS Integers, FiniteSets, Functions

CONSTANTS Tabs, Guardians,
          Limits,       \* the limits that are set, in minutes; 0 is none
          Back,         \* how far the weekly sum reaches back: 7 days in the code
          MaxDay,       \* bound of the clock
          MaxTicks,     \* bound of the reports
          MaxSaves,     \* bound of what users and guardians set
          MaxLosses     \* bound of the calls that fail

ASSUME WellnessAssumption ==
    /\ {Back, MaxDay, MaxTicks, MaxSaves, MaxLosses} \subseteq Nat
    /\ Limits \subseteq Nat /\ 0 \in Limits

VARIABLES
    settings,   \* the row of user_wellness; a function without domain if there is none
    minutes,    \* minutes[d]: session_logs of day d, 0 if there is no row
    parental,   \* parental[g]: the row of guardian g, with limit 0 if there is none
    today,
    overlay,    \* the tabs whose overlay has loaded settings with the timer on
    tick,       \* tick[t]: the report of tab t under way
    screen,     \* the page of the web: what it shows and what was edited on it
    save,       \* save[x]: the save of device x under way
    ticks, saves, losses,
    asked,      \* history: asked[f]: the value last stored for an edit of f
    editedAt,   \* history: when that was, counted in edits
    edits,
    stale,      \* history: fields that a page older than their edit has overwritten
    spent,      \* history: the minutes of each day
    limits,     \* history: limits[d]: the limits known to the last tick that counted
    cut,        \* history: days one of whose ticks did not end on that day
    told        \* history: told[d]: the warnings of the ticks of day d

rows == <<settings, minutes, parental>>
past == <<asked, editedAt, edits, stale>>
days == <<spent, limits, cut, told>>
wellness == <<rows, today, overlay, tick, screen, save, ticks, saves, losses, past, days>>

Fields == {"daily", "weekly", "timer"}
Devices == {"web", "phone"}
Values(f) == IF f = "timer" THEN 0 .. 1 ELSE Limits
Days == 0 .. MaxDay
Defaults == [f \in Fields |-> IF f = "timer" THEN 1 ELSE 0]
NoRow == [f \in {} |-> 0]
NoTick == [at |-> "idle", daily |-> 0, weekly |-> 0, day |-> 0, used |-> 0, sum |-> 0]
NoSave == [at |-> "idle", vals |-> NoRow, edited |-> {}, base |-> 0]

WellnessInit ==
    /\ settings = NoRow /\ minutes = [d \in Days |-> 0]
    /\ parental = [g \in Guardians |-> [limit |-> 0, enabled |-> FALSE]]
    /\ today = 0 /\ overlay = {} /\ tick = [t \in Tabs |-> NoTick]
    /\ screen = [vals |-> NoRow, edited |-> {}, base |-> 0]
    /\ save = [x \in Devices |-> NoSave] /\ ticks = 0 /\ saves = 0 /\ losses = 0
    /\ asked = Defaults /\ editedAt = [f \in Fields |-> 0] /\ edits = 0 /\ stale = {}
    /\ spent = [d \in Days |-> 0] /\ limits = [d \in Days |-> Defaults]
    /\ cut = {} /\ told = [d \in Days |-> {}]

----------------------------------------------------------------------------
(* Settings                                                                *)

GetSettings == IF settings = NoRow THEN Defaults ELSE settings
Set == saves < MaxSaves /\ saves' = saves + 1
Lose == losses < MaxLosses /\ losses' = losses + 1

\* The page of the web loads once, and shows nothing before.
LoadPage ==
    /\ screen.vals = NoRow
    /\ screen' = [vals |-> GetSettings, edited |-> {}, base |-> edits]
    /\ UNCHANGED <<rows, today, overlay, tick, save, ticks, saves, losses, past, days>>

Send(x, vals, edited, base) ==
    /\ Set /\ save[x].at = "idle"
    /\ save' = [save EXCEPT ![x] = [at |-> "look", vals |-> vals, edited |-> edited,
                                    base |-> base]]

\* A field of the page is edited, and the page sends all it shows.
Save ==
    /\ screen.vals # NoRow
    /\ \E f \in Fields : \E v \in Values(f) \ {screen.vals[f]} :
          LET shown == [screen.vals EXCEPT ![f] = v] IN
          /\ Send("web", shown, screen.edited \cup {f}, screen.base)
          /\ screen' = [screen EXCEPT !.vals = shown, !.edited = {}]
    /\ UNCHANGED <<rows, today, overlay, tick, ticks, losses, past, days>>

\* The phone sends the field that was touched.
Toggle ==
    /\ \E f \in {"daily", "timer"} : \E v \in Values(f) :
          Send("phone", [g \in {f} |-> v], {f}, edits)
    /\ UNCHANGED <<rows, today, overlay, tick, screen, ticks, losses, past, days>>

\* updateSettings: is there a row?
LookForRow(x) ==
    /\ save[x].at = "look"
    /\ save' = [save EXCEPT ![x].at = IF settings = NoRow THEN "insert" ELSE "update"]
    /\ UNCHANGED <<rows, today, overlay, tick, screen, ticks, saves, losses, past, days>>

\* The columns that are not named get their defaults, or stay.
\* Mutant: what is not named gets its default in both.
WrittenWithDefaults(x) == [f \in Fields |-> IF f \in DOMAIN save[x].vals THEN save[x].vals[f]
                                            ELSE Defaults[f]]
Written(x) == [f \in Fields |-> IF f \in DOMAIN save[x].vals THEN save[x].vals[f]
                                ELSE GetSettings[f]]

\* A save that fails is shown by the phone and logged by the page, which keeps
\* what was edited.
Unsaved(x) ==
    /\ save' = [save EXCEPT ![x] = NoSave]
    /\ screen' = IF x = "web" THEN [screen EXCEPT !.edited = @ \cup save[x].edited] ELSE screen
    /\ UNCHANGED <<rows, past>>

\* The INSERT fails on a row that has come meanwhile: user_did is the key.
WriteSettings(x) ==
    LET r == save[x] IN
    /\ r.at \in {"insert", "update"}
    /\ IF r.at = "insert" /\ settings # NoRow THEN Unsaved(x)
       ELSE /\ settings' = Written(x)
            /\ save' = [save EXCEPT ![x] = NoSave]
            /\ edits' = edits + 1
            /\ editedAt' = [f \in Fields |-> IF f \in r.edited THEN edits + 1 ELSE editedAt[f]]
            /\ asked' = [f \in Fields |-> IF f \in r.edited THEN r.vals[f] ELSE asked[f]]
            /\ stale' = (stale \ r.edited)
                        \cup {f \in DOMAIN r.vals \ r.edited :
                                   editedAt[f] > r.base /\ r.vals[f] # asked[f]}
            /\ UNCHANGED <<minutes, parental, screen>>
    /\ UNCHANGED <<today, overlay, tick, ticks, saves, losses, days>>

SaveFails(x) ==
    /\ save[x].at # "idle" /\ Lose /\ Unsaved(x)
    /\ UNCHANGED <<today, overlay, tick, ticks, saves, days>>

\* setParentalControls: one upsert.
SetParentalControls(g) ==
    /\ Set
    /\ \E n \in Limits \ {0}, b \in BOOLEAN :
          parental' = [parental EXCEPT ![g] = [limit |-> n, enabled |-> b]]
    /\ UNCHANGED <<settings, minutes, today, overlay, tick, screen, save, ticks, losses, past, days>>

----------------------------------------------------------------------------
(* Minutes                                                                 *)

\* The overlay of a tab loads the settings once; without a timer it does not
\* report.
Mount(t) ==
    /\ t \notin overlay /\ GetSettings["timer"] = 1
    /\ overlay' = overlay \cup {t}
    /\ UNCHANGED <<rows, today, tick, screen, save, ticks, saves, losses, past, days>>

StartTick(t) ==
    /\ ticks < MaxTicks /\ ticks' = ticks + 1 /\ t \in overlay /\ tick[t].at = "idle"
    /\ tick' = [tick EXCEPT ![t].at = "settings"]
    /\ UNCHANGED <<rows, today, overlay, screen, save, saves, losses, past, days>>

ReadSettings(t) ==
    /\ tick[t].at = "settings"
    /\ tick' = [tick EXCEPT ![t].at = "log", ![t].daily = GetSettings["daily"],
                            ![t].weekly = GetSettings["weekly"]]
    /\ UNCHANGED <<rows, today, overlay, screen, save, ticks, saves, losses, past, days>>

\* Mutant: the second tick of a day replaces the first.
AddedOnce(d) == [minutes EXCEPT ![d] = 1]
Added(d) == [minutes EXCEPT ![d] = @ + 1]

\* The upsert, on the day of the statement.
LogSession(t) ==
    /\ tick[t].at = "log"
    /\ tick' = [tick EXCEPT ![t].at = "today", ![t].day = today]
    /\ minutes' = Added(today)
    /\ spent' = [spent EXCEPT ![today] = @ + 1]
    /\ limits' = [limits EXCEPT ![today].daily = tick[t].daily, ![today].weekly = tick[t].weekly]
    /\ UNCHANGED <<settings, parental, today, overlay, screen, save, ticks, saves, losses, past, cut, told>>

\* day >= CURRENT_DATE - 7 days: eight days.
Window(d) == {e \in Days : d - Back <= e /\ e <= d}
Total(count) == FoldFunction(LAMBDA x, y : x + y, 0, count)
Sum(count, d) == Total([e \in Window(d) |-> count[e]])

ReadToday(t) ==
    /\ tick[t].at = "today"
    /\ tick' = [tick EXCEPT ![t].at = "week", ![t].used = minutes[today]]
    /\ UNCHANGED <<rows, today, overlay, screen, save, ticks, saves, losses, past, days>>

ReadWeek(t) ==
    /\ tick[t].at = "week"
    /\ tick' = [tick EXCEPT ![t].at = "parent", ![t].sum = Sum(minutes, today)]
    /\ UNCHANGED <<rows, today, overlay, screen, save, ticks, saves, losses, past, days>>

\* Mutant: the weekly limit is asked only of who has no daily one.
ExceededOneLimit(r, caps) ==
    IF \E n \in caps : r.used >= n THEN "hard"
    ELSE IF r.daily # 0 THEN (IF r.used >= r.daily THEN "daily" ELSE "none")
    ELSE IF r.weekly # 0 /\ r.sum >= r.weekly THEN "weekly"
    ELSE "none"
\* A cap of a guardian, the daily limit, the weekly limit: the first that is
\* reached is told.
Exceeded(r, caps) ==
    IF \E n \in caps : r.used >= n THEN "hard"
    ELSE IF r.daily # 0 /\ r.used >= r.daily THEN "daily"
    ELSE IF r.weekly # 0 /\ r.sum >= r.weekly THEN "weekly"
    ELSE "none"

\* LIMIT 1 without an order: any enabled row, if there is one.
Caps == IF \E g \in Guardians : parental[g].enabled
        THEN {{parental[g].limit} : g \in {h \in Guardians : parental[h].enabled}}
        ELSE {{}}

\* The last statement, and the answer; the overlay shows what it says and, of a
\* hard one too, no more than that.
EndTick(t) ==
    LET r == tick[t] IN
    /\ r.at = "parent"
    /\ \E caps \in Caps : told' = [told EXCEPT ![r.day] = @ \cup {Exceeded(r, caps)}]
    /\ cut' = IF r.day = today THEN cut ELSE cut \cup {r.day}
    /\ tick' = [tick EXCEPT ![t] = NoTick]
    /\ UNCHANGED <<rows, today, overlay, screen, save, ticks, saves, losses, past, spent, limits>>

TickFails(t) ==
    /\ tick[t].at # "idle" /\ Lose
    /\ cut' = IF tick[t].at \in {"settings", "log"} THEN cut ELSE cut \cup {tick[t].day}
    /\ tick' = [tick EXCEPT ![t] = NoTick]
    /\ UNCHANGED <<rows, today, overlay, screen, save, ticks, saves, past, spent, limits, told>>

Midnight ==
    /\ today < MaxDay /\ today' = today + 1
    /\ UNCHANGED <<rows, overlay, tick, screen, save, ticks, saves, losses, past, days>>

WellnessNext ==
    \/ LoadPage \/ Save \/ Toggle \/ Midnight
    \/ \E x \in Devices : LookForRow(x) \/ WriteSettings(x) \/ SaveFails(x)
    \/ \E g \in Guardians : SetParentalControls(g)
    \/ \E t \in Tabs : \/ Mount(t) \/ StartTick(t) \/ ReadSettings(t) \/ LogSession(t)
                       \/ ReadToday(t) \/ ReadWeek(t) \/ EndTick(t) \/ TickFails(t)

WellnessSpec == WellnessInit /\ [][WellnessNext]_wellness

----------------------------------------------------------------------------
(* Properties                                                              *)

\* Rows and calls have the fields the code gives them.
WellnessTypeOK ==
    /\ settings = NoRow \/ (DOMAIN settings = Fields /\ \A f \in Fields : settings[f] \in Values(f))
    /\ minutes \in [Days -> 0 .. MaxTicks] /\ today \in Days /\ overlay \subseteq Tabs
    /\ \A g \in Guardians : parental[g].limit \in Limits /\ parental[g].enabled \in BOOLEAN
    /\ \A t \in Tabs : tick[t].at \in {"idle", "settings", "log", "today", "week", "parent"}
    /\ \A x \in Devices : save[x].at \in {"idle", "look", "insert", "update"}
    /\ stale \subseteq Fields /\ cut \subseteq Days

\* A setting has the value somebody chose last, whichever device saved what
\* since, unless a page that was loaded before that choice has saved over it;
\* a first save that meets another is refused and takes nothing with it.
EditsStay == \A f \in Fields : GetSettings[f] # asked[f] => f \in stale

\* Once the ticks of a day are answered, and none of them was cut off by a
\* failure or by midnight, a user at the daily limit that the last tick knew was
\* told, and a user at the weekly one was told something: no two ticks that
\* overlap both miss the minute that crosses the limit.
LimitsAreTold ==
    \A d \in Days \ cut :
        (\A t \in Tabs : tick[t].at \in {"idle", "settings", "log"} \/ tick[t].day # d)
        => /\ limits[d].daily # 0 /\ spent[d] >= limits[d].daily
              => told[d] \cap {"daily", "hard"} # {}
           /\ spent[d] # 0 /\ limits[d].weekly # 0 /\ Sum(spent, d) >= limits[d].weekly
              => told[d] \ {"none"} # {}

WellnessInv == WellnessTypeOK /\ EditsStay /\ LimitsAreTold
=============================================================================
