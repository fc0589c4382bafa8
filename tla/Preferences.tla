----------------------------- MODULE Preferences -----------------------------
(* The choices a phone keeps for itself (settings/preferences-store.ts): the  *)
(* type scale, wrapping, grid, pad, list grouping and defaults of the device, *)
(* and the maps of recency, pins, view modes and input modes of the panes of  *)
(* one computer, each stored under that computer's key.  A stored text is     *)
(* modelled by the value it spells, or "junk".                                *)
EXTENDS Naturals, FiniteSets

CONSTANTS OwnerScopes,       \* paired computers
          NoOwnerScope,      \* no credential: the key of "anon"
          PrefPanes,    \* pane names; two computers may use the same ones
          ModesTried,   \* the modes the reader chooses for a pane
          FontsTried,   \* the sizes a pinch or the menu asks for
          MaxEdits      \* bound: choices made in one behaviour

VARIABLES prefOwner,     \* the computer whose credential is in use
          record,    \* the device's own choices in memory
          maps,      \* the per-pane maps in memory
          disk,      \* stored texts of the device's choices
          diskMaps,  \* stored maps of every computer
          unsaved,   \* a pinch moved the type scale and has not settled
          listed,    \* the panes of the herd list
          desk,      \* wide layout at boot
          storageFull,  \* storage takes no more writes of the device's choices
          mapsBlocked,  \* ... of the maps
          edits, paneEdits

(* The device's choices and the panes' maps do not read each other: each is a *)
(* machine of its own.                                                        *)
deviceVars == <<record, disk, unsaved, desk, storageFull, edits>>
paneMapVars == <<prefOwner, maps, diskMaps, listed, mapsBlocked, paneEdits>>

TERM_FONT_MIN == 9
TERM_FONT_MAX == 22
TERM_COL_PRESETS == {80, 100, 120}
TERM_MODE_OPTIONS == {"auto", "guided", "full", "agent"}
None == "none"

(* What each stored text may spell, and what its loader makes of anything     *)
(* else.                                                                      *)
Spells ==
  [termFont |-> TERM_FONT_MIN .. TERM_FONT_MAX, termWrap |-> {"1", "0"},
   termFit |-> {"fit", "pan"}, termCols |-> TERM_COL_PRESETS,
   keysExpanded |-> {"1", "0"}, padKind |-> {"slash", "keys"},
   listGroup |-> {"flat", "space", "agent"},
   defaultTermMode |-> TERM_MODE_OPTIONS, defaultComposeLive |-> {"1", "0"}]

DeviceChoices == DOMAIN Spells

initialPreferences ==
  [termFont |-> 12, termWrap |-> "0", termFit |-> "pan", termCols |-> 80,
   keysExpanded |-> "0", padKind |-> "keys", listGroup |-> "flat",
   defaultTermMode |-> "auto", defaultComposeLive |-> "0"]

(* No text, and a text that spells no choice; Number(null) is 0.              *)
Numeric == {"termFont", "termCols"}
Unstored(c) == IF c \in Numeric THEN 0 ELSE None
Junk(c) == IF c \in Numeric THEN 999 ELSE "junk"

Loaded(c, text) ==
  IF text \in Spells[c] THEN text
  ELSE IF c = "termFont" /\ desk THEN 13
  ELSE initialPreferences[c]

clampTermFont(px) ==
  IF px < TERM_FONT_MIN THEN TERM_FONT_MIN
  ELSE IF px > TERM_FONT_MAX THEN TERM_FONT_MAX ELSE px

NoMaps == [touched |-> {}, pinned |-> {},
           modes |-> [p \in PrefPanes |-> None],
           live |-> [p \in PrefPanes |-> None]]

writeStorage(c, value) == disk' = IF storageFull THEN disk ELSE [disk EXCEPT ![c] = value]
SaveMaps(m) ==
  /\ maps' = m
  /\ diskMaps' = IF mapsBlocked THEN diskMaps ELSE [diskMaps EXCEPT ![prefOwner] = m]

(* At boot: the device's choices are loaded; the maps wait for a credential.  *)
DevicePrefInit ==
  /\ desk \in BOOLEAN /\ storageFull \in BOOLEAN
  /\ \E junk \in SUBSET {"termFont", "listGroup"} :
       disk = [c \in DeviceChoices |-> IF c \in junk THEN Junk(c) ELSE Unstored(c)]
  /\ record = [c \in DeviceChoices |-> Loaded(c, disk[c])]
  /\ unsaved = FALSE /\ edits = 0

PaneMapInit ==
  /\ mapsBlocked \in BOOLEAN
  /\ maps = NoMaps /\ prefOwner = NoOwnerScope
  /\ diskMaps = [s \in OwnerScopes \cup {NoOwnerScope} |-> NoMaps]
  /\ listed = {} /\ paneEdits = 0

Edit == edits < MaxEdits /\ edits' = edits + 1
-----------------------------------------------------------------------------
(* The device's choices: an equal choice returns before it writes.  Setting   *)
(* the type scale takes any size and clamps it.                               *)
SetChoice(c, value) ==
  /\ Edit
  /\ record[c] # value
  /\ record' = [record EXCEPT ![c] = value]
  /\ writeStorage(c, value)
  /\ unsaved' = (unsaved /\ c # "termFont")
  /\ UNCHANGED <<desk, storageFull>>

setTermFont(px) == SetChoice("termFont", clampTermFont(px))
setTermWrap == \E v \in Spells["termWrap"] : SetChoice("termWrap", v)
setKeysExpanded == \E v \in Spells["keysExpanded"] : SetChoice("keysExpanded", v)
setPadKind == \E v \in Spells["padKind"] : SetChoice("padKind", v)
setListGroup == \E v \in Spells["listGroup"] : SetChoice("listGroup", v)
setDefaultTermMode == \E v \in Spells["defaultTermMode"] : SetChoice("defaultTermMode", v)
setDefaultComposeLive ==
  \E v \in Spells["defaultComposeLive"] : SetChoice("defaultComposeLive", v)

(* Both halves of the grid are written when either changes.                   *)
setTermGrid(fit, cols) ==
  /\ Edit
  /\ <<record["termFit"], record["termCols"]>> # <<fit, cols>>
  /\ record' = [record EXCEPT !["termFit"] = fit, !["termCols"] = cols]
  /\ disk' = IF storageFull THEN disk ELSE [disk EXCEPT !["termFit"] = fit, !["termCols"] = cols]
  /\ UNCHANGED <<unsaved, desk, storageFull>>

(* A pinch moves the type scale without storing it; settling stores it.  A    *)
(* view that unmounts under the fingers never settles.                        *)
setTermFontPx(px) ==
  /\ Edit
  /\ record["termFont"] # clampTermFont(px)
  /\ record' = [record EXCEPT !["termFont"] = clampTermFont(px)]
  /\ unsaved' = TRUE
  /\ UNCHANGED <<disk, desk, storageFull>>

saveTermFont ==
  /\ unsaved
  /\ writeStorage("termFont", record["termFont"])
  /\ unsaved' = FALSE
  /\ UNCHANGED <<record, desk, storageFull, edits>>
-----------------------------------------------------------------------------
(* The page is loaded again: hydratePreferences reads what is stored.         *)
hydratePreferences ==
  /\ record' = [c \in DeviceChoices |-> Loaded(c, disk[c])]
  /\ unsaved' = FALSE
  /\ UNCHANGED <<disk, desk, storageFull, edits>>

DevicePrefNext ==
  \/ \E px \in FontsTried : setTermFont(px) \/ setTermFontPx(px)
  \/ setTermWrap \/ setKeysExpanded \/ setPadKind \/ setListGroup
  \/ setDefaultTermMode \/ setDefaultComposeLive \/ saveTermFont
  \/ \E fit \in Spells["termFit"], cols \in TERM_COL_PRESETS : setTermGrid(fit, cols)
  \/ hydratePreferences
-----------------------------------------------------------------------------
(* The panes' choices are made on a listed pane.                              *)
PaneChoice(p, m) ==
  /\ paneEdits < MaxEdits /\ paneEdits' = paneEdits + 1
  /\ p \in listed
  /\ SaveMaps(m)
  /\ UNCHANGED <<prefOwner, listed, mapsBlocked>>

rememberPane(p) == PaneChoice(p, [maps EXCEPT !.touched = @ \cup {p}])

togglePanePin(p) ==
  PaneChoice(p, [maps EXCEPT !.pinned = IF p \in @ THEN @ \ {p} ELSE @ \cup {p}])

setPaneTermMode(p, mode) ==
  maps.modes[p] # mode /\ PaneChoice(p, [maps EXCEPT !.modes[p] = mode])

setPaneComposeLive(p, live) ==
  maps.live[p] # live /\ PaneChoice(p, [maps EXCEPT !.live[p] = live])

(* A snapshot lists panes: the choices of panes that are gone are dropped     *)
(* (unless it lists none), a mode "auto" with them, and panes that are new or *)
(* changed their status are the latest touched.                               *)
prunePanePreferences(m, panes) ==
  [m EXCEPT !.modes = [p \in PrefPanes |-> IF p \in panes /\ @[p] # "auto" THEN @[p] ELSE None],
            !.live = [p \in PrefPanes |-> IF p \in panes THEN @[p] ELSE None]]

prunePanePins(m, panes) == [m EXCEPT !.pinned = @ \cap panes]

nextTouchedAt(panes, changed) ==
  (maps.touched \cap panes) \cup (panes \ listed) \cup changed

applySnapshot(panes, changed) ==
  LET kept == IF panes = {} THEN maps
              ELSE prunePanePins(prunePanePreferences(maps, panes), panes)
  IN /\ prefOwner # NoOwnerScope
     /\ <<listed, maps>> # <<panes, [kept EXCEPT !.touched = nextTouchedAt(panes, changed)]>>
     /\ changed \subseteq panes \cap listed
     /\ SaveMaps([kept EXCEPT !.touched = nextTouchedAt(panes, changed)])
     /\ listed' = panes
     /\ UNCHANGED <<prefOwner, mapsBlocked, paneEdits>>

(* establish: in one batch the herd is cleared, the credential replaced and   *)
(* the maps of the new computer loaded.                                       *)
\* Mutant: the maps are loaded under the key of the computer that is left.
MutAdoptDaemonPreferences(s) == maps' = diskMaps[prefOwner]
adoptDaemonPreferences(s) == maps' = diskMaps[s]

AdoptComputer(s) ==
  /\ listed' = {} /\ prefOwner' = s
  /\ adoptDaemonPreferences(s)
  /\ UNCHANGED <<diskMaps, mapsBlocked, paneEdits>>

(* The credential is forgotten: the maps stay in memory with nothing to show. *)
ForgetOwner ==
  /\ prefOwner # NoOwnerScope
  /\ prefOwner' = NoOwnerScope /\ listed' = {}
  /\ UNCHANGED <<maps, diskMaps, mapsBlocked, paneEdits>>

(* The page is loaded again without a credential yet.                         *)
ReloadPage ==
  /\ maps' = NoMaps /\ prefOwner' = NoOwnerScope /\ listed' = {}
  /\ UNCHANGED <<diskMaps, mapsBlocked, paneEdits>>

PaneMapNext ==
  \/ \E p \in PrefPanes :
       \/ rememberPane(p) \/ togglePanePin(p)
       \/ \E mode \in ModesTried : setPaneTermMode(p, mode)
       \/ \E live \in {"0", "1"} : setPaneComposeLive(p, live)
  \/ \E panes, changed \in SUBSET PrefPanes : applySnapshot(panes, changed)
  \/ \E s \in OwnerScopes : AdoptComputer(s)
  \/ ForgetOwner \/ ReloadPage
-----------------------------------------------------------------------------
(* Once a choice is on the screen the next load of the page shows the same:   *)
(* the device's choices read back from storage as they are, a pinch that has  *)
(* not settled aside.                                                         *)
ChoicesSurviveReload ==
  ~ storageFull => \A c \in DeviceChoices :
    record[c] = Loaded(c, disk[c]) \/ (c = "termFont" /\ unsaved)

(* The maps in use are those stored for the computer on the screen, whatever  *)
(* computers were visited in between ("Every daemon-scoped map persists under *)
(* the connected computer's key").                                            *)
MapsAreTheComputers ==
  ~ mapsBlocked /\ prefOwner # NoOwnerScope => maps = diskMaps[prefOwner]

(* A computer's stored maps are only written while it is the one on the       *)
(* screen ("a choice about one computer never leaks to another").             *)
OwnMapsOnly == \A s \in OwnerScopes : diskMaps'[s] # diskMaps[s] => prefOwner = s /\ prefOwner' = s

(* Nothing is remembered of a pane the herd has dropped.                      *)
GonePanesAreForgotten ==
  prefOwner # NoOwnerScope /\ listed # {} =>
    maps.touched \cup maps.pinned
      \cup {p \in PrefPanes : maps.modes[p] # None \/ maps.live[p] # None} \subseteq listed
=============================================================================
