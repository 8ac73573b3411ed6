------------------------------- MODULE Launcher -------------------------------
(***************************************************************************)
(* The application launcher (src/kernel/wal.c, the Window and Application  *)
(* Launcher, not the write-ahead log): a menu over the applications linked *)
(* into the image, its scrolling window, the search with tolerance for     *)
(* typing errors, and the focus that decides who gets the keys.            *)
(*                                                                         *)
(* Applications are numbered from 0 as in the code; -1 means the menu has  *)
(* the focus.  A registry entry may be empty (NoApp).                      *)
(***************************************************************************)
EXTENDS Integers, FiniteSets, SequencesExt

(* The distance the launcher ranks applications by                         *)
(* (wal_levenshtein_distance): two rows of a table, and letters compared   *)
(* without their case.                                                     *)

CONSTANTS
  Letters,   (* characters of names and searches                           *)
  Lower,     (* Lower[c]: c as a small letter                              *)
  Window,    (* characters of each string that are looked at, 32           *)
  Farthest   (* min_dist before the first comparison, 999                  *)

ASSUME LetterAssumption ==
  /\ Lower \in [Letters -> Letters]
  /\ \A c \in Letters : Lower[Lower[c]] = Lower[c]
  /\ Window \in Nat /\ Farthest \in Nat /\ Window < Farthest

Seen(s) == SubSeq(s, 1, Min({Len(s), Window}))

(* Mutant: letters are compared with their case. *)
MutCost(c, d) == IF c = d THEN 0 ELSE 1

Cost(c, d) == IF Lower[c] = Lower[d] THEN 0 ELSE 1

(* The next row of the table: row[j] is the distance between the           *)
(* characters of one string up to c and the first j of t.                  *)
NextRow(prev, c, t) ==
  LET row[j \in 0 .. Len(t)] ==
        IF j = 0 THEN prev[0] + 1
        ELSE Min({prev[j] + 1, row[j - 1] + 1, prev[j - 1] + Cost(c, t[j])})
  IN  row

FirstRow(t) == [j \in 0 .. Len(t) |-> j]

(* The early returns for an empty string give what the table would. *)
Distance(s1, s2) ==
  LET s == Seen(s1)
      t == Seen(s2)
      dp[i \in 0 .. Len(s)] ==
        IF i = 0 THEN FirstRow(t) ELSE NextRow(dp[i - 1], s[i], t)
  IN  dp[Len(s)][Len(t)]

-------------------------------------------------------------------------------
(* What the distance is meant to be.  An alignment f of the first i        *)
(* characters of s with the first j of t pairs character a of s with       *)
(* character f[a] of t, in order, or leaves it alone (0); it costs one     *)
(* edit for each pair that differs and one for each character left alone.  *)
(* The edit distance is the cost of the cheapest alignment.                *)

Alignments(i, j) ==
  {f \in [1 .. i -> 0 .. j] :
     \A a, b \in 1 .. i : a < b /\ f[a] # 0 /\ f[b] # 0 => f[a] < f[b]}

Edited(s, t, i, f) == {a \in 1 .. i : f[a] = 0 \/ Lower[s[a]] # Lower[t[f[a]]]}

LeftAlone(i, j, f) == {b \in 1 .. j : \A a \in 1 .. i : f[a] # b}

AlignmentCost(s, t, i, j, f) ==
  Cardinality(Edited(s, t, i, f)) + Cardinality(LeftAlone(i, j, f))

EditDistance(s, t) ==
  Min({AlignmentCost(s, t, Len(s), Len(t), f) : f \in Alignments(Len(s), Len(t))})

-------------------------------------------------------------------------------

CONSTANTS
  Registry,    (* the names in link order, a sequence                      *)
  NoApp,       (* a null entry of the registry                             *)
  PageSize,    (* LAUNCHER_PAGE_SIZE, 10 in the code                       *)
  SearchMax    (* characters search_buffer holds, 31 in the code           *)

ASSUME LauncherAssumption ==
  /\ PageSize \in Nat \ {0}
  /\ SearchMax \in Nat
  /\ Registry \in Seq(Seq(Letters) \cup {NoApp})

AppCount == Len(Registry)

Apps == 0 .. AppCount - 1

Name(a) == Registry[a + 1]

VARIABLES
  focused,     (* focused_app_idx                                          *)
  selected,    (* selected_menu_idx                                        *)
  page,        (* page_offset: the first row shown                         *)
  search,      (* search_buffer[0 .. search_len)                           *)
  delivered    (* the application that got the last key, or -1             *)

menuVars == <<focused, selected, page, search, delivered>>

MenuInit ==
  /\ focused = -1
  /\ selected = 0
  /\ page = 0
  /\ search = <<>>
  /\ delivered = -1

-------------------------------------------------------------------------------
(* The window over the list follows the selection.                         *)

(* Mutant: scrolling down puts the selection on the first row. *)
MutScrolledPage(from, sel) ==
  IF sel >= from + PageSize \/ sel < from THEN sel ELSE from

Scrolled(from, sel) ==
  IF sel >= from + PageSize THEN sel - PageSize + 1
  ELSE IF sel < from THEN sel
  ELSE from

Select(sel) == selected' = sel /\ page' = Scrolled(page, sel)

(* search_find_best_match: the loop over the entries keeps the first of    *)
(* the nearest names, and entry 0 when there is none.                      *)
Best(text) ==
  LET best[n \in 0 .. AppCount] ==
        LET a      == n - 1
            nearer == /\ Name(a) # NoApp
                      /\ Distance(text, Name(a)) < best[n - 1].distance
        IN  IF n = 0 THEN [app |-> 0, distance |-> Farthest]
            ELSE IF nearer THEN [app |-> a, distance |-> Distance(text, Name(a))]
            ELSE best[n - 1]
  IN  best[AppCount].app

Find(text) ==
  /\ search' = text
  /\ IF text = <<>> \/ AppCount = 0
     THEN UNCHANGED <<selected, page>>
     ELSE Select(Best(text))

-------------------------------------------------------------------------------
(* Keys while an application has the focus.                                *)

Leave ==
  /\ focused # -1
  /\ focused' = -1
  /\ search' = <<>>
  /\ delivered' = -1
  /\ UNCHANGED <<selected, page>>

(* Any other key goes to the application, if the entry is not empty. *)
Deliver ==
  /\ focused # -1
  /\ delivered' = IF Name(focused) = NoApp THEN -1 ELSE focused
  /\ UNCHANGED <<focused, selected, page, search>>

-------------------------------------------------------------------------------
(* Keys at the menu.                                                       *)

AtMenu == focused = -1 /\ delivered' = -1

Up ==
  /\ AtMenu
  /\ selected > 0
  /\ Select(selected - 1)
  /\ UNCHANGED <<focused, search>>

Down ==
  /\ AtMenu
  /\ selected < AppCount - 1
  /\ Select(selected + 1)
  /\ UNCHANGED <<focused, search>>

Enter ==
  /\ AtMenu
  /\ selected \in Apps
  /\ focused' = selected
  /\ UNCHANGED <<selected, page, search>>

Backspace ==
  /\ AtMenu
  /\ search # <<>>
  /\ Find(SubSeq(search, 1, Len(search) - 1))
  /\ UNCHANGED focused

TypeLetter(c) ==
  /\ AtMenu
  /\ Len(search) < SearchMax
  /\ Find(Append(search, c))
  /\ UNCHANGED focused

MenuNext ==
  \/ Leave \/ Deliver
  \/ Up \/ Down \/ Enter \/ Backspace
  \/ \E c \in Letters : TypeLetter(c)

MenuSpec == MenuInit /\ [][MenuNext]_menuVars

-------------------------------------------------------------------------------
(* After any mixture of arrows, searches and visits to applications, the   *)
(* selected entry is one of the rows drawn, and no row is blank while an   *)
(* entry above the window is hidden (wal.c:120-124, 144-157, 211-216).     *)
WindowShowsSelection ==
  /\ page <= selected /\ selected < page + PageSize
  /\ page > 0 => page + PageSize <= AppCount

(* While the user types, the entry selected is the one nearest in edits to *)
(* the text, the first of equals, and an empty entry of the registry is    *)
(* passed over (wal.c:101-125).                                            *)
SearchFindsNearest ==
  [][search' # search /\ search' # <<>> =>
       \A a \in Apps : Name(a) # NoApp =>
         LET found == EditDistance(search', Name(selected'))
             other == EditDistance(search', Name(a))
         IN  /\ Name(selected') # NoApp
             /\ found < other \/ (found = other /\ selected' <= a)]_menuVars
===============================================================================
