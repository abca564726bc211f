----------------------------- MODULE BrowserPage -----------------------------
(***************************************************************************)
(* The browser server itself: the JavaScript that browser/phantomjs and    *)
(* browser/slimerjs hand to their browser (JSCodeTemplate), in which the   *)
(* line-oriented interface walks from element to element of a page.  It    *)
(* knows elements by their descriptors only, and looks for the descriptor  *)
(* again at every step, while the page may change under its feet.          *)
(***************************************************************************)
EXTENDS Integers, Sequences, FiniteSetsExt

CONSTANTS
  Pages,            \* pages: sequences of elements, in the order of the walk
  Jumps             \* how far "nn" may jump

VARIABLES
  opened,           \* browser: the page object exists
  page,             \* the document, as elements [desc, size]
  loading,          \* a navigation is under way
  info,             \* before_info, exact_info, after_info; "none" is null
  focus             \* laitos_pjs_current_elem: a position in page, 0 when undefined

bpVars == <<opened, page, loading, info, focus>>

NoInfo == [before |-> "none", exact |-> "none", after |-> "none"]

BPInit ==
  /\ opened = FALSE /\ page = <<>> /\ loading = FALSE
  /\ info = NoInfo /\ focus = 0

(* The elements a search considers: large enough to be seen, and with less *)
(* than 1000 characters inside for one search, 8192 for the other.         *)
Positions(sizes) == {i \in 1 .. Len(page) : page[i].size \in sizes}
Brief == Positions({"short"})
Longer == Positions({"short", "medium"})

(* laitos_pjs_elem_to_obj of the first or the last of some elements.       *)
DescOfFirst(positions) == IF positions = {} THEN "none" ELSE page[Min(positions)].desc
DescOfLast(positions) == IF positions = {} THEN "none" ELSE page[Max(positions)].desc

(* laitos_pjs_find_before_after: the first match, or the first element     *)
(* when nothing is looked for, gets the focus; without a match the last    *)
(* element seen is what came before.                                       *)
FindBeforeAfter(desc) ==
  LET matches == {i \in Brief : desc = "none" \/ page[i].desc = desc}
      at == IF matches = {} THEN Len(page) + 1 ELSE Min(matches) IN
  /\ info' = [before |-> DescOfLast({i \in Brief : i < at}),
              exact |-> DescOfFirst(matches),
              after |-> DescOfFirst({i \in Brief : i > at})]
  /\ focus' = IF matches = {} THEN focus ELSE at

(* laitos_pjs_find_after: up to n elements behind the first match, which   *)
(* do not look like it themselves; the last one gets the focus.            *)
Behind(desc, n) ==
  LET matches == {i \in Longer : page[i].desc = desc}
      later == {p \in Longer : matches # {} /\ p > Min(matches) /\ page[p].desc # desc} IN
  {p \in later : Cardinality({q \in later : q < p}) < n}
FindAfter(from, n) ==
  LET found == Behind(from.exact, n) IN
  IF found = {}
  THEN info' = from
  ELSE info' = [before |-> from.exact, exact |-> DescOfLast(found), after |-> DescOfLast(found)]
FocusStays(from, n, old) == old
FocusAfter(from, n, old) ==
  LET found == Behind(from.exact, n) IN IF found = {} THEN old ELSE Max(found)

(* b_goto: makes the page object, forgets the elements, and begins to load.*)
Goto ==
  /\ opened' = TRUE
  /\ info' = NoInfo
  /\ loading' = TRUE
  /\ UNCHANGED <<page, focus>>
(* b_back, b_forward, b_reload.                                            *)
GoElsewhere ==
  /\ opened
  /\ info' = NoInfo
  /\ loading' = TRUE
  /\ UNCHANGED <<opened, page, focus>>
(* The new document is there; what was kept in the window of the old one   *)
(* is gone with it.  Nothing tells the line-oriented interface.            *)
Loaded ==
  /\ loading
  /\ page' \in Pages
  /\ loading' = FALSE
  /\ focus' = 0
  /\ UNCHANGED <<opened, info>>

(* b_lo_reset.                                                             *)
LoReset ==
  /\ info' = NoInfo
  /\ UNCHANGED <<opened, page, loading, focus>>
(* b_lo_next: the first element, the one after, or the last one again.     *)
LoNext ==
  /\ opened
  /\ FindBeforeAfter(IF info.exact # "none" /\ info.after # "none" THEN info.after ELSE info.exact)
  /\ UNCHANGED <<opened, page, loading>>
(* b_lo_prev: the one before, or the first.                                *)
LoPrev ==
  /\ opened
  /\ FindBeforeAfter(info.before)
  /\ UNCHANGED <<opened, page, loading>>
(* b_lo_next_n: from the first element when there was none.                *)
FirstElement == [before |-> "none", exact |-> DescOfFirst(Brief),
                 after |-> DescOfFirst({i \in Brief : i > Min(Brief)})]
LoNextN(n) ==
  LET from == IF info.exact = "none" THEN FirstElement ELSE info
      seen == IF info.exact = "none" /\ Brief # {} THEN Min(Brief) ELSE focus IN
  /\ opened
  /\ FindAfter(from, n)
  /\ focus' = FocusAfter(from, n, seen)
  /\ UNCHANGED <<opened, page, loading>>
(* b_lo_pointer, b_pointer and b_type: what is clicked or typed may lead   *)
(* to another page, and may not.                                           *)
LoPointer ==
  /\ opened
  /\ loading' \in {loading, TRUE}
  /\ UNCHANGED <<opened, page, info, focus>>
(* b_lo_set_val, b_redraw, b_redraw_area and b_info change nothing here:   *)
(* the first reads a coordinate where it would have to set the value.      *)
LoSetVal == opened /\ UNCHANGED bpVars

(* The web server of the script: one request at a time.                    *)
BPRequest ==
  \/ Goto \/ GoElsewhere
  \/ LoReset \/ LoNext \/ LoPrev \/ \E n \in Jumps : LoNextN(n)
  \/ LoPointer \/ LoSetVal
BPNext == BPRequest \/ Loaded

BPSpec == BPInit /\ [][BPNext]_bpVars

-----------------------------------------------------------------------------
(* What the user was last shown as the current element is what a click     *)
(* goes to: the focused element has the descriptor kept in exact_info,     *)
(* over pages that repeat descriptors, elements one search sees and the    *)
(* other does not, and documents that are replaced in between              *)
(* (laitos_pjs_find_before_after, laitos_pjs_find_after).                  *)
FocusIsReported ==
  focus # 0 /\ info.exact # "none" => page[focus].desc = info.exact
===============================================================================
