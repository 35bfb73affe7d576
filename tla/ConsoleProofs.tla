--------------------------- MODULE ConsoleProofs ---------------------------
(***************************************************************************)
(* For every size of screen and of video memory: the position and the      *)
(* coordinates of the cursor agree, the console stays inside video memory, *)
(* and the window shows the screen that Terminal describes.                *)
(***************************************************************************)
EXTENDS Console, TLAPS

State == [screen : Nat, pos : Int, x : 0 .. Width, y : 0 .. (Height - 1),
          mem : [Cell -> Char], start : Nat, crt : Int]

(* What every function of the console keeps of the record it works on. *)
Good(s) ==
  /\ s \in State
  /\ s.pos = s.screen + s.y * Width + s.x
  /\ s.screen + ScreenSizeMacro <= Cells

(* The inductive invariant: the struct agrees with itself, and a screen of *)
(* the doubled size fits below the start of the window.                    *)
IInv ==
  /\ Good(Now)
  /\ progress \in {"boot", "idle", "write"}
  /\ progress = "boot" => cursor_x = 0 /\ cursor_y = 0

-----------------------------------------------------------------------------
(* Records.  The provers know an update of one field of a record, so the   *)
(* updates of several fields are taken one at a time.                      *)

Loose == [screen : Int, pos : Int, x : Int, y : Int,
          mem : [Cell -> Char], start : Int, crt : Int]

Rec(sc, p, x, y, m, st, cr) ==
  [screen |-> sc, pos |-> p, x |-> x, y |-> y, mem |-> m, start |-> st, crt |-> cr]

LEMMA SetField ==
  ASSUME NEW s \in Loose, NEW v \in Int
  PROVE  /\ [s EXCEPT !.screen = v] = Rec(v, s.pos, s.x, s.y, s.mem, s.start, s.crt)
         /\ [s EXCEPT !.pos = v] = Rec(s.screen, v, s.x, s.y, s.mem, s.start, s.crt)
         /\ [s EXCEPT !.x = v] = Rec(s.screen, s.pos, v, s.y, s.mem, s.start, s.crt)
         /\ [s EXCEPT !.y = v] = Rec(s.screen, s.pos, s.x, v, s.mem, s.start, s.crt)
BY DEF Loose, Rec

LEMMA SetMem ==
  ASSUME NEW s \in Loose, NEW m \in [Cell -> Char]
  PROVE  [s EXCEPT !.mem = m] = Rec(s.screen, s.pos, s.x, s.y, m, s.start, s.crt)
BY DEF Loose, Rec

LEMMA SetPosX ==
  ASSUME NEW s \in Loose, NEW p \in Int, NEW x \in Int
  PROVE  [s EXCEPT !.pos = p, !.x = x] = Rec(s.screen, p, x, s.y, s.mem, s.start, s.crt)
<1> DEFINE t == [s EXCEPT !.pos = p]
<1>1. t = Rec(s.screen, p, s.x, s.y, s.mem, s.start, s.crt) BY SetField
<1>2. [t EXCEPT !.x = x] = Rec(s.screen, p, x, s.y, s.mem, s.start, s.crt)
  <2> HIDE DEF t
  <2>1. /\ t \in Loose
        /\ t.screen = s.screen /\ t.pos = p /\ t.x = s.x /\ t.y = s.y
        /\ t.mem = s.mem /\ t.start = s.start /\ t.crt = s.crt
    BY <1>1 DEF Loose, Rec
  <2>2. [t EXCEPT !.x = x]
          = Rec(t.screen, t.pos, x, t.y, t.mem, t.start, t.crt)
    BY <2>1, SetField
  <2> QED BY <2>1, <2>2
<1> QED BY <1>2

LEMMA SetPosY ==
  ASSUME NEW s \in Loose, NEW p \in Int, NEW y \in Int
  PROVE  [s EXCEPT !.pos = p, !.y = y] = Rec(s.screen, p, s.x, y, s.mem, s.start, s.crt)
<1> DEFINE t == [s EXCEPT !.pos = p]
<1>1. t = Rec(s.screen, p, s.x, s.y, s.mem, s.start, s.crt) BY SetField
<1>2. [t EXCEPT !.y = y] = Rec(s.screen, p, s.x, y, s.mem, s.start, s.crt)
  <2> HIDE DEF t
  <2>1. /\ t \in Loose
        /\ t.screen = s.screen /\ t.pos = p /\ t.x = s.x /\ t.y = s.y
        /\ t.mem = s.mem /\ t.start = s.start /\ t.crt = s.crt
    BY <1>1 DEF Loose, Rec
  <2>2. [t EXCEPT !.y = y]
          = Rec(t.screen, t.pos, t.x, y, t.mem, t.start, t.crt)
    BY <2>1, SetField
  <2> QED BY <2>1, <2>2
<1> QED BY <1>2

LEMMA SetScreenPosMem ==
  ASSUME NEW s \in Loose, NEW sc \in Int, NEW p \in Int, NEW m \in [Cell -> Char]
  PROVE  [s EXCEPT !.screen = sc, !.pos = p, !.mem = m]
           = Rec(sc, p, s.x, s.y, m, s.start, s.crt)
<1> DEFINE t == [s EXCEPT !.screen = sc]
           u == [t EXCEPT !.pos = p]
<1>1. t = Rec(sc, s.pos, s.x, s.y, s.mem, s.start, s.crt) BY SetField
<1>2. u = Rec(sc, p, s.x, s.y, s.mem, s.start, s.crt)
  <2> HIDE DEF t
  <2>1. /\ t \in Loose
        /\ t.screen = sc /\ t.pos = s.pos /\ t.x = s.x /\ t.y = s.y
        /\ t.mem = s.mem /\ t.start = s.start /\ t.crt = s.crt
    BY <1>1 DEF Loose, Rec
  <2>2. [t EXCEPT !.pos = p]
          = Rec(t.screen, p, t.x, t.y, t.mem, t.start, t.crt)
    BY <2>1, SetField
  <2> QED BY <2>1, <2>2
<1>3. [u EXCEPT !.mem = m] = Rec(sc, p, s.x, s.y, m, s.start, s.crt)
  <2> HIDE DEF u
  <2>1. /\ u \in Loose
        /\ u.screen = sc /\ u.pos = p /\ u.x = s.x /\ u.y = s.y
        /\ u.mem = s.mem /\ u.start = s.start /\ u.crt = s.crt
    BY <1>2 DEF Loose, Rec
  <2>2. [u EXCEPT !.mem = m]
          = Rec(u.screen, u.pos, u.x, u.y, m, u.start, u.crt)
    BY <2>1, SetMem
  <2> QED BY <2>1, <2>2
<1> QED BY <1>3

LEMMA SetPosXMem ==
  ASSUME NEW s \in Loose, NEW p \in Int, NEW x \in Int, NEW m \in [Cell -> Char]
  PROVE  /\ [s EXCEPT !.pos = p, !.x = x, !.mem = m]
              = Rec(s.screen, p, x, s.y, m, s.start, s.crt)
         /\ [s EXCEPT !.mem = m, !.pos = p, !.x = x]
              = Rec(s.screen, p, x, s.y, m, s.start, s.crt)
<1> DEFINE t == [s EXCEPT !.pos = p, !.x = x]
           u == [s EXCEPT !.mem = m]
<1>1. t = Rec(s.screen, p, x, s.y, s.mem, s.start, s.crt) BY SetPosX
<1>2. [t EXCEPT !.mem = m] = Rec(s.screen, p, x, s.y, m, s.start, s.crt)
  <2> HIDE DEF t
  <2>1. /\ t \in Loose
        /\ t.screen = s.screen /\ t.pos = p /\ t.x = x /\ t.y = s.y
        /\ t.mem = s.mem /\ t.start = s.start /\ t.crt = s.crt
    BY <1>1 DEF Loose, Rec
  <2>2. [t EXCEPT !.mem = m]
          = Rec(t.screen, t.pos, t.x, t.y, m, t.start, t.crt)
    BY <2>1, SetMem
  <2> QED BY <2>1, <2>2
<1>3. u = Rec(s.screen, s.pos, s.x, s.y, m, s.start, s.crt) BY SetMem
<1>4. [u EXCEPT !.pos = p, !.x = x] = Rec(s.screen, p, x, s.y, m, s.start, s.crt)
  <2> HIDE DEF u
  <2>1. /\ u \in Loose
        /\ u.screen = s.screen /\ u.pos = s.pos /\ u.x = s.x /\ u.y = s.y
        /\ u.mem = m /\ u.start = s.start /\ u.crt = s.crt
    BY <1>3 DEF Loose, Rec
  <2>2. [u EXCEPT !.pos = p, !.x = x]
          = Rec(u.screen, p, x, u.y, u.mem, u.start, u.crt)
    BY <2>1, SetPosX
  <2> QED BY <2>1, <2>2
<1> QED BY <1>2, <1>4

LEMMA GoodLoose ==
  ASSUME NEW s, Good(s)
  PROVE  /\ s \in Loose
         /\ s.screen \in Int /\ s.pos \in Int /\ s.x \in Int /\ s.y \in Int
BY ScreenAssumption DEF Good, State, Loose

LEMMA GoodFields ==
  ASSUME NEW s, Good(s)
  PROVE  /\ s.screen \in Nat /\ s.pos \in Int /\ s.start \in Nat /\ s.crt \in Int
         /\ s.x \in 0 .. Width /\ s.y \in 0 .. (Height - 1)
         /\ s.mem \in [Cell -> Char]
         /\ s.pos = s.screen + s.y * Width + s.x
         /\ s.screen + ScreenSizeMacro <= Cells
BY DEF Good, State

-----------------------------------------------------------------------------
(* A row of the screen ends within it. *)
LEMMA RowFits ==
  ASSUME NEW y \in 0 .. (Height - 1)
  PROVE  /\ y * Width \in Nat
         /\ (y + 1) * Width = y * Width + Width
         /\ y * Width + Width <= Screen
         /\ Screen \in Nat
<1>1. Width \in Nat /\ Height \in Nat BY ScreenAssumption
<1>2. PICK k \in Nat : Height = y + 1 + k
  <2>1. Height - (y + 1) \in Nat /\ Height = y + 1 + (Height - (y + 1)) BY <1>1
  <2> QED BY <2>1
<1>3. Screen = y * Width + Width + k * Width BY <1>1, <1>2 DEF Screen
<1>4. k * Width \in Nat /\ y * Width \in Nat /\ Height * Width \in Nat BY <1>1, <1>2
<1> QED BY <1>1, <1>3, <1>4 DEF Screen

LEMMA UpdateCursorGood ==
  ASSUME NEW s, Good(s)
  PROVE  /\ Good(UpdateCursor(s))
         /\ UpdateCursor(s).x = s.x /\ UpdateCursor(s).y = s.y
BY DEF Good, State, UpdateCursor

LEMMA UpdateScreenGood ==
  ASSUME NEW s, Good(s)
  PROVE  /\ Good(UpdateScreen(s))
         /\ UpdateScreen(s).x = s.x /\ UpdateScreen(s).y = s.y
BY DEF Good, State, UpdateScreen

LEMMA ScrolledGood ==
  ASSUME NEW s, Good(s), RoomBelow(s)
  PROVE  Good(Scrolled(s)) /\ Scrolled(s).x = s.x /\ Scrolled(s).y = s.y
<1>1. Width \in Nat /\ Screen \in Nat BY ScreenAssumption DEF Screen
<1>2. Cleared(s.mem, s.screen + ScreenSizeMacro) \in [Cell -> Char]
  BY DEF Cleared, Good, State, Char
<1>3. s.y * Width \in Nat BY RowFits DEF Good, State
<1>4. Scrolled(s) = Rec(s.screen + Width, s.pos + Width, s.x, s.y,
                        Cleared(s.mem, s.screen + ScreenSizeMacro), s.start, s.crt)
  <2>1. s \in Loose /\ s.screen + Width \in Int /\ s.pos + Width \in Int BY <1>1, GoodLoose
  <2> QED BY <1>2, <2>1, SetScreenPosMem DEF Scrolled
<1>5. /\ s.screen + Width \in Nat /\ s.pos + Width \in Int
      /\ s.pos + Width = (s.screen + Width) + s.y * Width + s.x
      /\ (s.screen + Width) + ScreenSizeMacro <= Cells
  BY <1>1, <1>3, GoodFields, ScreenAssumption DEF RoomBelow, ScreenSizeMacro
<1> QED BY <1>2, <1>4, <1>5, GoodFields DEF Good, State, Rec

LEMMA RewoundGood ==
  ASSUME NEW s, Good(s)
  PROVE  Good(Rewound(s)) /\ Rewound(s).x = s.x /\ Rewound(s).y = s.y
<1>1. Width \in Nat /\ Screen \in Nat /\ Cells \in Nat BY ScreenAssumption DEF Screen
<1> DEFINE copy == [c \in Cell |-> IF c < ScreenSizeMacro THEN s.mem[s.screen + c] ELSE s.mem[c]]
<1>2. copy \in [Cell -> Char]
  <2>1. ASSUME NEW c \in Cell, c < ScreenSizeMacro PROVE s.screen + c \in Cell
    <3>1. /\ c \in Int /\ c >= 0 /\ ScreenSizeMacro \in Int
          /\ s.screen \in Nat /\ s.screen + ScreenSizeMacro <= Cells
      BY <1>1, GoodFields DEF Cell, ScreenSizeMacro
    <3> QED BY <1>1, <2>1, <3>1 DEF Cell
  <2> QED BY <2>1, GoodFields
<1>3. s.y * Width \in Nat BY RowFits DEF Good, State
<1>4. Rewound(s) = Rec(0, s.pos - s.screen, s.x, s.y, copy, s.start, s.crt)
  <2> HIDE DEF copy
  <2>1. s \in Loose /\ 0 \in Int /\ s.pos - s.screen \in Int BY GoodLoose
  <2>2. [s EXCEPT !.screen = 0, !.pos = s.pos - s.screen, !.mem = copy]
          = Rec(0, s.pos - s.screen, s.x, s.y, copy, s.start, s.crt)
    BY <1>2, <2>1, SetScreenPosMem
  <2> QED BY <2>2 DEF Rewound, copy
<1> HIDE DEF copy
<1>5. /\ s.pos - s.screen \in Int /\ s.pos - s.screen = 0 + s.y * Width + s.x
      /\ 0 + ScreenSizeMacro <= Cells /\ 0 \in Nat
  BY <1>1, <1>3, GoodFields DEF ScreenSizeMacro
<1> QED BY <1>2, <1>4, <1>5, GoodFields DEF Good, State, Rec

LEMMA LfGood ==
  ASSUME NEW s, Good(s)
  PROVE  Good(ConsoleLf(s)) /\ ConsoleLf(s).x = s.x
<1>1. CASE s.y < Height - 1
  <2> DEFINE t == [s EXCEPT !.pos = @ + Width, !.y = @ + 1]
  <2>1. t = Rec(s.screen, s.pos + Width, s.x, s.y + 1, s.mem, s.start, s.crt)
    <3>1. s \in Loose /\ s.pos + Width \in Int /\ s.y + 1 \in Int BY GoodLoose, ScreenAssumption
    <3> QED BY <3>1, SetPosY
  <2>2. Width \in Nat /\ Height \in Nat /\ s.y * Width \in Nat
        /\ (s.y + 1) * Width = s.y * Width + Width
    BY RowFits, ScreenAssumption DEF Good, State
  <2>3. Good(t) /\ t.x = s.x
    <3> HIDE DEF t
    <3>1. /\ s.y + 1 \in 0 .. (Height - 1) /\ s.pos + Width \in Int
          /\ s.pos + Width = s.screen + (s.y + 1) * Width + s.x
      BY <1>1, <2>2, GoodFields
    <3> QED BY <2>1, <3>1, GoodFields DEF Good, State, Rec
  <2> HIDE DEF t
  <2>4. ConsoleLf(s) = UpdateCursor(t) BY <1>1 DEF ConsoleLf, t
  <2> QED BY <2>3, <2>4, UpdateCursorGood
<1>2. CASE ~ (s.y < Height - 1)
  <2> DEFINE t == IF RoomBelow(s) THEN Scrolled(s) ELSE Rewound(s)
  <2>1. Good(t) /\ t.x = s.x BY ScrolledGood, RewoundGood
  <2>2. ConsoleLf(s) = UpdateCursor(UpdateScreen(t)) BY <1>2 DEF ConsoleLf, ScrollUp
  <2> HIDE DEF t
  <2> QED BY <2>1, <2>2, UpdateCursorGood, UpdateScreenGood
<1> QED BY <1>1, <1>2

LEMMA CrGood ==
  ASSUME NEW s, Good(s)
  PROVE  Good(ConsoleCr(s)) /\ ConsoleCr(s).x = 0
<1> DEFINE t == [s EXCEPT !.pos = @ - s.x, !.x = 0]
<1>1. t = Rec(s.screen, s.pos - s.x, 0, s.y, s.mem, s.start, s.crt)
  <2>1. s \in Loose /\ s.pos - s.x \in Int /\ 0 \in Int BY GoodLoose
  <2> QED BY <2>1, SetPosX
<1>2. Width \in Nat /\ s.y * Width \in Nat BY RowFits, ScreenAssumption DEF Good, State
<1> HIDE DEF t
<1>3. Good(t) /\ t.x = 0
  <2>1. /\ 0 \in 0 .. Width /\ s.pos - s.x \in Int
        /\ s.pos - s.x = s.screen + s.y * Width + 0
    BY <1>2, GoodFields
  <2> QED BY <1>1, <2>1, GoodFields DEF Good, State, Rec
<1>4. ConsoleCr(s) = UpdateCursor(t) BY DEF ConsoleCr, t
<1> QED BY <1>3, <1>4, UpdateCursorGood

LEMMA BsGood ==
  ASSUME NEW s, Good(s)
  PROVE  Good(ConsoleBs(s))
<1>1. CASE s.x > 0
  <2> DEFINE m == [s.mem EXCEPT ![s.pos - 1] = Blank]
             t == [s EXCEPT !.pos = @ - 1, !.x = @ - 1, !.mem = m]
  <2>1. m \in [Cell -> Char] BY DEF Good, State, Char
  <2> HIDE DEF m
  <2>2. t = Rec(s.screen, s.pos - 1, s.x - 1, s.y, m, s.start, s.crt)
    <3>1. s \in Loose /\ s.pos - 1 \in Int /\ s.x - 1 \in Int BY GoodLoose
    <3> QED BY <2>1, <3>1, SetPosXMem
  <2>3. Width \in Nat /\ s.y * Width \in Nat BY RowFits, ScreenAssumption DEF Good, State
  <2> HIDE DEF t
  <2>4. Good(t)
    <3>1. /\ s.x - 1 \in 0 .. Width /\ s.pos - 1 \in Int
          /\ s.pos - 1 = s.screen + s.y * Width + (s.x - 1)
      BY <1>1, <2>3, GoodFields
    <3> QED BY <2>1, <2>2, <3>1, GoodFields DEF Good, State, Rec
  <2>5. ConsoleBs(s) = UpdateCursor(t) BY <1>1 DEF ConsoleBs, t, m
  <2> QED BY <2>4, <2>5, UpdateCursorGood
<1>2. CASE ~ (s.x > 0) BY <1>2 DEF ConsoleBs
<1> QED BY <1>1, <1>2

LEMMA StoredGood ==
  ASSUME NEW s, Good(s), NEW ch \in Letters
  PROVE  Good(Stored(Wrapped(s), ch))
<1> DEFINE w == Wrapped(s)
           m == [w.mem EXCEPT ![w.pos] = ch]
<1>1. Good(w) /\ w.x < Width
  <2>1. CASE s.x >= Width BY <2>1, CrGood, LfGood, ScreenAssumption DEF Wrapped
  <2>2. CASE ~ (s.x >= Width) BY <2>2, ScreenAssumption DEF Wrapped, Good, State
  <2> QED BY <2>1, <2>2
<1> HIDE DEF w
<1>2. m \in [Cell -> Char] BY <1>1 DEF Good, State, Char
<1> HIDE DEF m
<1>3. Stored(w, ch) = Rec(w.screen, w.pos + 1, w.x + 1, w.y, m, w.start, w.crt)
  <2>1. [w EXCEPT !.mem = m, !.pos = w.pos + 1, !.x = w.x + 1]
          = Rec(w.screen, w.pos + 1, w.x + 1, w.y, m, w.start, w.crt)
    <3>1. w \in Loose /\ w.pos + 1 \in Int /\ w.x + 1 \in Int BY <1>1, GoodLoose
    <3> QED BY <1>2, <3>1, SetPosXMem
  <2> QED BY <2>1 DEF Stored, m
<1>4. Width \in Nat /\ w.y * Width \in Nat BY <1>1, RowFits, ScreenAssumption DEF Good, State
<1>5. Good(Stored(w, ch))
  <2>1. /\ w.x + 1 \in 0 .. Width /\ w.pos + 1 \in Int
        /\ w.pos + 1 = w.screen + w.y * Width + (w.x + 1)
    BY <1>1, <1>4, GoodFields
  <2> QED BY <1>1, <1>2, <1>3, <2>1, GoodFields DEF Good, State, Rec
<1> QED BY <1>5 DEF w

(* What a step makes of the variables is the record it computed. *)
LEMMA BecomeNow ==
  ASSUME NEW s, Good(s), Become(s)
  PROVE  Good(Now)'
<1>1. Now' = s BY DEF Become, Now, Good, State
<1> QED BY <1>1 DEF Good, State, ScreenSizeMacro, Screen, Cell, Char

(* console_clear, before any character was written. *)
LEMMA ClearedGood ==
  ASSUME Good(Now), Now.x = 0, Now.y = 0
  PROVE  Good(UpdateCursor(UpdateScreen(
           [Now EXCEPT !.screen = 0, !.pos = 0, !.mem = [c \in Cell |-> Blank]])))
<1> DEFINE m == [c \in Cell |-> Blank]
           s == [Now EXCEPT !.screen = 0, !.pos = 0, !.mem = m]
<1>1. m \in [Cell -> Char] BY DEF Char
<1> HIDE DEF m
<1>2. s = Rec(0, 0, 0, 0, m, Now.start, Now.crt)
  <2>1. Now \in Loose /\ 0 \in Int BY GoodLoose
  <2>2. s = Rec(0, 0, Now.x, Now.y, m, Now.start, Now.crt) BY <1>1, <2>1, SetScreenPosMem
  <2> QED BY <2>2
<1> HIDE DEF s
<1>3. Good(s)
  <2>1. Now.start \in Nat /\ Now.crt \in Int BY GoodFields
  <2>2. ScreenSizeMacro <= Cells /\ 0 * Width = 0
    BY ScreenAssumption DEF ScreenSizeMacro, Screen
  <2>3. /\ 0 \in 0 .. Width /\ 0 \in 0 .. (Height - 1) /\ 0 \in Nat /\ 0 \in Int
        /\ 0 = 0 + 0 * Width + 0 /\ 0 + ScreenSizeMacro <= Cells
    BY <2>2, ScreenAssumption DEF ScreenSizeMacro, Screen
  <2> QED BY <1>1, <1>2, <2>1, <2>3 DEF Good, State, Rec
<1>4. Good(UpdateCursor(UpdateScreen(s))) BY <1>3, UpdateCursorGood, UpdateScreenGood
<1> QED BY <1>4 DEF s, m

LEMMA InitGood == ScreenInit => IInv
<1> SUFFICES ASSUME ScreenInit PROVE IInv OBVIOUS
<1>1. Now \in State
  BY ScreenAssumption DEF ScreenInit, Now, State, Char
<1>2. Width \in Nat /\ 0 * Width = 0 BY ScreenAssumption
<1>3. ScreenSizeMacro \in Nat /\ ScreenSizeMacro <= Cells
  BY ScreenAssumption DEF ScreenSizeMacro, Screen
<1>4. Good(Now) BY <1>1, <1>2, <1>3 DEF ScreenInit, Now, Good
<1> QED BY <1>4 DEF ScreenInit, IInv

LEMMA StepGood == IInv /\ [ScreenNext]_screenVars => IInv'
<1> SUFFICES ASSUME IInv, [ScreenNext]_screenVars PROVE IInv' OBVIOUS
<1>1. Good(Now) BY DEF IInv
<1>2. CASE BeginWrite
  <2>1. Now' = Now BY <1>2 DEF BeginWrite, Now, position, crt
  <2> QED BY <1>1, <1>2, <2>1 DEF BeginWrite, IInv, Good, State, ScreenSizeMacro, Screen, Cell, Char
<1>3. CASE WriteLf
  <2>1. Good(ConsoleCr(ConsoleLf(Now))) BY <1>1, LfGood, CrGood
  <2>2. Become(ConsoleCr(ConsoleLf(Now))) /\ progress' = "write" BY <1>3 DEF WriteLf, Writing
  <2>3. Good(Now)' BY <2>1, <2>2, BecomeNow
  <2> QED BY <2>2, <2>3 DEF IInv
<1>4. CASE WriteBs
  <2>1. Good(ConsoleBs(Now)) BY <1>1, BsGood
  <2>2. Become(ConsoleBs(Now)) /\ progress' = "write" BY <1>4 DEF WriteBs, Writing
  <2>3. Good(Now)' BY <2>1, <2>2, BecomeNow
  <2> QED BY <2>2, <2>3 DEF IInv
<1>5. ASSUME NEW ch \in Letters, WriteChar(ch) PROVE IInv'
  <2>1. Good(Stored(Wrapped(Now), ch)) BY <1>1, StoredGood
  <2>2. Become(Stored(Wrapped(Now), ch)) /\ progress' = "write" BY <1>5 DEF WriteChar, Writing
  <2>3. Good(Now)' BY <2>1, <2>2, BecomeNow
  <2> QED BY <2>2, <2>3 DEF IInv
<1>6. CASE EndWrite
  <2>1. Good(UpdateCursor(Now)) BY <1>1, UpdateCursorGood
  <2>2. Become(UpdateCursor(Now)) /\ progress' = "idle" BY <1>6 DEF EndWrite
  <2>3. Good(Now)' BY <2>1, <2>2, BecomeNow
  <2> QED BY <2>2, <2>3 DEF IInv
<1>7. CASE ConsoleInit
  <2> DEFINE s == UpdateCursor(UpdateScreen(
                    [Now EXCEPT !.screen = 0, !.pos = 0, !.mem = [c \in Cell |-> Blank]]))
  <2>1. Now.x = 0 /\ Now.y = 0 BY <1>7 DEF ConsoleInit, IInv, Now
  <2>2. Good(s) BY <1>1, <2>1, ClearedGood
  <2>3. Become(s) /\ progress' = "write" BY <1>7 DEF ConsoleInit
  <2> HIDE DEF s
  <2>4. Good(Now)' BY <2>2, <2>3, BecomeNow
  <2> QED BY <2>3, <2>4 DEF IInv
<1>8. CASE UNCHANGED screenVars
  <2>1. Now' = Now BY <1>8 DEF screenVars, Now, position, crt
  <2> QED BY <1>1, <1>8, <2>1 DEF screenVars, position, IInv, Good, State, ScreenSizeMacro, Screen, Cell, Char
<1> QED BY <1>2, <1>3, <1>4, <1>5, <1>6, <1>7, <1>8 DEF ScreenNext

(* The struct of l_console.c agrees with itself after every step. *)
THEOREM InvariantHolds == ScreenSpec => []IInv
BY InitGood, StepGood, PTL DEF ScreenSpec

(* The position of the cursor and its coordinates, updated separately by   *)
(* each function of l_console.c, say the same thing in every state.        *)
THEOREM CursorsAgree == ScreenSpec => []CursorCoherent
<1>1. IInv => CursorCoherent BY DEF IInv, Good, Now, CursorCoherent
<1> QED BY <1>1, InvariantHolds, PTL

(* Every cell the console touches is in video memory and the cursor is in  *)
(* the window, for every size.                                             *)
THEOREM StaysInVideoMemory == ScreenSpec => []InVideoMemory
<1>1. IInv => InVideoMemory
  <2> SUFFICES ASSUME IInv PROVE InVideoMemory OBVIOUS
  <2>1. /\ cursor_pos = screen_pos + cursor_y * Width + cursor_x
        /\ screen_pos + ScreenSizeMacro <= Cells
        /\ screen_pos \in Nat /\ cursor_x \in 0 .. Width /\ cursor_y \in 0 .. (Height - 1)
    BY DEF IInv, Good, Now, State
  <2>2. /\ cursor_y * Width \in Nat /\ Screen \in Nat
        /\ cursor_y * Width + Width <= Screen
    BY <2>1, RowFits
  <2>3. RoomBelow(Now) => screen_pos + ScreenSizeMacro + Width <= Cells
    BY <2>1, <2>2, ScreenAssumption DEF RoomBelow, Now, ScreenSizeMacro
  <2> QED BY <2>1, <2>2, <2>3, ScreenAssumption DEF InVideoMemory
<1> QED BY <1>1, InvariantHolds, PTL

(* Every variable of the console keeps its type. *)
THEOREM TypeCorrect == ScreenSpec => []TypeOK
<1>1. IInv => TypeOK BY DEF IInv, Good, Now, State, TypeOK
<1> QED BY <1>1, InvariantHolds, PTL

-----------------------------------------------------------------------------
(* The registers.  Every function that moves the window tells the          *)
(* controller, and the end of a write tells it the position.               *)
Told(s) == s.start = s.screen

LEMMA UpdateTells ==
  ASSUME NEW s, Good(s)
  PROVE  /\ UpdateCursor(s).start = s.start /\ UpdateCursor(s).screen = s.screen
         /\ UpdateCursor(s).crt = s.pos /\ UpdateCursor(s).pos = s.pos
         /\ Told(UpdateScreen(s))
BY DEF Good, State, UpdateCursor, UpdateScreen, Told

LEMMA LfTells ==
  ASSUME NEW s, Good(s), Told(s)
  PROVE  Told(ConsoleLf(s))
<1>1. CASE s.y < Height - 1
  <2>1. s \in State BY DEF Good
  <2> QED BY <1>1, <2>1 DEF State, ConsoleLf, UpdateCursor, Told
<1>2. CASE ~ (s.y < Height - 1)
  <2> DEFINE t == IF RoomBelow(s) THEN Scrolled(s) ELSE Rewound(s)
  <2>1. Good(t) BY ScrolledGood, RewoundGood
  <2>2. ConsoleLf(s) = UpdateCursor(UpdateScreen(t)) BY <1>2 DEF ConsoleLf, ScrollUp
  <2> HIDE DEF t
  <2> QED BY <2>1, <2>2, UpdateTells, UpdateScreenGood DEF Told
<1> QED BY <1>1, <1>2

LEMMA CrTells ==
  ASSUME NEW s, Good(s), Told(s)
  PROVE  Told(ConsoleCr(s))
<1>1. s \in State BY DEF Good
<1> QED BY <1>1 DEF State, ConsoleCr, UpdateCursor, Told

LEMMA BsTells ==
  ASSUME NEW s, Good(s), Told(s)
  PROVE  Told(ConsoleBs(s))
<1>1. s \in State BY DEF Good
<1> QED BY <1>1 DEF State, ConsoleBs, UpdateCursor, Told

LEMMA StoredTells ==
  ASSUME NEW s, Good(s), Told(s), NEW ch \in Letters
  PROVE  Told(Stored(Wrapped(s), ch))
<1>1. Good(Wrapped(s)) /\ Told(Wrapped(s))
  BY CrGood, LfGood, CrTells, LfTells DEF Wrapped
<1>2. Wrapped(s) \in State BY <1>1 DEF Good
<1> QED BY <1>1, <1>2 DEF State, Stored, Told

(* What the controller shows is the window, and between two writes the     *)
(* cursor, for every size and whatever was written.                        *)
THEOREM RegistersFollow == ScreenSpec => []RegistersCurrent
<1>1. ScreenInit => RegistersCurrent BY DEF ScreenInit, RegistersCurrent
<1>2. IInv /\ RegistersCurrent /\ [ScreenNext]_screenVars => RegistersCurrent'
  <2> SUFFICES ASSUME IInv, RegistersCurrent, [ScreenNext]_screenVars PROVE RegistersCurrent' OBVIOUS
  <2>1. Good(Now) /\ (progress # "boot" => Told(Now))
    BY DEF IInv, RegistersCurrent, Told, Now
  <2>2. ASSUME NEW s, Told(s), Become(s), progress' = "write" PROVE RegistersCurrent'
    BY <2>2 DEF Become, Told, RegistersCurrent
  <2>3. CASE BeginWrite BY <2>3 DEF BeginWrite, RegistersCurrent, position, crt
  <2>4. CASE WriteLf
    <3>1. Told(ConsoleCr(ConsoleLf(Now)))
      BY <2>1, <2>4, LfGood, LfTells, CrTells DEF WriteLf, Writing
    <3> QED BY <2>2, <2>4, <3>1 DEF WriteLf, Writing
  <2>5. CASE WriteBs
    <3>1. Told(ConsoleBs(Now)) BY <2>1, <2>5, BsTells DEF WriteBs, Writing
    <3> QED BY <2>2, <2>5, <3>1 DEF WriteBs, Writing
  <2>6. ASSUME NEW ch \in Letters, WriteChar(ch) PROVE RegistersCurrent'
    <3>1. Told(Stored(Wrapped(Now), ch))
      BY <2>1, <2>6, StoredTells DEF WriteChar, Writing
    <3> QED BY <2>2, <2>6, <3>1 DEF WriteChar, Writing
  <2>7. CASE EndWrite
    <3>1. /\ Become(UpdateCursor(Now)) /\ progress' = "idle" /\ Told(Now)
      BY <2>1, <2>7 DEF EndWrite
    <3>2. /\ UpdateCursor(Now).start = UpdateCursor(Now).screen
          /\ UpdateCursor(Now).crt = UpdateCursor(Now).pos
      BY <2>1, <3>1, UpdateTells DEF Told
    <3> QED BY <3>1, <3>2 DEF Become, RegistersCurrent
  <2>8. CASE ConsoleInit
    <3> DEFINE s == [Now EXCEPT !.screen = 0, !.pos = 0, !.mem = [c \in Cell |-> Blank]]
               t == UpdateCursor(UpdateScreen(s))
    <3>1. Become(t) /\ progress' = "write" BY <2>8 DEF ConsoleInit
    <3>2. Told(t) BY DEF Told, UpdateCursor, UpdateScreen, Now
    <3> HIDE DEF t
    <3> QED BY <2>2, <3>1, <3>2
  <2>9. CASE UNCHANGED screenVars BY <2>9 DEF screenVars, position, crt, RegistersCurrent
  <2> QED BY <2>3, <2>4, <2>5, <2>6, <2>7, <2>8, <2>9 DEF ScreenNext
<1> QED BY <1>1, <1>2, InvariantHolds, PTL DEF ScreenSpec

-----------------------------------------------------------------------------
(* Console implements Terminal.  What a record shows, how many rows the    *)
(* window is down, and what keeps a row that comes into view blank: the    *)
(* second screen of the doubled size is cleared, row by row, before the    *)
(* window reaches it, and copied with the first when the window returns.   *)

View(s) == [r \in 0 .. (Height - 1) |->
             [c \in 0 .. (Width - 1) |-> s.mem[s.screen + r * Width + c]]]
BlankRow == [c \in 0 .. (Width - 1) |-> Blank]
BlankBelow(s) ==
  \A c \in Cell : s.screen + Screen <= c /\ c < s.screen + ScreenSizeMacro => s.mem[c] = Blank
MaxMoves == (Cells - ScreenSizeMacro - Width - 1) \div Width + 1
Down(s, k) == k \in 0 .. MaxMoves /\ s.screen = k * Width

Sound(s) == Good(s) /\ BlankBelow(s) /\ \E k \in 0 .. MaxMoves : Down(s, k)

RInv ==
  /\ IInv
  /\ progress = "boot" => screen_pos = 0
  /\ progress # "boot" => Sound(Now)

LEMMA Division ==
  ASSUME NEW w \in Nat \ {0}, NEW n \in Nat, NEW k \in Nat
  PROVE  /\ k * w <= n <=> k <= n \div w
         /\ (k * w) \div w = k
         /\ n \div w \in Nat
OBVIOUS

LEMMA RoomIs ==
  ASSUME NEW s, Good(s), NEW k, Down(s, k)
  PROVE  /\ MaxMoves \in Nat \ {0} /\ s.screen \div Width = k
         /\ RoomBelow(s) <=> k # MaxMoves
<1> DEFINE room == Cells - ScreenSizeMacro - Width - 1
<1>1. Width \in Nat \ {0} /\ Screen \in Nat /\ ScreenSizeMacro \in Nat /\ Cells \in Nat
  BY ScreenAssumption DEF Screen, ScreenSizeMacro
<1>2. room \in Nat BY <1>1, ScreenAssumption
<1> HIDE DEF room
<1>3. room \div Width \in Nat /\ MaxMoves = room \div Width + 1
  BY <1>1, <1>2, Division DEF MaxMoves, room
<1>4. k \in Nat /\ s.screen = k * Width BY <1>3 DEF Down
<1>5. s.screen \div Width = k /\ (k * Width <= room <=> k <= room \div Width)
  BY <1>1, <1>2, <1>4, Division
<1>6. RoomBelow(s) <=> s.screen <= room
  BY <1>1, <1>4 DEF RoomBelow, room
<1>7. k <= room \div Width + 1 BY <1>3 DEF Down
<1> QED BY <1>3, <1>4, <1>5, <1>6, <1>7

LEMMA Places ==
  ASSUME NEW base \in Nat, base + ScreenSizeMacro <= Cells,
         NEW r \in 0 .. (Height - 1), NEW c \in 0 .. (Width - 1)
  PROVE  /\ r * Width \in Nat
         /\ base + r * Width + c \in Cell /\ base + r * Width + c < base + Screen
         /\ r * Width + c < ScreenSizeMacro
BY RowFits, ScreenAssumption DEF Cell, ScreenSizeMacro

(* The place of a character determines its row and its column.             *)
LEMMA PlaceIsOne ==
  ASSUME NEW r \in 0 .. (Height - 1), NEW c \in 0 .. (Width - 1),
         NEW y \in 0 .. (Height - 1), NEW x \in 0 .. (Width - 1),
         r * Width + c = y * Width + x
  PROVE  r = y /\ c = x
<1>1. Width \in Nat \ {0} /\ r \in Nat /\ y \in Nat BY ScreenAssumption
<1>2. \A a, b \in Nat : a < b => a * Width + Width <= b * Width
  <2>1. ASSUME NEW a \in Nat, NEW b \in Nat, a < b PROVE a * Width + Width <= b * Width
    <3>1. PICK n \in Nat : b = a + 1 + n
      <4>1. b - (a + 1) \in Nat /\ b = a + 1 + (b - (a + 1)) BY <2>1
      <4> QED BY <4>1
    <3>2. b * Width = a * Width + Width + n * Width /\ n * Width \in Nat BY <1>1, <3>1
    <3>3. a * Width \in Nat BY <1>1
    <3> QED BY <1>1, <3>2, <3>3
  <2> QED BY <2>1
<1>3. r * Width \in Nat /\ y * Width \in Nat BY <1>1
<1>4. ~ (r < y) BY <1>1, <1>2, <1>3
<1>5. ~ (y < r) BY <1>1, <1>2, <1>3
<1> QED BY <1>1, <1>3, <1>4, <1>5

(* The rows, the row of the cursor and the number of moves after a line    *)
(* feed, as Terminal has them.                                             *)
AtLast(s) == s.y = Height - 1
FedView(s, k) ==
  IF AtLast(s) /\ k # MaxMoves
  THEN [r \in 0 .. (Height - 1) |-> IF r = Height - 1 THEN BlankRow ELSE View(s)[r + 1]]
  ELSE View(s)
FedRow(s) == IF AtLast(s) THEN s.y ELSE s.y + 1
FedMoves(s, k) == IF ~AtLast(s) THEN k ELSE IF k = MaxMoves THEN 0 ELSE k + 1

LEMMA UpdateShows ==
  ASSUME NEW s, Good(s)
  PROVE  /\ UpdateCursor(s).mem = s.mem /\ UpdateCursor(s).screen = s.screen
         /\ UpdateScreen(s).mem = s.mem /\ UpdateScreen(s).screen = s.screen
         /\ View(UpdateCursor(s)) = View(s) /\ View(UpdateScreen(s)) = View(s)
<1>1. /\ UpdateCursor(s).mem = s.mem /\ UpdateCursor(s).screen = s.screen
      /\ UpdateScreen(s).mem = s.mem /\ UpdateScreen(s).screen = s.screen
  BY DEF Good, State, UpdateCursor, UpdateScreen
<1> QED BY <1>1 DEF View

LEMMA ScrolledShows ==
  ASSUME NEW s, Sound(s), NEW k, Down(s, k), RoomBelow(s)
  PROVE  /\ BlankBelow(Scrolled(s)) /\ Down(Scrolled(s), k + 1)
         /\ View(Scrolled(s)) = [r \in 0 .. (Height - 1) |->
              IF r = Height - 1 THEN BlankRow ELSE View(s)[r + 1]]
<1> DEFINE t == Scrolled(s)
           from == s.screen + ScreenSizeMacro
<1>1. Good(s) /\ s \in State /\ BlankBelow(s) BY DEF Sound, Good
<1>2. t.screen = s.screen + Width /\ t.mem = Cleared(s.mem, from)
  BY <1>1 DEF State, Scrolled
<1>3. /\ Width \in Nat \ {0} /\ Screen \in Nat /\ ScreenSizeMacro = 2 * Screen
      /\ s.screen \in Nat /\ s.screen + ScreenSizeMacro + Width < Cells
      /\ Screen >= Width /\ Height \in Nat \ {0} /\ Cells \in Nat
  <2>1. Height - 1 \in 0 .. (Height - 1) BY ScreenAssumption
  <2> QED BY <1>1, <2>1, RowFits, ScreenAssumption DEF ScreenSizeMacro, RoomBelow, State
<1> HIDE DEF t
<1>4. \A c \in Cell : t.mem[c] = IF c \in from .. (from + Width - 1) THEN Blank ELSE s.mem[c]
  BY <1>2 DEF Cleared
<1>5. BlankBelow(t)
  <2> SUFFICES ASSUME NEW c \in Cell, t.screen + Screen <= c, c < t.screen + ScreenSizeMacro
               PROVE  t.mem[c] = Blank
    BY DEF BlankBelow
  <2>1. CASE c \in from .. (from + Width - 1) BY <1>4, <2>1
  <2>2. CASE c \notin from .. (from + Width - 1)
    <3>1. s.screen + Screen <= c /\ c < s.screen + ScreenSizeMacro
      BY <1>2, <1>3, <2>2 DEF Cell
    <3> QED BY <1>1, <1>4, <2>2, <3>1 DEF BlankBelow
  <2> QED BY <2>1, <2>2
<1>6. Down(t, k + 1)
  <2>1. MaxMoves \in Nat /\ k # MaxMoves BY <1>1, RoomIs
  <2>2. k \in Nat /\ s.screen = k * Width /\ k + 1 \in 0 .. MaxMoves BY <2>1 DEF Down
  <2>3. (k + 1) * Width = k * Width + Width BY <1>3, <2>2
  <2> QED BY <1>2, <2>2, <2>3 DEF Down
<1>7. ASSUME NEW r \in 0 .. (Height - 1), NEW c \in 0 .. (Width - 1)
      PROVE  t.mem[t.screen + r * Width + c]
               = IF r = Height - 1 THEN Blank ELSE s.mem[s.screen + (r + 1) * Width + c]
  <2> DEFINE a == t.screen + r * Width + c
  <2>1. /\ t.screen \in Nat /\ t.screen + ScreenSizeMacro <= Cells
    BY <1>2, <1>3
  <2>2. a \in Cell /\ a < t.screen + Screen /\ r * Width \in Nat BY <2>1, Places
  <2> HIDE DEF a
  <2>3. a < from BY <1>2, <1>3, <2>2 DEF Cell
  <2>4. t.mem[a] = s.mem[a] BY <1>3, <1>4, <2>2, <2>3 DEF Cell
  <2>5. CASE r = Height - 1
    <3>1. Screen = r * Width + Width
      <4>1. Height = r + 1 BY <1>3, <2>5
      <4>2. (r + 1) * Width = r * Width + Width BY RowFits
      <4> QED BY <4>1, <4>2 DEF Screen
    <3>2. s.screen + Screen <= a /\ a < s.screen + ScreenSizeMacro
      BY <1>2, <1>3, <2>2, <2>3, <3>1 DEF a
    <3> QED BY <1>1, <2>2, <2>4, <2>5, <3>2 DEF BlankBelow, a
  <2>6. CASE r # Height - 1
    <3>1. r + 1 \in 0 .. (Height - 1) BY <1>3, <2>6
    <3>2. (r + 1) * Width = r * Width + Width BY RowFits
    <3>3. a = s.screen + (r + 1) * Width + c BY <1>2, <1>3, <2>2, <3>2 DEF a
    <3> QED BY <2>4, <2>6, <3>3 DEF a
  <2> QED BY <2>5, <2>6
<1>8. View(t) = [r \in 0 .. (Height - 1) |->
        IF r = Height - 1 THEN BlankRow ELSE View(s)[r + 1]]
  <2>1. \A r \in 0 .. (Height - 1) :
          [c \in 0 .. (Width - 1) |-> t.mem[t.screen + r * Width + c]]
            = IF r = Height - 1 THEN BlankRow ELSE View(s)[r + 1]
    <3>1. ASSUME NEW r \in 0 .. (Height - 1)
          PROVE  [c \in 0 .. (Width - 1) |-> t.mem[t.screen + r * Width + c]]
                   = IF r = Height - 1 THEN BlankRow ELSE View(s)[r + 1]
      <4>1. CASE r = Height - 1
        <5>1. \A c \in 0 .. (Width - 1) : t.mem[t.screen + r * Width + c] = Blank BY <1>7, <4>1
        <5> QED BY <4>1, <5>1 DEF BlankRow
      <4>2. CASE r # Height - 1
        <5>1. \A c \in 0 .. (Width - 1) :
                t.mem[t.screen + r * Width + c] = s.mem[s.screen + (r + 1) * Width + c]
          BY <1>7, <4>2
        <5>2. r + 1 \in 0 .. (Height - 1) BY <1>3, <4>2
        <5>3. View(s)[r + 1] = [c \in 0 .. (Width - 1) |-> s.mem[s.screen + (r + 1) * Width + c]]
          BY <5>2 DEF View
        <5> QED BY <4>2, <5>1, <5>3
      <4> QED BY <4>1, <4>2
    <3> QED BY <3>1
  <2> QED BY <2>1 DEF View
<1> QED BY <1>5, <1>6, <1>8 DEF t

LEMMA RewoundShows ==
  ASSUME NEW s, Sound(s)
  PROVE  /\ BlankBelow(Rewound(s)) /\ Down(Rewound(s), 0)
         /\ View(Rewound(s)) = View(s)
<1> DEFINE t == Rewound(s)
<1>1. Good(s) /\ s \in State /\ BlankBelow(s) BY DEF Sound, Good
<1>2. t.screen = 0 /\ t.mem = [c \in Cell |-> IF c < ScreenSizeMacro THEN s.mem[s.screen + c]
                                             ELSE s.mem[c]]
  BY <1>1 DEF State, Rewound
<1>3. /\ Width \in Nat \ {0} /\ Screen \in Nat /\ ScreenSizeMacro = 2 * Screen
      /\ s.screen \in Nat /\ s.screen + ScreenSizeMacro <= Cells /\ Cells \in Nat
  BY <1>1, GoodFields, ScreenAssumption DEF Screen, ScreenSizeMacro
<1> HIDE DEF t
<1>4. ASSUME NEW c \in Nat, c < ScreenSizeMacro
      PROVE  c \in Cell /\ s.screen + c \in Cell /\ t.mem[c] = s.mem[s.screen + c]
  <2>1. c \in Cell /\ s.screen + c \in Cell BY <1>3, <1>4 DEF Cell
  <2> QED BY <1>2, <1>4, <2>1
<1>5. BlankBelow(t)
  <2> SUFFICES ASSUME NEW c \in Cell, t.screen + Screen <= c, c < t.screen + ScreenSizeMacro
               PROVE  t.mem[c] = Blank
    BY DEF BlankBelow
  <2>1. /\ c \in Nat /\ c < ScreenSizeMacro
        /\ s.screen + Screen <= s.screen + c /\ s.screen + c < s.screen + ScreenSizeMacro
    BY <1>2, <1>3 DEF Cell
  <2>2. s.screen + c \in Cell /\ t.mem[c] = s.mem[s.screen + c] BY <1>4, <2>1
  <2> QED BY <1>1, <2>1, <2>2 DEF BlankBelow
<1>6. Down(t, 0)
  <2>1. PICK k : Down(s, k) BY DEF Sound
  <2>2. MaxMoves \in Nat BY <1>1, <2>1, RoomIs
  <2> QED BY <1>2, <1>3, <2>2 DEF Down
<1>7. ASSUME NEW r \in 0 .. (Height - 1), NEW c \in 0 .. (Width - 1)
      PROVE  t.mem[t.screen + r * Width + c] = s.mem[s.screen + r * Width + c]
  <2>1. r * Width \in Nat /\ r * Width + c < ScreenSizeMacro BY <1>3, Places
  <2>2. r * Width + c \in Nat BY <1>3, <2>1
  <2>3. t.mem[r * Width + c] = s.mem[s.screen + (r * Width + c)] BY <1>4, <2>1, <2>2
  <2>4. /\ t.screen + r * Width + c = r * Width + c
        /\ s.screen + r * Width + c = s.screen + (r * Width + c)
    BY <1>2, <1>3, <2>1
  <2> QED BY <2>3, <2>4
<1> QED BY <1>5, <1>6, <1>7 DEF View, t

LEMMA LfShows ==
  ASSUME NEW s, Sound(s), NEW k, Down(s, k)
  PROVE  /\ BlankBelow(ConsoleLf(s)) /\ Down(ConsoleLf(s), FedMoves(s, k))
         /\ View(ConsoleLf(s)) = FedView(s, k) /\ ConsoleLf(s).y = FedRow(s)
<1>1. Good(s) /\ s \in State BY DEF Sound, Good
<1>2. CASE ~AtLast(s)
  <2>1. s.y < Height - 1 BY <1>1, <1>2, ScreenAssumption DEF AtLast, State
  <2>2. /\ ConsoleLf(s).mem = s.mem /\ ConsoleLf(s).screen = s.screen
        /\ ConsoleLf(s).y = s.y + 1
    BY <1>1, <2>1 DEF State, ConsoleLf, UpdateCursor
  <2> QED BY <1>2, <2>2 DEF Sound, BlankBelow, Down, View, FedView, FedMoves, FedRow
<1>3. CASE AtLast(s)
  <2> DEFINE t == IF RoomBelow(s) THEN Scrolled(s) ELSE Rewound(s)
             u == UpdateScreen(t)
  <2>1. Good(t) /\ t.y = s.y BY <1>1, ScrolledGood, RewoundGood
  <2>2. ConsoleLf(s) = UpdateCursor(u)
    BY <1>1, <1>3, ScreenAssumption DEF ConsoleLf, ScrollUp, AtLast, State
  <2>3. BlankBelow(t) /\ Down(t, FedMoves(s, k)) /\ View(t) = FedView(s, k)
    <3>1. MaxMoves \in Nat \ {0} /\ (RoomBelow(s) <=> k # MaxMoves) BY <1>1, RoomIs
    <3>2. CASE RoomBelow(s)
      BY <1>3, <3>1, <3>2, ScrolledShows DEF FedMoves, FedView
    <3>3. CASE ~RoomBelow(s)
      BY <1>3, <3>1, <3>3, RewoundShows DEF FedMoves, FedView
    <3> QED BY <3>2, <3>3
  <2> HIDE DEF t
  <2>4. Good(u) /\ u.y = t.y /\ u.mem = t.mem /\ u.screen = t.screen /\ View(u) = View(t)
    BY <2>1, UpdateScreenGood, UpdateShows
  <2> HIDE DEF u
  <2>5. /\ ConsoleLf(s).y = s.y /\ ConsoleLf(s).mem = t.mem /\ ConsoleLf(s).screen = t.screen
        /\ View(ConsoleLf(s)) = View(t)
    BY <2>1, <2>2, <2>4, UpdateCursorGood, UpdateShows
  <2> QED BY <1>3, <2>3, <2>5 DEF BlankBelow, Down, FedRow
<1> QED BY <1>2, <1>3

LEMMA CrShows ==
  ASSUME NEW s, Sound(s), NEW k, Down(s, k)
  PROVE  /\ Sound(ConsoleCr(s)) /\ Down(ConsoleCr(s), k)
         /\ View(ConsoleCr(s)) = View(s) /\ ConsoleCr(s).y = s.y /\ ConsoleCr(s).x = 0
<1>1. Good(s) /\ s \in State BY DEF Sound, Good
<1>2. /\ ConsoleCr(s).mem = s.mem /\ ConsoleCr(s).screen = s.screen
      /\ ConsoleCr(s).y = s.y
  BY <1>1 DEF State, ConsoleCr, UpdateCursor
<1>3. Good(ConsoleCr(s)) /\ ConsoleCr(s).x = 0 BY <1>1, CrGood
<1> QED BY <1>2, <1>3 DEF Sound, BlankBelow, Down, View

LEMMA LfSound ==
  ASSUME NEW s, Sound(s), NEW k, Down(s, k)
  PROVE  Sound(ConsoleLf(s)) /\ ConsoleLf(s).x = s.x
BY LfGood, LfShows DEF Sound, Down

(* A character stored in the window changes its place on the screen and    *)
(* nothing else that is, or will be, seen.                                 *)
Marked(s, y, x, ch) == [View(s) EXCEPT ![y][x] = ch]

LEMMA StoreShows ==
  ASSUME NEW s, Good(s), BlankBelow(s), NEW t, NEW y \in 0 .. (Height - 1), NEW x \in 0 .. (Width - 1),
         NEW ch, NEW p, p = s.screen + y * Width + x, t.screen = s.screen,
         \A c \in Cell : t.mem[c] = IF c = p THEN ch ELSE s.mem[c]
  PROVE  BlankBelow(t) /\ View(t) = Marked(s, y, x, ch)
<1>1. /\ s.screen \in Nat /\ s.screen + ScreenSizeMacro <= Cells
      /\ Screen \in Nat /\ Width \in Nat
  BY GoodFields, ScreenAssumption DEF Screen
<1>2. p \in Cell /\ p < s.screen + Screen BY <1>1, Places
<1>3. BlankBelow(t)
  <2>1. \A c \in Cell : s.screen + Screen <= c => c # p BY <1>1, <1>2 DEF Cell
  <2> QED BY <2>1 DEF BlankBelow
<1>4. ASSUME NEW r \in 0 .. (Height - 1), NEW c \in 0 .. (Width - 1)
      PROVE  t.mem[t.screen + r * Width + c]
               = IF r = y /\ c = x THEN ch ELSE s.mem[s.screen + r * Width + c]
  <2>1. s.screen + r * Width + c \in Cell /\ r * Width \in Nat /\ y * Width \in Nat
    BY <1>1, Places
  <2>2. s.screen + r * Width + c = p => r * Width + c = y * Width + x BY <1>1, <2>1
  <2>3. s.screen + r * Width + c = p <=> (r = y /\ c = x) BY <2>2, PlaceIsOne
  <2> QED BY <2>1, <2>3
<1>5. View(t) = [r \in 0 .. (Height - 1) |-> [c \in 0 .. (Width - 1) |->
                  IF r = y /\ c = x THEN ch ELSE s.mem[s.screen + r * Width + c]]]
  BY <1>4 DEF View
<1>6. Marked(s, y, x, ch) = [r \in 0 .. (Height - 1) |-> [c \in 0 .. (Width - 1) |->
                  IF r = y /\ c = x THEN ch ELSE s.mem[s.screen + r * Width + c]]]
  BY DEF View, Marked
<1> QED BY <1>3, <1>5, <1>6

LEMMA BsShows ==
  ASSUME NEW s, Sound(s), NEW k, Down(s, k), s.x > 0
  PROVE  /\ Sound(ConsoleBs(s)) /\ Down(ConsoleBs(s), k)
         /\ ConsoleBs(s).x = s.x - 1 /\ ConsoleBs(s).y = s.y
         /\ View(ConsoleBs(s)) = Marked(s, s.y, s.x - 1, Blank)
<1>1. Good(s) /\ s \in State /\ BlankBelow(s) BY DEF Sound, Good
<1>2. Width \in Nat /\ s.y * Width \in Nat BY <1>1, RowFits, ScreenAssumption DEF State
<1>3. s.pos - 1 = s.screen + s.y * Width + (s.x - 1) BY <1>1, <1>2 DEF Good, State
<1>4. s.x - 1 \in 0 .. (Width - 1) /\ s.y \in 0 .. (Height - 1) BY <1>1, <1>2 DEF State
<1>5. /\ ConsoleBs(s).mem = [s.mem EXCEPT ![s.pos - 1] = Blank]
      /\ ConsoleBs(s).screen = s.screen /\ ConsoleBs(s).y = s.y /\ ConsoleBs(s).x = s.x - 1
  BY <1>1 DEF State, ConsoleBs, UpdateCursor
<1>6. \A c \in Cell : ConsoleBs(s).mem[c] = IF c = s.pos - 1 THEN Blank ELSE s.mem[c]
  BY <1>1, <1>5 DEF State
<1>7. Good(ConsoleBs(s)) BY <1>1, BsGood
<1>8. BlankBelow(ConsoleBs(s)) /\ View(ConsoleBs(s)) = Marked(s, s.y, s.x - 1, Blank)
  <2>1. ASSUME NEW y \in 0 .. (Height - 1), y = s.y, NEW x \in 0 .. (Width - 1), x = s.x - 1,
               NEW t, t = ConsoleBs(s), NEW p, p = s.pos - 1
        PROVE  BlankBelow(t) /\ View(t) = Marked(s, y, x, Blank)
    <3>1. p = s.screen + y * Width + x BY <1>3, <2>1
    <3>2. t.screen = s.screen BY <1>5, <2>1
    <3>3. \A c \in Cell : t.mem[c] = IF c = p THEN Blank ELSE s.mem[c] BY <1>6, <2>1
    <3> QED BY <1>1, <3>1, <3>2, <3>3, StoreShows
  <2> QED BY <1>4, <2>1
<1> QED BY <1>5, <1>7, <1>8 DEF Sound, Down

LEMMA StoredShows ==
  ASSUME NEW s, Sound(s), NEW k, Down(s, k), s.x < Width, NEW ch \in Letters
  PROVE  /\ BlankBelow(Stored(s, ch)) /\ Down(Stored(s, ch), k)
         /\ Stored(s, ch).x = s.x + 1 /\ Stored(s, ch).y = s.y
         /\ View(Stored(s, ch)) = Marked(s, s.y, s.x, ch)
<1>1. Good(s) /\ s \in State /\ BlankBelow(s) BY DEF Sound, Good
<1>2. s.pos = s.screen + s.y * Width + s.x BY <1>1 DEF Good
<1>3. s.x \in 0 .. (Width - 1) /\ s.y \in 0 .. (Height - 1)
  BY <1>1, ScreenAssumption DEF State
<1>4. /\ Stored(s, ch).mem = [s.mem EXCEPT ![s.pos] = ch]
      /\ Stored(s, ch).screen = s.screen /\ Stored(s, ch).y = s.y /\ Stored(s, ch).x = s.x + 1
  BY <1>1 DEF State, Stored
<1>5. \A c \in Cell : Stored(s, ch).mem[c] = IF c = s.pos THEN ch ELSE s.mem[c]
  BY <1>1, <1>4 DEF State
<1>6. BlankBelow(Stored(s, ch)) /\ View(Stored(s, ch)) = Marked(s, s.y, s.x, ch)
  <2>1. ASSUME NEW y \in 0 .. (Height - 1), y = s.y, NEW x \in 0 .. (Width - 1), x = s.x,
               NEW t, t = Stored(s, ch), NEW p, p = s.pos
        PROVE  BlankBelow(t) /\ View(t) = Marked(s, y, x, ch)
    <3>1. p = s.screen + y * Width + x BY <1>2, <2>1
    <3>2. t.screen = s.screen BY <1>4, <2>1
    <3>3. \A c \in Cell : t.mem[c] = IF c = p THEN ch ELSE s.mem[c] BY <1>5, <2>1
    <3> QED BY <1>1, <3>1, <3>2, <3>3, StoreShows, SMTT(30)
  <2> QED BY <1>3, <2>1
<1> QED BY <1>4, <1>6 DEF Down

LEMMA BecomeSound ==
  ASSUME NEW s, Sound(s), NEW k, Down(s, k), Become(s), progress' # "boot"
  PROVE  /\ Sound(Now)' /\ Display' = View(s)
         /\ cursor_x' = s.x /\ cursor_y' = s.y /\ (screen_pos \div Width)' = k
<1>1. Now' = s BY DEF Become, Now, Sound, Good, State
<1>2. screen_pos' \div Width = k BY RoomIs DEF Become, Sound
<1>3. screen_pos' = s.screen /\ video' = s.mem BY DEF Become
<1>4. Display' = View(s) BY <1>3 DEF Display, View
<1>5. Sound(Now)'
  BY <1>1 DEF Sound, Good, State, BlankBelow, Down, MaxMoves, ScreenSizeMacro, Screen, Cell, Char
<1> QED BY <1>2, <1>4, <1>5 DEF Become

LEMMA InitShows == ScreenInit => RInv /\ AsTerminal!Init
<1> SUFFICES ASSUME ScreenInit PROVE RInv /\ AsTerminal!Init OBVIOUS
<1>1. RInv BY InitGood DEF ScreenInit, RInv
<1>2. 0 \div Width = 0 BY ScreenAssumption
<1>3. Display = [r \in 0 .. (Height - 1) |-> [c \in 0 .. (Width - 1) |-> Blank]]
  BY DEF ScreenInit, Display
<1> QED BY <1>1, <1>2, <1>3 DEF ScreenInit, AsTerminal!Init, AsTerminal!Row, AsTerminal!EmptyRow, AsTerminal!Col

LEMMA Feeds ==
  ASSUME progress # "boot", Sound(Now), NEW k, Down(Now, k)
  PROVE  /\ Display = View(Now) /\ screen_pos \div Width = k
         /\ AsTerminal!FedShown = FedView(Now, k) /\ AsTerminal!FedY = FedRow(Now)
         /\ AsTerminal!FedMoved = FedMoves(Now, k)
<1>1. Display = View(Now) BY DEF Display, View, Now
<1>2. screen_pos \div Width = k BY RoomIs DEF Sound, Now
<1>3. AsTerminal!AtBottom <=> AtLast(Now) BY DEF AsTerminal!AtBottom, AtLast, Now
<1>4. AsTerminal!Dropped <=> (AtLast(Now) /\ k = MaxMoves)
  BY <1>2, <1>3 DEF AsTerminal!Dropped, MaxMoves
<1> QED BY <1>1, <1>2, <1>3, <1>4
        DEF AsTerminal!FedShown, AsTerminal!FedY, AsTerminal!FedMoved, FedView, FedRow, FedMoves, AsTerminal!Row,
            AsTerminal!EmptyRow, AsTerminal!Col, BlankRow, Now

LEMMA StepShows ==
  RInv /\ [ScreenNext]_screenVars => RInv' /\ [AsTerminal!Next]_(AsTerminal!vars)
<1> SUFFICES ASSUME RInv, [ScreenNext]_screenVars PROVE RInv' /\ [AsTerminal!Next]_(AsTerminal!vars) OBVIOUS
<1>1. IInv' BY StepGood DEF RInv
<1>2. progress # "boot" => Sound(Now) BY DEF RInv
<1> DEFINE moved == screen_pos \div Width
<1>3. CASE UNCHANGED screenVars
  <2>1. Now' = Now /\ progress' = progress /\ screen_pos' = screen_pos BY <1>3 DEF screenVars, Now, position, crt
  <2>2. Sound(Now)' <=> Sound(Now)
    BY <2>1 DEF Sound, Good, State, BlankBelow, Down, MaxMoves, ScreenSizeMacro, Screen, Cell, Char
  <2>3. RInv' BY <1>1, <2>1, <2>2 DEF RInv
  <2>4. UNCHANGED AsTerminal!vars BY <1>3 DEF screenVars, position, crt, AsTerminal!vars, Display
  <2> QED BY <2>3, <2>4
<1>4. CASE BeginWrite
  <2>1. Now' = Now /\ progress' = "write" /\ progress = "idle"
    BY <1>4 DEF BeginWrite, Now, position, crt
  <2>2. Sound(Now)' <=> Sound(Now)
    BY <2>1 DEF Sound, Good, State, BlankBelow, Down, MaxMoves, ScreenSizeMacro, Screen, Cell, Char
  <2>3. RInv' BY <1>1, <1>2, <2>1, <2>2 DEF RInv
  <2>4. UNCHANGED AsTerminal!vars BY <1>4, <2>1 DEF BeginWrite, position, crt, AsTerminal!vars, Display
  <2> QED BY <2>3, <2>4
<1>5. CASE EndWrite
  <2>1. progress = "write" /\ progress' = "idle" /\ Become(UpdateCursor(Now)) BY <1>5 DEF EndWrite
  <2>2. PICK k \in 0 .. MaxMoves : Down(Now, k) BY <1>2, <2>1 DEF Sound
  <2> DEFINE s == UpdateCursor(Now)
  <2>3. Sound(s) /\ Down(s, k) /\ View(s) = View(Now) /\ s.x = Now.x /\ s.y = Now.y
    BY <1>2, <2>1, <2>2, UpdateShows, UpdateCursorGood DEF Sound, BlankBelow, Down
  <2> HIDE DEF s
  <2>4. /\ Sound(Now)' /\ Display' = View(s) /\ cursor_x' = s.x /\ cursor_y' = s.y
        /\ (screen_pos \div Width)' = k
    BY <2>1, <2>2, <2>3, BecomeSound DEF s
  <2>5. Display = View(Now) /\ screen_pos \div Width = k BY <1>2, <2>1, <2>2, Feeds
  <2>6. UNCHANGED AsTerminal!vars BY <2>3, <2>4, <2>5 DEF AsTerminal!vars, Now
  <2> QED BY <1>1, <2>1, <2>4, <2>6 DEF RInv
<1>6. CASE WriteLf
  <2>1. /\ progress = "write" /\ progress' = "write" /\ Sound(Now)
        /\ Become(ConsoleCr(ConsoleLf(Now)))
    BY <1>2, <1>6 DEF WriteLf, Writing
  <2>2. PICK k \in 0 .. MaxMoves : Down(Now, k) BY <2>1 DEF Sound
  <2> DEFINE m == FedMoves(Now, k)
             l == ConsoleLf(Now)
             s == ConsoleCr(l)
  <2>3. Sound(l) /\ Down(l, m) /\ View(l) = FedView(Now, k) /\ l.y = FedRow(Now)
    BY <2>1, <2>2, LfShows, LfSound
  <2> HIDE DEF l, m
  <2>4. /\ Sound(s) /\ Down(s, m) /\ View(s) = FedView(Now, k) /\ s.y = FedRow(Now)
        /\ s.x = 0
    BY <2>3, CrShows
  <2>5. Become(s) BY <2>1 DEF s, l
  <2> HIDE DEF s
  <2>6. /\ Sound(Now)' /\ Display' = FedView(Now, k) /\ cursor_x' = 0 /\ cursor_y' = FedRow(Now)
        /\ (screen_pos \div Width)' = m
    BY <2>1, <2>4, <2>5, BecomeSound
  <2>7. AsTerminal!LineFeed BY <2>1, <2>2, <2>6, Feeds DEF AsTerminal!LineFeed, m
  <2> QED BY <1>1, <2>1, <2>6, <2>7 DEF RInv, AsTerminal!Next
<1>7. CASE WriteBs
  <2>1. progress = "write" /\ progress' = "write" /\ Sound(Now) /\ Become(ConsoleBs(Now))
    BY <1>2, <1>7 DEF WriteBs, Writing
  <2>2. PICK k \in 0 .. MaxMoves : Down(Now, k) BY <2>1 DEF Sound
  <2>3. Display = View(Now) /\ screen_pos \div Width = k BY <2>1, <2>2, Feeds
  <2>4. CASE cursor_x > 0
    <3> DEFINE s == ConsoleBs(Now)
    <3>1. Now.x > 0 /\ Now.x = cursor_x /\ Now.y = cursor_y BY <2>4 DEF Now
    <3>2. /\ Sound(s) /\ Down(s, k) /\ s.x = cursor_x - 1 /\ s.y = cursor_y
          /\ View(s) = Marked(Now, cursor_y, cursor_x - 1, Blank)
      BY <2>1, <2>2, <3>1, BsShows
    <3> HIDE DEF s
    <3>3. /\ Sound(Now)' /\ Display' = View(s) /\ cursor_x' = s.x /\ cursor_y' = s.y
          /\ (screen_pos \div Width)' = k
      BY <2>1, <3>2, BecomeSound DEF s
    <3>4. AsTerminal!Backspace BY <2>3, <2>4, <3>2, <3>3 DEF AsTerminal!Backspace, Marked
    <3> QED BY <1>1, <2>1, <3>3, <3>4 DEF RInv, AsTerminal!Next
  <2>5. CASE ~ (cursor_x > 0)
    <3>1. ConsoleBs(Now) = Now BY <2>5 DEF ConsoleBs, Now
    <3>2. /\ Sound(Now)' /\ Display' = View(Now) /\ cursor_x' = Now.x /\ cursor_y' = Now.y
          /\ (screen_pos \div Width)' = k
      BY <2>1, <2>2, <3>1, BecomeSound
    <3>3. UNCHANGED AsTerminal!vars BY <2>3, <3>2 DEF AsTerminal!vars, Now
    <3> QED BY <1>1, <2>1, <3>2, <3>3 DEF RInv
  <2> QED BY <2>4, <2>5
<1>8. ASSUME NEW ch \in Letters, WriteChar(ch)
      PROVE  RInv' /\ AsTerminal!Next
  <2>1. /\ progress = "write" /\ progress' = "write" /\ Sound(Now)
        /\ Become(Stored(Wrapped(Now), ch))
    BY <1>2, <1>8 DEF WriteChar, Writing
  <2>2. PICK k \in 0 .. MaxMoves : Down(Now, k) BY <2>1 DEF Sound
  <2>3. /\ Display = View(Now) /\ screen_pos \div Width = k
        /\ AsTerminal!FedShown = FedView(Now, k) /\ AsTerminal!FedY = FedRow(Now)
        /\ AsTerminal!FedMoved = FedMoves(Now, k)
    BY <2>1, <2>2, Feeds
  <2>4. cursor_x \in 0 .. Width /\ Width \in Nat \ {0} /\ Now.x = cursor_x /\ Now.y = cursor_y
    BY <2>1, ScreenAssumption DEF Sound, Good, State, Now
  <2>5. Good(Stored(Wrapped(Now), ch)) BY <2>1, StoredGood DEF Sound
  <2> DEFINE w == Wrapped(Now)
             s == Stored(w, ch)
  <2>6. ASSUME NEW m, Sound(w), Down(w, m), w.x < Width
        PROVE  /\ Sound(Now)' /\ Display' = Marked(w, w.y, w.x, ch)
               /\ cursor_x' = w.x + 1 /\ cursor_y' = w.y /\ (screen_pos \div Width)' = m
    <3>1. Good(s) /\ Become(s) BY <2>1, <2>5
    <3> HIDE DEF w
    <3>2. /\ BlankBelow(s) /\ Down(s, m) /\ s.x = w.x + 1 /\ s.y = w.y
          /\ View(s) = Marked(w, w.y, w.x, ch)
      BY <2>6, StoredShows
    <3> HIDE DEF s
    <3>3. Sound(s) BY <3>1, <3>2 DEF Sound, Down
    <3> QED BY <2>1, <3>1, <3>2, <3>3, BecomeSound
  <2>7. CASE cursor_x < Width
    <3>1. w = Now BY <2>4, <2>7 DEF Wrapped
    <3> HIDE DEF w
    <3>2. /\ Sound(Now)' /\ Display' = Marked(Now, cursor_y, cursor_x, ch)
          /\ cursor_x' = cursor_x + 1 /\ cursor_y' = cursor_y /\ (screen_pos \div Width)' = k
      BY <2>1, <2>2, <2>4, <2>6, <2>7, <3>1
    <3>3. AsTerminal!Put(ch) BY <2>3, <2>7, <3>2 DEF AsTerminal!Put, Marked
    <3> QED BY <1>1, <2>1, <3>2, <3>3 DEF RInv, AsTerminal!Next
  <2>8. CASE ~ (cursor_x < Width)
    <3> DEFINE r == ConsoleCr(Now)
    <3>1. cursor_x = Width BY <2>4, <2>8
    <3>2. w = ConsoleLf(r) BY <2>4, <3>1 DEF Wrapped
    <3>3. /\ Sound(r) /\ Down(r, k) /\ View(r) = View(Now) /\ r.y = Now.y /\ r.x = 0
      BY <2>1, <2>2, CrShows
    <3> HIDE DEF r, w
    <3>4. FedView(r, k) = FedView(Now, k) /\ FedRow(r) = FedRow(Now)
          /\ FedMoves(r, k) = FedMoves(Now, k)
      BY <3>3 DEF FedView, FedRow, FedMoves, AtLast
    <3>5. /\ Sound(w) /\ Down(w, FedMoves(Now, k)) /\ View(w) = FedView(Now, k)
          /\ w.y = FedRow(Now) /\ w.x = 0 /\ w.x < Width
      BY <2>4, <3>2, <3>3, <3>4, LfShows, LfSound
    <3>6. /\ Sound(Now)' /\ Display' = [FedView(Now, k) EXCEPT ![FedRow(Now)][0] = ch]
          /\ cursor_x' = 1 /\ cursor_y' = FedRow(Now)
          /\ (screen_pos \div Width)' = FedMoves(Now, k)
      BY <2>6, <3>5 DEF Marked
    <3>7. AsTerminal!Put(ch) BY <2>3, <3>1, <3>6 DEF AsTerminal!Put
    <3> QED BY <1>1, <2>1, <3>6, <3>7 DEF RInv, AsTerminal!Next
  <2> QED BY <2>7, <2>8
<1>9. CASE ConsoleInit
  <2> DEFINE m == [c \in Cell |-> Blank]
             s == [Now EXCEPT !.screen = 0, !.pos = 0, !.mem = m]
             t == UpdateCursor(UpdateScreen(s))
  <2>1. /\ progress = "boot" /\ progress' = "write" /\ Become(t) BY <1>9 DEF ConsoleInit
  <2>2. /\ Good(Now) /\ cursor_x = 0 /\ cursor_y = 0 /\ screen_pos = 0
        /\ Now.x = 0 /\ Now.y = 0
    BY <2>1 DEF RInv, IInv, Now
  <2>3. t.screen = 0 /\ t.mem = m /\ t.x = 0 /\ t.y = 0
    BY <2>2 DEF Now, UpdateCursor, UpdateScreen
  <2>4. Good(t) BY <2>2, ClearedGood
  <2>5. MaxMoves \in Nat /\ 0 * Width = 0 /\ Down(t, 0)
    <3>1. Cells - ScreenSizeMacro - Width - 1 \in Nat /\ Width \in Nat \ {0}
      BY ScreenAssumption DEF ScreenSizeMacro, Screen
    <3>2. MaxMoves \in Nat BY <3>1, Division DEF MaxMoves
    <3> QED BY <2>3, <3>1, <3>2 DEF Down
  <2>6. BlankBelow(t) BY <2>3 DEF BlankBelow
  <2>7. View(t) = Display
    <3>1. \A r \in 0 .. (Height - 1), c \in 0 .. (Width - 1) : t.mem[t.screen + r * Width + c] = Blank
      <4>1. 0 + ScreenSizeMacro <= Cells
        BY ScreenAssumption DEF ScreenSizeMacro, Screen
      <4>2. \A r \in 0 .. (Height - 1), c \in 0 .. (Width - 1) : 0 + r * Width + c \in Cell
        BY <4>1, Places
      <4> QED BY <2>3, <4>2
    <3> QED BY <2>1, <3>1 DEF View, Display
  <2>8. Sound(t) BY <2>4, <2>5, <2>6 DEF Sound, Down
  <2> HIDE DEF t
  <2>9. /\ Sound(Now)' /\ Display' = View(t) /\ cursor_x' = 0 /\ cursor_y' = 0
        /\ (screen_pos \div Width)' = 0
    BY <2>1, <2>3, <2>5, <2>8, BecomeSound
  <2>10. screen_pos \div Width = 0 BY <2>2, ScreenAssumption
  <2>11. UNCHANGED AsTerminal!vars BY <2>2, <2>7, <2>9, <2>10 DEF AsTerminal!vars
  <2> QED BY <1>1, <2>1, <2>9, <2>11 DEF RInv
<1> QED BY <1>3, <1>4, <1>5, <1>6, <1>7, <1>8, <1>9 DEF ScreenNext

(* A screen that scrolls, but for one line feed dropped each time the      *)
(* window returns: console_write implements Terminal for every size of     *)
(* screen and of video memory.                                             *)
THEOREM ConsoleImplementsTerminal == ScreenSpec => ImplementsTerminal
BY InitShows, StepShows, PTL DEF ScreenSpec, ImplementsTerminal, AsTerminal!Spec

=============================================================================
