---------------------------- MODULE Peripherals ----------------------------
(***************************************************************************)
(* The keyboard and the text display of the PC: pintos2 devices/kbd.c and  *)
(* devices/vga.c.  A scancode is a number, the prefix 0xe0 adding 57344,   *)
(* and what keyboard_interrupt() makes of it an ASCII code; module         *)
(* Terminal has the buffer the character goes to.  A character vga_putc()  *)
(* prints is one of the control characters its switch names, or a glyph.   *)
(***************************************************************************)
EXTENDS Integers, Sequences

CONSTANTS
    Keys,                      \* the keys of the keyboard the model presses
    COL_CNT, ROW_CNT, TabStop, \* the display
    MaxPuts

VARIABLES kbd, vga

-----------------------------------------------------------------------------
(* The keyboard.                                                           *)

Keymap(first, chars) == [first |-> first, chars |-> chars]
invariant_keymap ==
    <<Keymap(1, <<27>>), Keymap(14, <<8>>), Keymap(15, <<9, 81, 87, 69, 82, 84, 89, 85, 73, 79, 80>>),
      Keymap(28, <<13>>), Keymap(30, <<65, 83, 68, 70, 71, 72, 74, 75, 76>>),
      Keymap(44, <<90, 88, 67, 86, 66, 78, 77>>), Keymap(55, <<42>>), Keymap(57, <<32>>), Keymap(83, <<127>>)>>
unshifted_keymap ==
    <<Keymap(2, <<49, 50, 51, 52, 53, 54, 55, 56, 57, 48, 45, 61>>), Keymap(26, <<91, 93>>),
      Keymap(39, <<59, 39, 96>>), Keymap(43, <<92>>), Keymap(51, <<44, 46, 47>>)>>
shifted_keymap ==
    <<Keymap(2, <<33, 64, 35, 36, 37, 94, 38, 42, 40, 41, 95, 43>>), Keymap(26, <<123, 125>>),
      Keymap(39, <<58, 34, 126>>), Keymap(43, <<124>>), Keymap(51, <<60, 62, 63>>)>>

\* map_key(): the character, or << >>.
Within(k, code) == k.first <= code /\ code < k.first + Len(k.chars)
map_key(k, code) ==
    LET hits == SelectSeq(k, LAMBDA e : Within(e, code))
    IN IF hits = << >> THEN << >> ELSE <<hits[1].chars[code - hits[1].first + 1]>>

CapsLock == 58
Extended(code) == 57344 + code
shift_keys ==
    [left_shift |-> 42, right_shift |-> 54, left_alt |-> 56, right_alt |-> Extended(56),
     left_ctrl |-> 29, right_ctrl |-> Extended(29)]

tolower(c) == IF c \in 65 .. 90 THEN c + 32 ELSE c
\* What goes to the buffer for a key that is pressed: Ctrl overrides Shift.
Character(c, shift, ctrl, alt, caps_lock) ==
    LET typed == IF ctrl /\ c >= 64 /\ c < 96 THEN c - 64
                 ELSE IF shift = caps_lock THEN tolower(c) ELSE c
    IN (IF alt THEN typed + 128 ELSE typed) % 256
CapsLocked(s, release) == IF release THEN s.caps_lock ELSE ~ s.caps_lock
keyboard_interrupt(s, code, release) ==
    LET shift == s.left_shift \/ s.right_shift
        alt == s.left_alt \/ s.right_alt
        ctrl == s.left_ctrl \/ s.right_ctrl
        c == map_key(invariant_keymap, code) \o map_key(IF shift THEN shifted_keymap ELSE unshifted_keymap, code)
    IN IF code = CapsLock THEN [s EXCEPT !.caps_lock = CapsLocked(s, release), !.out = << >>]
       ELSE IF c # << >>
       THEN IF release THEN [s EXCEPT !.out = << >>]
            ELSE IF c[1] = 127 /\ ctrl /\ alt THEN [s EXCEPT !.rebooting = TRUE, !.out = << >>]
            ELSE [s EXCEPT !.out = <<Character(c[1], shift, ctrl, alt, s.caps_lock)>>]
       ELSE [k \in DOMAIN s |->
                IF k \in DOMAIN shift_keys /\ shift_keys[k] = code THEN ~ release
                ELSE IF k = "out" THEN << >> ELSE s[k]]

KeyboardStart ==
    [left_shift |-> FALSE, right_shift |-> FALSE, left_alt |-> FALSE, right_alt |-> FALSE,
     left_ctrl |-> FALSE, right_ctrl |-> FALSE, caps_lock |-> FALSE, out |-> << >>,
     rebooting |-> FALSE, held |-> {}, capsPresses |-> 0, key |-> 0]
\* A key that is not held is pressed, one that is held is let go or repeats.
KeyboardNext ==
    /\ ~ kbd.rebooting
    /\ \E code \in Keys, release \in BOOLEAN :
          /\ release => code \in kbd.held
          /\ kbd' = [keyboard_interrupt(kbd, code, release) EXCEPT
                        !.held = IF release THEN @ \ {code} ELSE @ \union {code}, !.key = code,
                        !.capsPresses = IF code = CapsLock /\ ~ release THEN (@ + 1) % 2 ELSE @]

-----------------------------------------------------------------------------
\* kbd.c: after any sequence of presses, repeats and releases the modifiers are those of
\* the keys held down, Caps Lock has the parity of its presses, a letter is a capital
\* exactly with Shift or Caps Lock, and only Ctrl+Alt+Del reboots.
Held(S) == kbd.held \intersect S # {}
KeysAgree ==
    /\ \A k \in DOMAIN shift_keys : shift_keys[k] \in Keys => (kbd[k] <=> shift_keys[k] \in kbd.held)
    /\ kbd.caps_lock <=> kbd.capsPresses = 1
    /\ kbd.rebooting => Held({29, Extended(29)}) /\ Held({56, Extended(56)}) /\ 83 \in kbd.held
    /\ kbd.out # << >> =>
          LET c == kbd.out[1] % 128 IN
          /\ (kbd.out[1] >= 128) <=> Held({56, Extended(56)})
          /\ kbd.key = 30 => c = IF Held({29, Extended(29)}) THEN 1
                                 ELSE IF Held({42, 54}) # (kbd.capsPresses = 1) THEN 65 ELSE 97
          /\ kbd.key = 3 => c = IF Held({42, 54})
                                THEN IF Held({29, Extended(29)}) THEN 0 ELSE 64 ELSE 50

-----------------------------------------------------------------------------
(* The display, and beside it the endless paper it shows the end of: a     *)
(* function from <<row, column>> to what is written there, and the paper   *)
(* row of the screen's first row.                                          *)

Blank == " "
clear_row(fb, y) == [fb EXCEPT ![y] = [x \in 0 .. COL_CNT - 1 |-> Blank]]
cls(s) == [s EXCEPT !.fb = [y \in 0 .. ROW_CNT - 1 |-> [x \in 0 .. COL_CNT - 1 |-> Blank]],
                    !.cx = 0, !.cy = 0]
newline(s) ==
    IF s.cy + 1 < ROW_CNT THEN [s EXCEPT !.cx = 0, !.cy = @ + 1]
    ELSE [s EXCEPT !.cx = 0,
                   !.fb = clear_row([y \in 0 .. ROW_CNT - 1 |-> IF y < ROW_CNT - 1 THEN s.fb[y + 1] ELSE s.fb[y]],
                                    ROW_CNT - 1)]
\* move_cursor() and find_cursor(): one number holds the position.
move_cursor(s) == [s EXCEPT !.cursor = s.cx + COL_CNT * s.cy]
find_cursor(s) == [s EXCEPT !.cx = s.cursor % COL_CNT, !.cy = s.cursor \div COL_CNT]
init(s) == IF s.inited THEN s ELSE [find_cursor(s) EXCEPT !.inited = TRUE]
Wraps(s) == IF s.cx >= COL_CNT THEN newline(s) ELSE s
Put(s, c) ==
    CASE c = "newline" -> newline(s)
      [] c = "formfeed" -> cls(s)
      [] c = "backspace" -> [s EXCEPT !.cx = IF @ > 0 THEN @ - 1 ELSE 0]
      [] c = "return" -> [s EXCEPT !.cx = 0]
      [] c = "tab" -> Wraps([s EXCEPT !.cx = ((@ + TabStop) \div TabStop) * TabStop])
      [] c = "bell" -> s                    \* speaker_beep(), see module Clock
      [] OTHER -> Wraps([s EXCEPT !.fb[s.cy][s.cx] = c, !.cx = @ + 1])
vga_putc(s, c) == move_cursor(Put(init(s), c))

-----------------------------------------------------------------------------
(* The paper.                                                              *)
Glyphs == {"x", "y"}
Column(row, c, col) ==
    CASE c = "backspace" -> IF col = 0 THEN 0 ELSE col - 1
      [] c = "return" -> 0
      [] c = "tab" -> ((col \div TabStop) + 1) * TabStop
      [] c \in Glyphs -> col + 1
      [] OTHER -> col
Typed(p, c) ==
    LET col == Column(p.row, c, p.col)
        cells == IF c \in Glyphs
                 THEN {q \in p.cells : <<q[1], q[2]>> # <<p.row, p.col>>} \union {<<p.row, p.col, c>>}
                 ELSE p.cells
    IN IF c = "formfeed" THEN [cells |-> {}, row |-> 0, col |-> 0, top |-> 0]
       ELSE IF c = "newline" \/ col >= COL_CNT
       THEN [cells |-> cells, row |-> p.row + 1, col |-> 0,
             top |-> IF p.row + 1 >= p.top + ROW_CNT THEN p.top + 1 ELSE p.top]
       ELSE [p EXCEPT !.cells = cells, !.col = col]

ScreenStart ==
    [fb |-> [y \in 0 .. ROW_CNT - 1 |-> [x \in 0 .. COL_CNT - 1 |-> Blank]], cx |-> 0, cy |-> 0,
     cursor |-> COL_CNT + 1, inited |-> FALSE, puts |-> 0,
     paper |-> [cells |-> {}, row |-> 1, col |-> 1, top |-> 0]]
ScreenNext ==
    /\ vga.puts < MaxPuts
    /\ \E c \in Glyphs \union {"newline", "formfeed", "backspace", "return", "tab", "bell"} :
          vga' = [vga_putc(vga, c) EXCEPT !.paper = Typed(@, c), !.puts = @ + 1]

-----------------------------------------------------------------------------
\* vga.c: the screen shows the last rows of what was written, the cursor is on it and
\* where the next character will go, whatever mix of control characters came.
ScreenShows ==
    /\ vga.cx < COL_CNT /\ vga.cy < ROW_CNT
    /\ vga.inited => /\ vga.cy = vga.paper.row - vga.paper.top /\ vga.cx = vga.paper.col
                     /\ vga.cursor = vga.cx + COL_CNT * vga.cy
    /\ \A y \in 0 .. ROW_CNT - 1, x \in 0 .. COL_CNT - 1 :
          vga.fb[y][x] # Blank <=> \E q \in vga.paper.cells : q = <<vga.paper.top + y, x, vga.fb[y][x]>>
=============================================================================
