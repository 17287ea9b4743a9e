---------------------------- MODULE TerminalApp -----------------------------
(***************************************************************************)
(* The terminal's snake game (terminal/src/snake.rs): the frame loop with  *)
(* its input queue, catch-up steps and interpolated drawing, the snake,    *)
(* food and gold food, and the hazards of hard mode.                       *)
(*                                                                         *)
(* A draw of the random generator is any value; time is the number of      *)
(* steps by which the loop is behind.  Pixels and colours are left out: of *)
(* the screen the model keeps what the renderer remembers having drawn.    *)
(* A dead bomb, bullet or rocket is one value: nobody reads the rest.      *)
(***************************************************************************)
EXTENDS Integers, Sequences, FiniteSets, SequencesExt, TLC, FiniteSetsExt

CONSTANTS GridW, GridH, MaxLen,  \* GRID_W, GRID_H, MAX_LEN
          SnakeStart, FoodFallback,
          CatchUp,               \* steps a frame may catch up
          BombSlots, BulletSlots, AkBurst,
          FuseOf, RadiusOf,      \* per kind of bomb
          RocketLife, GoldTtl, BannerTtl,
          DrawnCells,            \* bound: the cells the generator draws
          MaxScore, MaxSteps     \* bounds of one game

VARIABLE sn
snVars == <<sn>>

Cells == (0 .. GridW - 1) \X (0 .. GridH - 1)
Dirs == {"up", "down", "left", "right"}
Opposite(d) == CASE d = "up" -> "down" [] d = "down" -> "up" [] d = "left" -> "right" [] d = "right" -> "left"
Toward(p, d) == CASE d = "up" -> <<p[1], p[2] - 1>> [] d = "down" -> <<p[1], p[2] + 1>>
                  [] d = "left" -> <<p[1] - 1, p[2]>> [] d = "right" -> <<p[1] + 1, p[2]>>
Abs(n) == IF n < 0 THEN -n ELSE n
NoGold == [pos |-> <<-1, -1>>, ttl |-> 0]
NoBomb == [pos |-> <<0, 0>>, fuse |-> 0, kind |-> "small", alive |-> FALSE]
NoBullet == [pos |-> <<0, 0>>, dir |-> "right", alive |-> FALSE, slow |-> 0]
NoRocket == [pos |-> <<0, 0>>, life |-> 0, alive |-> FALSE]

OnSnake(s, p) == p \in ToSet(s.body)
Lost(s) == [s EXCEPT !.phase = "over"]
Capture(s) == [s EXCEPT !.motion = [body |-> s.body, bullets |-> s.bullets]]

\* spawn_food: a cell of 512 draws that nothing occupies, or the fallback.
SpawnFood(s, avoid) ==
    {FoodFallback} \cup
    {c \in DrawnCells : /\ ~OnSnake(s, c) /\ c # avoid /\ c # s.gold.pos
                        /\ \A b \in ToSet(s.bombs) \cup ToSet(s.bullets) \cup {s.rocket} : b.alive => b.pos # c}

Reset(s) ==
    LET fresh == [s EXCEPT !.body = SnakeStart, !.dir = "right", !.pending = "right", !.score = 0,
                           !.phase = "playing", !.gold = NoGold]
    IN {Capture([fresh EXCEPT !.food = f,
                              !.bombs = [i \in 1 .. BombSlots |-> NoBomb],
                              !.bullets = [i \in 1 .. BulletSlots |-> NoBullet],
                              !.rocket = NoRocket, !.banner = [kind |-> "none", ttl |-> 0],
                              !.event = FALSE, !.played = 0]) : f \in SpawnFood(fresh, NoGold.pos)}

SnakeInit ==
    \E hard \in BOOLEAN :
        sn \in Reset([hard |-> hard, body |-> SnakeStart, dir |-> "right", pending |-> "right",
                      food |-> FoodFallback, gold |-> NoGold, score |-> 0, phase |-> "playing",
                      bombs |-> [i \in 1 .. BombSlots |-> NoBomb],
                      bullets |-> [i \in 1 .. BulletSlots |-> NoBullet], rocket |-> NoRocket,
                      banner |-> [kind |-> "none", ttl |-> 0], event |-> FALSE,
                      motion |-> [body |-> SnakeStart, bullets |-> <<>>],
                      at |-> "input", played |-> 0, late |-> 0, steps |-> 0,
                      shown |-> [phase |-> "nothing", score |-> 0, gold |-> 0, banner |-> "none"]])

-----------------------------------------------------------------------------
(* One step of the game *)

\* step: the head moves, eats, and the rest of the body follows.
StepSnake(s) ==
    LET next == Toward(s.body[1], s.dir)
        eat == next = s.food
        eatGold == ~eat /\ s.gold.ttl > 0 /\ s.gold.pos = next
        solid == IF eat THEN s.body ELSE Front(s.body)
        moved == [s EXCEPT
            !.body = <<next>> \o (IF eat /\ Len(s.body) + 1 < MaxLen THEN s.body ELSE Front(s.body)),
            !.score = @ + (IF eat THEN 1 ELSE IF eatGold THEN 3 ELSE 0),
            !.gold = IF eatGold THEN NoGold ELSE @,
            !.event = @ \/ (s.hard /\ (eatGold \/ (eat /\ (s.score + 1) % 2 = 0)))]
        fed == IF eat THEN {[moved EXCEPT !.food = f] : f \in SpawnFood(moved, NoGold.pos)} ELSE {moved}
        golden(t) == IF ~eat \/ t.gold.ttl > 0 THEN {t}
                     ELSE {t} \cup {[t EXCEPT !.gold = [pos |-> g, ttl |-> GoldTtl]] : g \in SpawnFood(t, t.food)}
        aged(t) == [t EXCEPT !.gold = IF @.ttl <= 1 THEN NoGold ELSE [@ EXCEPT !.ttl = @ - 1]]
    IN IF next \notin Cells \/ next \in ToSet(solid) THEN {Lost(s)}
       ELSE {aged(t) : t \in UNION {golden(t) : t \in fed}}

PlaceBomb(s, kind) ==
    LET free == {i \in 1 .. BombSlots : ~s.bombs[i].alive} IN
    IF free = {} THEN {s}
    ELSE {[s EXCEPT !.bombs[CHOOSE i \in free : \A j \in free : i <= j] =
              [pos |-> p, fuse |-> FuseOf[kind], kind |-> kind, alive |-> TRUE]]
          : p \in DrawnCells \ {s.body[1]}}

\* fire_ak: a burst of bullets from the edge the head is far from, each
\* waiting one step longer than the one before.
FireAk(s) ==
    LET head == s.body[1]
        shots == {IF head[1] < GridW \div 2 THEN [pos |-> <<0, head[2]>>, dir |-> "right"]
                  ELSE [pos |-> <<GridW - 1, head[2]>>, dir |-> "left"],
                  IF head[2] < GridH \div 2 THEN [pos |-> <<head[1], 0>>, dir |-> "down"]
                  ELSE [pos |-> <<head[1], GridH - 1>>, dir |-> "up"]}
        rank(i) == Cardinality({j \in 1 .. i - 1 : ~s.bullets[j].alive})
    IN {[s EXCEPT !.bullets =
            [i \in 1 .. BulletSlots |->
                IF s.bullets[i].alive \/ rank(i) >= AkBurst THEN s.bullets[i]
                ELSE [pos |-> shot.pos, dir |-> shot.dir, alive |-> TRUE, slow |-> rank(i)]]]
        : shot \in shots}

SpawnEvent(s) ==
    LET bannered(kind) == [s EXCEPT !.banner = [kind |-> kind, ttl |-> BannerTtl]]
        one == PlaceBomb(bannered("bombs"), "small")
        small == one \cup UNION {PlaceBomb(t, "small") : t \in one}
        far(head, size) == IF head < size \div 2 THEN (IF size >= 2 THEN size - 2 ELSE 0) ELSE 1
    IN small \cup UNION {PlaceBomb(t, "large") : t \in small}
       \cup FireAk(bannered("ak"))
       \cup {[bannered("rocket") EXCEPT !.rocket =
                 [pos |-> <<far(s.body[1][1], GridW), far(s.body[1][2], GridH)>>,
                  life |-> RocketLife, alive |-> TRUE]]}

TickBombs(s) ==
    LET burns(b) == b.alive /\ b.fuse <= 1
        hits(b) == \E p \in ToSet(s.body) : /\ Abs(p[1] - b.pos[1]) <= RadiusOf[b.kind]
                                            /\ Abs(p[2] - b.pos[2]) <= RadiusOf[b.kind]
        after(b) == IF ~b.alive \/ burns(b) THEN NoBomb ELSE [b EXCEPT !.fuse = @ - 1]
        s1 == [s EXCEPT !.bombs = [i \in 1 .. BombSlots |-> after(@[i])]]
    IN IF \E b \in ToSet(s.bombs) : burns(b) /\ hits(b) THEN Lost(s1) ELSE s1

TickBullet(s, i) ==
    LET b == s.bullets[i]
        p == Toward(b.pos, b.dir)
        gone == [s EXCEPT !.bullets[i] = NoBullet]
        flown == [s EXCEPT !.bullets[i].pos = p]
    IN CASE s.phase = "over" \/ ~b.alive -> {s}
         [] OTHER ->
            IF OnSnake(s, b.pos) THEN {Lost(gone)}
            ELSE IF b.slow > 0 THEN {[s EXCEPT !.bullets[i].slow = @ - 1]}
            ELSE IF p \notin Cells THEN {gone}
            ELSE IF OnSnake(s, p) THEN {Lost(gone)}
            ELSE IF s.gold.ttl > 0 /\ s.gold.pos = p THEN {gone}
            ELSE IF s.food = p
            THEN {[flown EXCEPT !.food = f, !.bullets[i].slow = @ + 1] : f \in SpawnFood(flown, NoGold.pos)}
            ELSE {flown}

\* The rocket homes along the longer axis, either one when they are equal.
TickRocket(s) ==
    LET r == s.rocket
        dx == s.body[1][1] - r.pos[1]
        dy == s.body[1][2] - r.pos[2]
        alongX == IF dx > 0 THEN "right" ELSE IF dx < 0 THEN "left" ELSE IF dy > 0 THEN "down" ELSE "up"
        alongY == IF dy > 0 THEN "down" ELSE IF dy < 0 THEN "up" ELSE IF dx > 0 THEN "right" ELSE "left"
        ways == (IF Abs(dx) >= Abs(dy) THEN {alongX} ELSE {}) \cup (IF Abs(dx) <= Abs(dy) THEN {alongY} ELSE {})
        to(d) == IF Toward(r.pos, d) \in Cells THEN Toward(r.pos, d) ELSE r.pos
    IN IF s.phase = "over" \/ ~r.alive THEN {s}
       ELSE IF OnSnake(s, r.pos) THEN {Lost([s EXCEPT !.rocket = NoRocket])}
       ELSE IF r.life = 0 THEN {[s EXCEPT !.rocket = NoRocket]}
       ELSE {IF OnSnake(s, to(d)) THEN Lost([s EXCEPT !.rocket = NoRocket])
             ELSE [s EXCEPT !.rocket = IF r.life > 1 THEN [pos |-> to(d), life |-> r.life - 1, alive |-> TRUE]
                                       ELSE NoRocket] : d \in ways}

TickHazards(s) ==
    LET s1 == TickBombs(s)
        shot == FoldLeft(LAMBDA S, i : UNION {TickBullet(t, i) : t \in S}, {s1}, [i \in 1 .. BulletSlots |-> i])
    IN UNION {TickRocket(t) : t \in shot}

TickBanner(s) ==
    IF s.banner.ttl <= 1 THEN [s EXCEPT !.banner = [kind |-> "none", ttl |-> 0]]
    ELSE [s EXCEPT !.banner.ttl = @ - 1]

-----------------------------------------------------------------------------
(* The frame loop *)

\* apply_input while playing: at most the last acceptable turn is kept.
ApplyTurn(d) ==
    /\ sn.at = "input" /\ sn.phase = "playing"
    /\ d # Opposite(sn.dir) /\ d # Opposite(sn.pending)
    /\ sn' = [sn EXCEPT !.pending = d]

\* Enter after a lost game.
PlayAgain ==
    /\ sn.at = "input" /\ sn.phase = "over"
    /\ sn' \in Reset(sn)

QuitGame == sn.at = "input" /\ sn' = [sn EXCEPT !.at = "quit"]

\* The clock is read: the game is behind by some steps.
BeginSteps ==
    /\ sn.at = "input"
    /\ IF sn.phase = "over" THEN sn' = [sn EXCEPT !.at = "render"]
       ELSE \E n \in 0 .. CatchUp + 1 : sn' = [sn EXCEPT !.at = "steps", !.late = n, !.steps = 0]

\* One round of the catch-up loop; a game too far behind starts anew from now.
CatchUpStep ==
    /\ sn.at = "steps" /\ sn.score < MaxScore /\ sn.played < MaxSteps
    /\ IF sn.late = 0 THEN sn' = [sn EXCEPT !.at = "render", !.steps = 0]
       ELSE LET turned == [Capture(sn) EXCEPT !.dir = sn.pending, !.played = @ + 1]
                events(t) == IF t.phase = "playing" /\ t.hard /\ t.event
                             THEN SpawnEvent([t EXCEPT !.event = FALSE]) ELSE {t}
                hazards(t) == IF t.phase = "playing" /\ t.hard THEN TickHazards(t) ELSE {t}
                paced(t) == IF t.phase = "over" THEN [t EXCEPT !.at = "render", !.late = 0, !.steps = 0]
                            ELSE IF t.steps + 1 >= CatchUp /\ t.late > 1
                            THEN [Capture(TickBanner(t)) EXCEPT !.at = "render", !.late = 0, !.steps = 0]
                            ELSE [TickBanner(t) EXCEPT !.late = @ - 1, !.steps = @ + 1]
            IN \E t \in StepSnake(turned) : \E u \in events(t) : \E v \in hazards(u) : sn' = paced(v)

\* render_smooth_board: every segment is drawn between where it was before the
\* last step and where it is; one that was not there stands still.
DrawnFrom(s, i) == IF i <= Len(s.motion.body) THEN s.motion.body[i] ELSE s.body[i]
BulletFrom(s, i) == IF s.motion.bullets[i].alive THEN s.motion.bullets[i].pos ELSE s.bullets[i].pos

Hud(s) == [phase |-> s.phase, score |-> s.score, gold |-> s.gold.ttl, banner |-> s.banner.kind]

\* draw_smooth: all of the screen when the phase has changed, then only what
\* has changed; nothing is drawn twice within a tick.
DrawSmooth ==
    /\ sn.at = "render"
    /\ \/ /\ sn.shown.phase # sn.phase \/ sn.phase = "playing"
          /\ sn' = [sn EXCEPT !.at = "input", !.shown = Hud(sn)]
       \/ sn.shown.phase = sn.phase /\ sn' = [sn EXCEPT !.at = "input"]

SnakeNext ==
    \/ \E d \in Dirs : ApplyTurn(d)
    \/ PlayAgain \/ QuitGame \/ BeginSteps \/ CatchUpStep \/ DrawSmooth

-----------------------------------------------------------------------------
Near(p, q) == Abs(p[1] - q[1]) + Abs(p[2] - q[2]) <= 1

\* The snake is whole: its segments are distinct cells of the grid, each next to
\* the one before, whatever turns are typed within one step and however late the
\* loop is; it never turns into its own neck; what is drawn between two steps
\* moves by at most one cell; and a lost game shows its final score.
SnakeWhole ==
    /\ \A i, j \in 1 .. Len(sn.body) : i # j => sn.body[i] # sn.body[j]
    /\ ToSet(sn.body) \subseteq Cells
    /\ \A i \in 1 .. Len(sn.body) - 1 : Near(sn.body[i], sn.body[i + 1])
    /\ sn.phase = "playing" => Toward(sn.body[1], sn.pending) # sn.body[2]
    /\ \A i \in 1 .. Len(sn.body) : Near(DrawnFrom(sn, i), sn.body[i])
    /\ \A i \in 1 .. BulletSlots : sn.bullets[i].alive => Near(BulletFrom(sn, i), sn.bullets[i].pos)
    /\ sn.at = "input" /\ sn.phase = "over" => sn.shown = Hud(sn)

-----------------------------------------------------------------------------
(***************************************************************************)
(* The terminal's text screen (terminal/src/screen.rs): a buffer of cells, *)
(* the dirty spans that say what of it has changed, and the renderer that  *)
(* redraws only those into a shadow and uploads rectangles of the shadow   *)
(* to the framebuffer.                                                     *)
(*                                                                         *)
(* A position of the picture is a glyph, its colour (text of the cursor's  *)
(* row is brighter) and whether the cursor is drawn there; pixel sizes are *)
(* reduced to the rows and columns a font leaves visible.                  *)
(***************************************************************************)

CONSTANTS ScrRows, ScrCols,      \* ROWS, COLS
          TabWidth,
          VisibleOf,             \* font -> [rows, cols] that fit on the canvas
          MaxScrOps, MaxScrFails \* bounds

VARIABLE scr
scrVars == <<scr>>

RowIds == 0 .. ScrRows - 1
ColIds == 0 .. ScrCols - 1
Fonts == DOMAIN VisibleOf
BlankPixel == [ch |-> " ", bright |-> FALSE, cursor |-> FALSE]
ForeignPixel == [ch |-> "x", bright |-> FALSE, cursor |-> FALSE]
NoSpan == [from |-> ScrCols, to |-> 0]
WholeRow == [from |-> 0, to |-> ScrCols]
ActiveColumns(s) == VisibleOf[s.font].cols
ActiveRows(s) == VisibleOf[s.font].rows
ViewportTop(s) == IF s.row < ActiveRows(s) THEN 0 ELSE s.row + 1 - ActiveRows(s)
LineLen(line) == Max({0} \cup {c + 1 : c \in {d \in ColIds : line[d] # " "}})

\* mark_dirty_span
MarkSpan(s, row, start, end) ==
    IF Min({start, ScrCols}) >= Min({end, ScrCols}) THEN s
    ELSE [s EXCEPT !.dirty[row] = [from |-> Min({@.from, start}), to |-> Max({@.to, Min({end, ScrCols})})]]

MarkAll(s) == [s EXCEPT !.dirty = [r \in RowIds |-> WholeRow], !.full = TRUE]
MarkNone(s) == [s EXCEPT !.dirty = [r \in RowIds |-> NoSpan], !.full = FALSE]

ScrInit ==
    scr = [cells |-> [r \in RowIds |-> [c \in ColIds |-> " "]],
           row |-> 0, col |-> 0, font |-> "small", visible |-> TRUE,
           dirty |-> [r \in RowIds |-> WholeRow], full |-> TRUE,
           top |-> 0, stale |-> FALSE,    \* generation # observed_shadow_generation
           shadow |-> [p \in RowIds \X ColIds |-> BlankPixel],
           shown |-> [p \in RowIds \X ColIds |-> ForeignPixel],
           fresh |-> FALSE, ops |-> 0, fails |-> 0]

-----------------------------------------------------------------------------
(* Writing *)

Scroll(s) ==
    MarkAll([s EXCEPT !.cells = [r \in RowIds |-> IF r = ScrRows - 1 THEN [c \in ColIds |-> " "] ELSE @[r + 1]],
                      !.row = ScrRows - 1, !.col = 0])

\* Mutant: only the new row is redrawn when the cursor leaves a row.
NewlineNewOnly(s) ==
    LET down == [s EXCEPT !.row = @ + 1, !.col = 0]
        cursor == IF s.visible THEN 1 ELSE 0
    IN IF s.row + 1 >= ScrRows THEN Scroll(s)
       ELSE MarkSpan(down, s.row + 1, 0, Max({LineLen(s.cells[s.row + 1]), cursor}))

\* newline: the rows the cursor leaves and enters change their colour.
Newline(s) ==
    LET down == [s EXCEPT !.row = @ + 1, !.col = 0]
        cursor == IF s.visible THEN 1 ELSE 0
    IN IF s.row + 1 >= ScrRows THEN Scroll(s)
       ELSE MarkSpan(MarkSpan(down, s.row, 0, Max({LineLen(s.cells[s.row]), s.col + cursor})),
                     s.row + 1, 0, Max({LineLen(s.cells[s.row + 1]), cursor}))

WritePrintable(s, ch) ==
    LET t == IF s.col >= ActiveColumns(s) THEN Newline(s) ELSE s
        w == [t EXCEPT !.cells[t.row][t.col] = ch, !.col = @ + 1]
    IN MarkSpan(w, w.row, t.col, w.col + (IF w.visible THEN 1 ELSE 0))

\* tab: blanks up to the next stop, or to the last visible column.
Tab(s) ==
    LET t == IF s.col >= ActiveColumns(s) THEN Newline(s) ELSE s
        stop == Min({(t.col \div TabWidth + 1) * TabWidth, ActiveColumns(t)})
        blank[n \in 0 .. ScrCols] == IF n = 0 THEN t ELSE WritePrintable(blank[n - 1], " ")
    IN blank[stop - t.col]

Backspace(s) ==
    IF s.col = 0 THEN s
    ELSE MarkSpan([s EXCEPT !.col = @ - 1, !.cells[s.row][s.col - 1] = " "], s.row, s.col - 1, s.col + 1)

CarriageReturn(s) ==
    LET home == [s EXCEPT !.col = 0]
    IN IF s.col # 0 /\ s.visible THEN MarkSpan(home, s.row, 0, s.col + 1) ELSE home

ClearScreen(s) ==
    MarkAll([s EXCEPT !.cells = [r \in RowIds |-> [c \in ColIds |-> " "]], !.row = 0, !.col = 0])

SetCursor(s, v) == IF s.visible = v THEN s ELSE MarkSpan([s EXCEPT !.visible = v], s.row, s.col, s.col + 1)

UseFont(s, f) == MarkAll([s EXCEPT !.font = f])

Written(s) ==
    {WritePrintable(s, "a"), WritePrintable(s, "b"), Newline(s), Tab(s), Backspace(s), CarriageReturn(s),
     ClearScreen(s)} \cup {SetCursor(s, v) : v \in BOOLEAN} \cup {UseFont(s, f) : f \in Fonts}

Write ==
    /\ scr.ops < MaxScrOps
    /\ \E s \in Written(scr) : scr' = [s EXCEPT !.ops = @ + 1, !.fresh = FALSE]

\* with_render_shadow: a full-screen program draws into the shared shadow and
\* shows it, under a new generation.
FullScreenDraw ==
    /\ scr.ops < MaxScrOps
    /\ scr' = [scr EXCEPT !.ops = @ + 1, !.fresh = FALSE, !.stale = TRUE,
                          !.shadow = [p \in RowIds \X ColIds |-> ForeignPixel],
                          !.shown = [p \in RowIds \X ColIds |-> ForeignPixel]]

-----------------------------------------------------------------------------
(* Rendering *)

\* What a position shows: draw_text and draw_cursor over the background.
PixelOf(s, r, c) ==
    LET ch == IF c < LineLen(s.cells[r]) THEN s.cells[r][c] ELSE " "
    IN [ch |-> ch, bright |-> ch # " " /\ r = s.row, cursor |-> s.visible /\ r = s.row /\ c = s.col]

\* render_full_buffered
FullPicture(s, top) ==
    [p \in RowIds \X ColIds |->
        IF p[1] < ActiveRows(s) /\ top + p[1] < ScrRows /\ p[2] < ActiveColumns(s)
        THEN PixelOf(s, top + p[1], p[2]) ELSE BlankPixel]

\* render_row_region_to_shadow: the dirty columns of a row that can be seen.
SpanOf(s, r) == {c \in ColIds : s.dirty[r].from <= c /\ c < Min({s.dirty[r].to, ActiveColumns(s)})}
DirtyRowsSeen(s, top) ==
    {d \in RowIds : d < ActiveRows(s) /\ top + d < ScrRows /\ SpanOf(s, top + d) # {}}

\* render_dirty_buffered: rectangles of adjacent rows are merged and uploaded
\* together; a failing upload leaves what came before it on the screen.
DirtyShadow(s, top) ==
    [p \in RowIds \X ColIds |->
        IF p[1] \in DirtyRowsSeen(s, top) /\ p[2] \in SpanOf(s, top + p[1])
        THEN PixelOf(s, top + p[1], p[2]) ELSE s.shadow[p]]

Rectangle(s, top, first, last) ==
    LET spans == UNION {SpanOf(s, top + d) : d \in first .. last}
    IN (first .. last) \X (Min(spans) .. Max(spans))
Rectangles(s, top) ==
    LET rows == DirtyRowsSeen(s, top) IN
    {Rectangle(s, top, f, l) : <<f, l>> \in {q \in rows \X rows :
        /\ q[1] <= q[2] /\ q[1] .. q[2] \subseteq rows
        /\ q[1] - 1 \notin rows /\ q[2] + 1 \notin rows}}

Uploaded(s, shadow, rects) ==
    [p \in RowIds \X ColIds |-> IF \E q \in rects : p \in q THEN shadow[p] ELSE s.shown[p]]

Presented(s, top, shadow, shown) ==
    [MarkNone(s) EXCEPT !.shadow = shadow, !.shown = shown, !.top = top, !.stale = FALSE,
                        !.fresh = TRUE]

\* render: the whole screen when another program drew or the view moved, else
\* the dirty spans; dirty tracking is kept when drawing fails.
Render ==
    LET top == ViewportTop(scr)
        s == IF scr.stale \/ top # scr.top THEN MarkAll(scr) ELSE scr
        nothing == ~s.full /\ \A r \in RowIds : s.dirty[r] = NoSpan
        whole == s.full \/ \A r \in RowIds : s.dirty[r] # NoSpan
        shadow == IF whole THEN FullPicture(s, top) ELSE DirtyShadow(s, top)
        rects == IF whole THEN {RowIds \X ColIds} ELSE Rectangles(s, top)
    IN /\ ~scr.fresh
       /\ \/ nothing /\ scr' = [s EXCEPT !.fresh = TRUE]
          \/ ~nothing /\ scr' = Presented(s, top, shadow, Uploaded(s, shadow, rects))
          \/ /\ ~nothing /\ scr.fails < MaxScrFails
             /\ \E done \in SUBSET rects :
                    /\ done # rects
                    /\ scr' = [s EXCEPT !.shadow = shadow, !.shown = Uploaded(s, shadow, done),
                                        !.stale = TRUE, !.fails = @ + 1]

ScrNext == Write \/ FullScreenDraw \/ Render

-----------------------------------------------------------------------------
\* After a render the screen shows the buffer: redrawing only what the dirty
\* spans name leaves the same picture as redrawing everything, colours of the
\* active row, cursor, scrolling, a change of font, a full-screen program in
\* between and failed uploads included.
ScreenShowsBuffer ==
    scr.fresh => scr.shown = FullPicture(scr, ViewportTop(scr))

-----------------------------------------------------------------------------
(***************************************************************************)
(* From the keyboard to a command: the input driver host decodes scancodes *)
(* and sends key events to its client (driver-host-input/src/main.rs), the *)
(* shell edits its line and echoes it, parses it and runs the command      *)
(* (terminal/src/shell.rs, parser.rs, commands.rs).                        *)
(*                                                                         *)
(* Scancodes stand for classes of keys; a word of a command line is its    *)
(* letters.  The screen is the text after the last prompt and where it is. *)
(***************************************************************************)

CONSTANTS Strokes,         \* [code, down]: a key goes down or up
          StartLines,      \* what has been typed when the run begins
          InputMax,        \* INPUT_MAX
          PromptColumns, ScreenColumns,
          MaxArgs,         \* MAX_ARGS
          KeyRoom,         \* queue of the keyboard channel
          CommandOf,       \* words the shell knows -> what the command does
          MaxStrokes       \* bound

VARIABLE ks
ksVars == <<ks>>

NoEvent == [key |-> "none", pressed |-> FALSE]

KsInit ==
    \E line \in StartLines, client \in {"none", "shell"} :
    ks = [shift |-> FALSE, caps |-> FALSE, ext |-> FALSE, port |-> <<>>,
          client |-> client, kbd |-> <<>>, strokes |-> 0,
          input |-> line, echo |-> line, at |-> "prompt", fs |-> "up",
          ran |-> <<>>]

-----------------------------------------------------------------------------
(* The input driver host *)

\* A key goes down or up: the interrupt handler queues a packet.
Stroke ==
    /\ ks.strokes < MaxStrokes
    /\ \E p \in Strokes : ks' = [ks EXCEPT !.port = Append(@, p), !.strokes = @ + 1]

\* KeyboardDecoder::feed: the state after a scancode and the event it makes.
Feed(s, p) ==
    LET upper == s.shift # s.caps
        key == CASE p.code = "a" -> IF upper THEN "A" ELSE "a"
                 [] p.code = "semi" -> IF s.shift THEN "colon" ELSE "semi"
                 [] OTHER -> p.code
        event == [key |-> key, pressed |-> p.down]
    IN CASE p.code = "ext" -> <<[s EXCEPT !.ext = TRUE], NoEvent>>
         [] p.code # "ext" /\ s.ext ->
              <<[s EXCEPT !.ext = FALSE],
                IF p.code = "up" THEN event ELSE NoEvent>>
         [] ~s.ext /\ p.code = "shift" -> <<[s EXCEPT !.shift = p.down], NoEvent>>
         [] ~s.ext /\ p.code = "caps" -> <<IF p.down THEN [s EXCEPT !.caps = ~@] ELSE s, NoEvent>>
         [] OTHER -> <<s, IF p.code = "up" THEN NoEvent ELSE event>>

\* send_keyboard_event: no client, or a full channel, and the event is gone.
SendEvent(s, e) ==
    IF e = NoEvent \/ s.client = "none" \/ Len(s.kbd) >= KeyRoom THEN s
    ELSE [s EXCEPT !.kbd = Append(@, e)]

\* drain_keyboard_port: every queued packet is decoded and sent.
DrainPort ==
    /\ ks.port # <<>>
    /\ ks' = [FoldLeft(LAMBDA s, p : SendEvent(Feed(s, p)[1], Feed(s, p)[2]), ks, ks.port) EXCEPT !.port = <<>>]

\* poll_bootstrap: driver-manager attaches the terminal as the client.
AttachClient ==
    /\ ks.client = "none"
    /\ ks' = [ks EXCEPT !.client = "shell"]

-----------------------------------------------------------------------------
(* The shell's line *)

Backspaced(s) ==
    IF s.input = <<>> THEN s ELSE [s EXCEPT !.input = Front(@), !.echo = IF @ = <<>> THEN @ ELSE Front(@)]

Escaped(s) ==
    IF s.input = <<>> THEN s
    ELSE [s EXCEPT !.input = <<>>, !.echo = SubSeq(@, 1, IF Len(@) > Len(s.input) THEN Len(@) - Len(s.input) ELSE 0)]

\* A printable key is kept while there is room; the row of the screen wraps.
Typed(s, key) ==
    IF Len(s.input) >= InputMax THEN s
    ELSE [s EXCEPT !.input = Append(@, key),
                   !.echo = IF PromptColumns + Len(@) >= ScreenColumns THEN <<key>> ELSE Append(@, key)]

Prompt(s) == [s EXCEPT !.input = <<>>, !.echo = <<>>, !.at = "prompt"]

\* normalize_atom: quotes around a word are taken off.
Normalized(word) ==
    IF Len(word) >= 2 /\ word[1] = "quote" /\ word[Len(word)] = "quote" THEN SubSeq(word, 2, Len(word) - 1) ELSE word

\* The lexer takes the longest match: a word ends at a blank or a semicolon, a
\* quoted one at the next quote.
Lex(line) ==
    LET n == Len(line)
        closing(i) == {j \in i + 1 .. n : line[j] = "quote"}
        \* <<token, first key after it>> of the token that starts at i
        ends(i) == {j \in i .. n : line[j] \in {"sp", "semi"}}
        first(S) == CHOOSE j \in S : \A k \in S : j <= k
        word(i) == LET e == IF ends(i) = {} THEN n + 1 ELSE first(ends(i)) IN <<SubSeq(line, i, e - 1), e>>
        token(i) == IF line[i] = "quote" /\ closing(i) # {} /\ first(closing(i)) + 1 > word(i)[2]
                    THEN <<SubSeq(line, i, first(closing(i))), first(closing(i)) + 1>> ELSE word(i)
        toks[i \in 1 .. n + 1] ==
            IF i > n THEN <<>>
            ELSE IF line[i] = "sp" THEN toks[i + 1]
            ELSE IF line[i] = "semi" THEN <<"semi">> \o toks[i + 1]
            ELSE <<Normalized(token(i)[1])>> \o toks[token(i)[2]]
    IN toks[1]

\* Parser::parse: the first command of the line, nothing after its semicolon.
Parse(line) ==
    LET toks == Lex(line)
        start == {i \in 1 .. Len(toks) : toks[i] # "semi"}
        first == CHOOSE i \in start : \A j \in start : i <= j
        stops == {i \in first .. Len(toks) : toks[i] = "semi"}
        last == IF stops = {} THEN Len(toks) ELSE (CHOOSE i \in stops : \A j \in stops : i <= j) - 1
    IN IF start = {} THEN [kind |-> "empty"]
       ELSE IF last - first > MaxArgs THEN [kind |-> "error"]
       ELSE [kind |-> "command", name |-> toks[first], args |-> SubSeq(toks, first + 1, last)]

\* execute_command: what it asks of others; everything else only prints.
Execute(s, ast) ==
    LET does == IF ast.kind = "command" /\ ast.name \in DOMAIN CommandOf THEN CommandOf[ast.name] ELSE "print"
    IN IF does = "file" /\ s.fs = "up" /\ ast.args # <<>> THEN [s EXCEPT !.at = "filesystem"]
       ELSE Prompt(s)

Trimmed(line) ==
    LET solid == {i \in 1 .. Len(line) : line[i] # "sp"}
    IN IF solid = {} THEN <<>>
       ELSE SubSeq(line, CHOOSE i \in solid : \A j \in solid : i <= j, CHOOSE i \in solid : \A j \in solid : i >= j)

\* handle_key on Enter: games and shutdown are taken by the shell itself.
Entered(s) ==
    LET line == Trimmed(s.input)
        does == IF line \in DOMAIN CommandOf THEN CommandOf[line] ELSE "line"
        t == [s EXCEPT !.ran = <<[typed |-> s.input, ast |-> Parse(s.input)]>>]
    IN CASE does = "game" -> [t EXCEPT !.at = "game", !.input = <<>>, !.echo = <<>>]
         [] does = "shutdown" -> Prompt(t)    \* sent to init, or refused and said so
         [] OTHER -> Execute(t, Parse(s.input))

HandleKey(s, key) ==
    CASE key = "enter" -> Entered(s) [] key = "bs" -> Backspaced(s) [] key = "esc" -> Escaped(s)
      [] key = "up" -> s [] OTHER -> Typed(s, key)

\* run: one message of the keyboard; key releases are of no interest to the shell.
ReadKey ==
    /\ ks.at = "prompt" /\ ks.kbd # <<>>
    /\ LET s == [ks EXCEPT !.kbd = Tail(@)]
       IN ks' = IF Head(ks.kbd).pressed THEN HandleKey(s, Head(ks.kbd).key) ELSE s

\* A game reads the same channel until it is left, then the screen is redrawn.
GameKey == ks.at = "game" /\ ks.kbd # <<>> /\ ks' = [ks EXCEPT !.kbd = Tail(@)]
LeaveGame == ks.at = "game" /\ ks' = Prompt(ks)

\* fs_request: the answer, or the end of the service, is printed.
FilesystemAnswers ==
    /\ ks.at = "filesystem"
    /\ \E up \in {"up", "down"} : ks' = [Prompt(ks) EXCEPT !.fs = up]

KsNext ==
    \/ Stroke \/ DrainPort \/ AttachClient \/ ReadKey \/ GameKey \/ LeaveGame
    \/ FilesystemAnswers

-----------------------------------------------------------------------------
\* The line the shell will run is the line the screen shows after the prompt,
\* whatever was typed, erased, cleared or dropped on the way; and the command it
\* runs is cut out of that line: no more words than fit, and none that holds a
\* blank or a separator unless it was quoted.
LineIsWhatIsShown ==
    /\ ks.echo = ks.input
    /\ Len(ks.input) <= InputMax
    /\ ks.ran # <<>> =>
          LET ast == ks.ran[1].ast
              words == {ast.name} \cup ToSet(ast.args)
          IN ast.kind = "command" =>
                /\ Len(ast.args) <= MaxArgs
                /\ \A w \in words : ToSet(w) \cap {"sp", "semi"} # {} => "quote" \in ToSet(ks.ran[1].typed)
=============================================================================
