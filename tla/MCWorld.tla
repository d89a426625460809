------------------------------ MODULE MCWorld ------------------------------
(* Instances of World for TLC. *)
EXTENDS World, TLC

CONSTANTS p1, p2,
          ring, chest, lever, wall, button, plate, lock,
          crate, barrel, block, wheel, opening, finale, prop, blast, stone,
          warg, troll, bard

\* One object to a level: the kinds share only the session and the level, so that a
\* level with several objects would add little but shuffled steps.
Played(things, gone, often) ==
    {[objects |-> {o}, players |-> Players, away |-> gone, absences |-> often] : o \in things}

\* Only one of two who fill a lock is ever absent, and once.
OneOfEach ==
    Played({ring, chest, lever, wall, button, crate, block, wheel, opening, prop, blast, stone,
            warg}, Players, 2)
    \cup UNION {Played({lock}, {p}, 1) : p \in Players}
OnlyLever == Played({lever}, {}, 0)
OnlyLock == Played({lock}, {}, 0)

\* Two players, nobody absent; or a host who stays, and a client who may come late.
Pair(things) == [objects |-> things, players |-> {p1, p2}, away |-> {}, absences |-> 0]
Late(o) == [objects |-> {o}, players |-> {p1, p2}, away |-> {p2}, absences |-> 1]
WargLate == {Late(warg)}

\* Nobody is absent where somebody who comes late is told nothing.  A third player adds
\* nothing but shuffled steps to what two do to a wall or a lock, and to the echoes of a
\* button; a lever is there with two players as well as with three.
OneOfEachLive ==
    Played({ring, chest, lever, plate, block, opening, finale, prop, blast, stone}, {}, 0)
    \cup {Pair({wall}), Pair({button}), Pair({lever}), Pair({lock}), Pair({crate, barrel}),
          Late(wheel), Late(warg)}

\* Players are interchangeable if all of them place items.
Symmetry == Permutations(Players)
=============================================================================
