------------------------------ MODULE MCEntropy ------------------------------
(* The jobs TLC runs: small pictures that meet the cases the coders tell     *)
(* apart.                                                                    *)
EXTENDS EntropyCoding

\* A block of n coefficients, zero but for those of values, a set of pairs
\* <<number, value>>.
Sparse(n, values) ==
  SubSeq([k \in 1 .. n |-> IF \E p \in values : p[1] = k - 1
                           THEN (CHOOSE p \in values : p[1] = k - 1)[2] ELSE 0], 1, n)

Component(h, width, tbl, size) ==
  [h |-> h, width |-> width, tbl |-> tbl, needed |-> TRUE, size |-> size]
Unneeded(comp) == [comp EXCEPT !.needed = FALSE]
Gray(width, size) == <<Component(1, width, 1, size)>>

Job(comps, picture, lim_Se, script_, interval) ==
  [comps |-> comps, picture |-> picture, arith |-> FALSE, optimize |-> FALSE,
   script |-> script_, interval |-> interval, lim_Se |-> lim_Se,
   waits |-> {}, damage |-> FALSE]
Optimized(j) == [j EXCEPT !.optimize = TRUE]
Arithmetic(j) == [j EXCEPT !.arith = TRUE]
Waiting(j, most) == [j EXCEPT !.waits = 0 .. most]
Damaged(j) == [j EXCEPT !.damage = TRUE]

\* Full-size blocks in three components, the first with two blocks in an MCU:
\* extreme values and differences, runs of sixteen zeros and more, a block that
\* is full to its last coefficient, and empty ones.
Full == <<8, 8>>
ColourComps(size2, size3) ==
  << Component(2, 4, 1, Full), Component(1, 2, 2, size2), Component(1, 2, 2, size3) >>
WithoutLast(comps) == [comps EXCEPT ![3] = Unneeded(@)]
ColourPicture ==
  << << Sparse(64, {<<0, -1024>>, <<1, 1023>>, <<20, -1>>, <<63, 2>>}),
        Sparse(64, {<<0, 1023>>, <<34, 5>>}),
        Sparse(64, {}),
        Sparse(64, {<<0, 7>>, <<1, -3>>, <<2, 1>>, <<5, -2>>, <<63, -1>>}) >>,
     << Sparse(64, {<<0, 3>>, <<2, -1>>}), Sparse(64, {<<0, -5>>, <<1, 4>>, <<8, 1>>}) >>,
     << Sparse(64, {<<0, 1>>}), Sparse(64, {<<0, 1>>, <<17, -6>>}) >> >>

\* Blocks of two by two coefficients that end early, are full, change sign.
SmallPicture ==
  << << Sparse(4, {<<0, 5>>, <<1, -3>>}), Sparse(4, {<<0, -6>>, <<3, 1>>}),
        Sparse(4, {}), Sparse(4, {<<1, 2>>, <<2, -7>>, <<3, 3>>}),
        Sparse(4, {}), Sparse(4, {<<0, 1>>, <<2, 1>>}) >> >>

\* Ten segments or more, so that the restart numbers start again.
LongPicture(v) ==
  << SubSeq([b \in 1 .. 10 |-> Sparse(4, {<<0, ((b * v) % 19) - 9>>, <<1 + (b % 3), 1 - 2 * (b % 2)>>})],
            1, 10) >>

\* Four coefficients that are refined and then a block full of them.
FullPicture ==
  << << Sparse(64, {<<k, 2>> : k \in 1 .. 4}), Sparse(64, {<<k, 3>> : k \in 1 .. 63}) >> >>

Scan(Ss, Se, Ah, Al) == fill_a_scan(1, Ss, Se, Ah, Al)
FineScript == << Scan(0, 0, 0, 1), Scan(1, 2, 0, 2), Scan(3, 63, 0, 1), Scan(1, 2, 2, 1),
                 Scan(0, 0, 1, 0), Scan(1, 63, 1, 0) >>
SeparateScript == << fill_a_scan(2, 0, 63, 0, 0), [comps |-> <<1, 3>>, Ss |-> 0, Se |-> 63,
                                                    Ah |-> 0, Al |-> 0] >>

MCJobs ==
  LET huffman ==
        << Job(ColourComps(Full, Full), ColourPicture, 63, << >>, 0),
           Optimized(Job(WithoutLast(ColourComps(<<1, 1>>, Full)), ColourPicture, 63, << >>, 1)),
           Optimized(Job(ColourComps(Full, <<4, 2>>), ColourPicture, 63, SeparateScript, 2)),
           Job(ColourComps(Full, Full), ColourPicture, 63, jpeg_simple_progression(3, TRUE), 0),
           Job(ColourComps(Full, Full), ColourPicture, 63, jpeg_simple_progression(3, FALSE), 2),
           Waiting(Job(Gray(6, <<2, 2>>), SmallPicture, 3, << >>, 2), 40),
           Waiting(Job(Gray(6, <<2, 1>>), SmallPicture, 3, FineScript, 0), 40),
           Waiting(Job(Gray(6, <<2, 2>>), SmallPicture, 3, FineScript, 4), 40),
           Job(Gray(2, Full), FullPicture, 63, jpeg_simple_progression(1, FALSE), 0) >>
      arithmetic ==
        << Arithmetic(Job(ColourComps(Full, Full), ColourPicture, 63, << >>, 1)),
           Arithmetic(Job(ColourComps(Full, Full), ColourPicture, 63,
                          jpeg_simple_progression(3, TRUE), 2)),
           Arithmetic(Job(Gray(6, <<2, 2>>), SmallPicture, 3, FineScript, 4)) >>
      damaged ==
        << Damaged(Job(Gray(10, <<2, 2>>), LongPicture(7), 3, << >>, 1)),
           Damaged(Arithmetic(Job(Gray(10, <<2, 2>>), LongPicture(7), 3, << >>, 1))) >>
  IN  huffman \o arithmetic \o damaged
=============================================================================
