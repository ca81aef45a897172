----------------------------- MODULE MCPrograms ----------------------------
(* The programs for TLC: two series of two values, and of each window the  *)
(* sizes and resolutions at which something changes.                       *)
EXTENDS Programs

MCSeries == {"temperature", "humidity"}
MCValues == {0, 1}
MCData == [s \in MCSeries |-> 0]

MCWindowSizes == [
    panels |-> {[w |-> 1164, h |-> 861], [w |-> 360, h |-> 200]},
    workbench |-> {[w |-> 924, h |-> 641], [w |-> 1848, h |-> 1282]},
    form |-> {[w |-> 1144, h |-> 861], [w |-> 700, h |-> 500], [w |-> 2000, h |-> 1700],
             [w |-> 285, h |-> 861]},
    studio |-> {[w |-> 924, h |-> 661], [w |-> 1848, h |-> 1322], [w |-> 400, h |-> 300]},
    theme |-> {[w |-> 1224, h |-> 861], [w |-> 2448, h |-> 1722], [w |-> 800, h |-> 600]},
    gallery |-> {[w |-> 1224, h |-> 1081], [w |-> 2448, h |-> 1761],
                 [w |-> 2448, h |-> 2162], [w |-> 800, h |-> 600]},
    play |-> {[w |-> 924, h |-> 661], [w |-> 1848, h |-> 1322], [w |-> 600, h |-> 400]},
    resources |-> {[w |-> 924, h |-> 581], [w |-> 1848, h |-> 1162]},
    tour |-> {[w |-> 934, h |-> 671]},
    layout |-> {[w |-> 800, h |-> 600], [w |-> 1000, h |-> 700], [w |-> 101, h |-> 3]},
    thumb |-> {[w |-> 16, h |-> 200], [w |-> 200, h |-> 16], [w |-> 3, h |-> 30]},
    rail |-> {[w |-> 200, h |-> 24], [w |-> 24, h |-> 200], [w |-> 20, h |-> 10]},
    chart |-> {[w |-> 360, h |-> 240], [w |-> 200, h |-> 160], [w |-> 163, h |-> 90]}]

MCDpi == [
    workbench |-> {96, 192}, form |-> {96, 192}, studio |-> {96, 120, 192},
    theme |-> {96, 144, 192}, gallery |-> {96, 192}, play |-> {96, 192},
    resources |-> {96, 192}, tour |-> {96, 192}, thumb |-> {96, 192}, rail |-> {96, 192}]

MCOriginals == {[x |-> 10, y |-> 10, width |-> 100, height |-> 30]}
MCRatios == {-100, 0, 25, 50, 200}
MCThicknesses == {-2, 4}
MCThumbRanges == {<<0, 100>>, <<10, 10>>, <<-5, 20>>}
MCThumbPositions == {-7, 0, 33, 300}
MCRailRanges == {<<0, 100>>, <<50, 200>>, <<7, 7>>}
MCRailPositions == {-1, 60, 300}

\* Points over 1, 2, 3...
Points(values) == [i \in DOMAIN values |-> [x |-> i, y |-> values[i]]]

MCTicks == {[w |-> 20, h |-> 14], [w |-> 40, h |-> 28], [w |-> 50, h |-> 30]}
MCChartData == {
    <<>>, <<Points(<<7>>)>>,
    <<Points(<<0, 10, 5>>), Points(<<3, 4>>), Points(<<8, 1, 12>>)>>,
    <<Points(<<-3, 4, 9, 2>>), Points(<<5, -1>>)>>}
MCAxes == {<<<<1, 3>>, <<0, 10>>>>, <<<<0, 4>>, <<2, 2>>>>, <<<<1, 4>>, <<2, 9>>>>}

MCCaptions == {<<1, "New">>, <<1, "Undo">>}
=============================================================================
