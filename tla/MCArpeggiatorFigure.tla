------------------------ MODULE MCArpeggiatorFigure ------------------------
EXTENDS ArpeggiatorFigure

CONSTANTS Patterns, Shapes, Lengths, Ranges

\* Every pattern with one shape, and every shape with one pattern.
MCFigures ==
    [pattern: Patterns, shape: {"Triad135"}, length: Lengths, range: {1}]
      \cup [pattern: {"Up"}, shape: Shapes, length: {9}, range: Ranges]
MCEveryScale == SUBSET (0 .. NoteCount - 1)
MCMajor == {{0, 2, 4, 5, 7, 9, 11}}
=============================================================================
