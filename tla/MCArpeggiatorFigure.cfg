SPECIFICATION FigureSpec
CONSTANTS
  NoteCount = 4
  MaxSemitone = 16
  StepModulus = 12
  RandomStates = {0, 5}
  RandomSeed = 0
  Figures <- MCFigures
  Scales <- MCEveryScale
  Roots = {0, 13}
  Patterns = {"Up", "Down", "UpDown", "DownUp", "Rotate", "OutsideIn", "InsideOut", "Random"}
  Shapes = {"Triad135", "OneTwoFive", "OneFourFive", "OneThreeSix", "OneFiveEight", "Adjacent1234", "Seventh1357", "StackedThirds"}
  Lengths = {1, 2, 3, 5, 6}
  Ranges = {1, 2}
INVARIANT NotesOfTheScale
PROPERTY PatternsVisitAll
