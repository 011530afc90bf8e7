SPECIFICATION Spec
CONSTANTS
  cat = cat
  dog = dog
  unknown = unknown
  Images = {cat, dog}
  Names = {unknown}
  NameOf <- NamesGiven
  Bytes <- PicturesHere
  Matches <- PatternsFind
  Legacy = {dog}
  LastSecond = 1
  MaxItems = 3
  Paths <- Files
INVARIANTS
  FoundIsOwn
  TagsAreOfImage
  ResultsAreOwn
CHECK_DEADLOCK FALSE
