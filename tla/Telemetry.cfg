SPECIFICATION FairSpec
INVARIANTS
  OneTrace
  BooksBalance
PROPERTY SpansEnd
