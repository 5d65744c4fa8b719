\* Up to four of twenty topics and patterns, against every topic of up to three
\* levels.
SPECIFICATION Spec
CONSTANTS
  Letters <- MCLetters
  Topics <- MCTopics
  Published <- MCPublished
  MaxSize = 4
INVARIANTS TrieShape MatchesByLevels
PROPERTY ImplementsSet
\* A character outside the alphabet ends the process.
CHECK_DEADLOCK FALSE
